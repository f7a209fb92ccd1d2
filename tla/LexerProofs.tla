----------------------------- MODULE LexerProofs -----------------------------
(***************************************************************************)
(* Proofs about the scanning loop, for every source and every classes of   *)
(* characters: the position stays inside the source, but for a comment on  *)
(* a last line without newline, only a _ yields a token without text, and  *)
(* the texts of the tokens are the text that was read.  At the end, the    *)
(* proofs about reading the program: for every input, first capacity and   *)
(* way fread cuts the input into chunks, the source is the input.          *)
(***************************************************************************)
EXTENDS Lexer, ReadSource, FiniteSetTheorems, SequenceTheorems, WellFoundedInduction, TLAPS

(* The tokens are a sequence, besides what the two properties say.          *)
Inv ==
  /\ source \in Sources
  /\ \E A : toks \in Seq(A)
  /\ TypeOK
  /\ OverrunsOnlyInComment

-----------------------------------------------------------------------------
(* No keyword is empty.                                                     *)
LEMMA EmptyIsNoKeyword == word_type(<<>>) = "IDENT"
  <1>1. \A k \in Keywords : k[1] # <<>>
    BY DEF Keywords
  <1>2. <<>> \notin DOMAIN keywords
    BY <1>1 DEF keywords
  <1>3. QED
    BY <1>2 DEF word_type

(* A set of numbers that is not empty has a least one.                      *)
LEMMA LeastNumber ==
  ASSUME NEW S, S \subseteq Nat, S # {}
  PROVE  Min(S) \in S /\ \A n \in S : Min(S) <= n
  <1>1. \E m \in S : \A n \in S : ~ (<<n, m>> \in OpToRel(<, Nat))
    BY NatLessThanWellFounded, WFMin
  <1>2. PICK m \in S : \A n \in S : ~ (n < m)
    BY <1>1 DEF OpToRel
  <1>3. \A n \in S : m <= n
    BY <1>2
  <1>4. QED
    BY <1>3 DEF Min

-----------------------------------------------------------------------------
LEMMA SourceIsSeq ==
  ASSUME source \in Sources
  PROVE  src_len \in Nat /\ DOMAIN src = 1 .. src_len /\ \E A : src \in Seq(A)
  <1>1. src \in Seq({src[i] : i \in DOMAIN src})
    BY CharsAssumption DEF src
  <1>2. QED
    BY <1>1 DEF src_len

(* A run of characters ends, at the latest with the source.                 *)
LEMMA RunEnds ==
  ASSUME source \in Sources, ch_pos \in 1 .. src_len, NEW kind
  PROVE  /\ RunEnd(kind) \in ch_pos .. (src_len + 1)
         /\ \A i \in ch_pos .. (RunEnd(kind) - 1) : src[i] \in kind
         /\ RunEnd(kind) = src_len + 1 \/ src[RunEnd(kind)] \notin kind
  <1> DEFINE S == {e \in ch_pos .. (src_len + 1) : e = src_len + 1 \/ src[e] \notin kind}
  <1>1. src_len \in Nat /\ ch_pos \in Nat /\ ch_pos <= src_len
    BY SourceIsSeq
  <1>2. S \subseteq Nat /\ src_len + 1 \in S
    BY <1>1
  <1> HIDE DEF S
  <1>3. Min(S) \in S /\ \A n \in S : Min(S) <= n
    BY <1>2, LeastNumber
  <1>4. PICK m \in Nat : m = Min(S)
    BY <1>2, <1>3
  <1>5. m \in ch_pos .. (src_len + 1) /\ (m = src_len + 1 \/ src[m] \notin kind)
    BY <1>3, <1>4 DEF S
  <1>6. \A i \in ch_pos .. (m - 1) : src[i] \in kind
    <2>1. SUFFICES ASSUME NEW i \in ch_pos .. (m - 1), i \notin S PROVE src[i] \in kind
      BY <1>1, <1>3, <1>4
    <2>2. i \in ch_pos .. (src_len + 1)
      BY <1>1, <1>5
    <2>3. QED
      BY <2>1, <2>2 DEF S
  <1>7. QED
    BY <1>5, <1>6 DEF RunEnd

(* A token that is added keeps the type of the tokens.                      *)
LEMMA TokenAdded ==
  ASSUME Inv, NEW type, NEW str, str = <<>> => type \in {"IDENT", "EOF"},
         toks' = Append(toks, Token(type, str))
  PROVE  /\ \E A : toks' \in Seq(A)
         /\ \A i \in DOMAIN toks' :
              toks'[i].str = <<>> => toks'[i].type \in {"IDENT", "EOF"}
  <1>1. PICK A : toks \in Seq(A)
    BY DEF Inv
  <1>2. PICK t : t = Token(type, str)
    OBVIOUS
  <1>3. PICK n \in Nat : n = Len(toks)
    BY <1>1
  <1>4. /\ toks' \in Seq(A \cup {t})
        /\ DOMAIN toks' = 1 .. (n + 1)
        /\ toks'[n + 1] = t
        /\ \A i \in 1 .. n : toks'[i] = toks[i]
    <2>1. toks \in Seq(A \cup {t})
      BY <1>1
    <2>2. QED
      BY <1>1, <1>2, <1>3, <2>1
  <1>5. t.str = <<>> => t.type \in {"IDENT", "EOF"}
    BY <1>2 DEF Token
  <1>6. \A i \in 1 .. n : toks[i].str = <<>> => toks[i].type \in {"IDENT", "EOF"}
    BY <1>1, <1>3 DEF Inv, TypeOK
  <1>7. QED
    BY <1>3, <1>4, <1>5, <1>6

(* A text from one position to a later one is not empty.                    *)
LEMMA TextIsNotEmpty ==
  ASSUME source \in Sources, ch_pos \in 1 .. src_len,
         NEW e \in (ch_pos + 1) .. (src_len + 1)
  PROVE  SubSeq(src, ch_pos, e - 1) # <<>>
  <1>1. PICK A : src \in Seq(A)
    BY SourceIsSeq
  <1>2. src_len \in Nat /\ src_len = Len(src)
    BY SourceIsSeq DEF src_len
  <1>3. PICK p \in Nat : p = ch_pos /\ p >= 1
    BY <1>2
  <1>4. \A i \in p .. (e - 1) : i \in 1 .. Len(src)
    BY <1>2, <1>3
  <1>5. Len(SubSeq(src, p, e - 1)) = e - 1 - p + 1
    BY <1>1, <1>2, <1>3, <1>4
  <1>6. PICK text : text = SubSeq(src, p, e - 1)
    OBVIOUS
  <1>7. text # <<>>
    <2>1. Len(text) = e - 1 - p + 1
      BY <1>5, <1>6
    <2>2. SUFFICES ASSUME text = <<>> PROVE FALSE
      OBVIOUS
    <2>3. Len(text) = 0
      BY <2>2
    <2>4. QED
      BY <1>2, <1>3, <2>1, <2>3
  <1>8. QED
    BY <1>3, <1>6, <1>7
-----------------------------------------------------------------------------
(* The invariant.                                                           *)
LEMMA InitInv == Init => Inv
  <1> SUFFICES ASSUME Init PROVE Inv
    OBVIOUS
  <1>1. src_len \in Nat
    BY SourceIsSeq DEF Init
  <1>2. TypeOK
    BY <1>1 DEF Init, TypeOK
  <1>3. OverrunsOnlyInComment
    BY <1>1 DEF Init, OverrunsOnlyInComment
  <1>4. \E A : toks \in Seq(A)
    BY DEF Init
  <1>5. QED
    BY <1>2, <1>3, <1>4 DEF Init, Inv

(* What moves the position inside the source and keeps the tokens typed     *)
(* keeps the invariant.                                                     *)
LEMMA MovedInside ==
  ASSUME Inv, UNCHANGED <<source, status>>, status = "scanning",
         NEW e \in 1 .. (src_len + 1), ch_pos' = e,
         \E A : toks' \in Seq(A),
         \A i \in DOMAIN toks' :
           toks'[i].str = <<>> => toks'[i].type \in {"IDENT", "EOF"}
  PROVE  Inv'
  <1>1. src' = src /\ src_len' = src_len /\ src_len \in Nat
    BY SourceIsSeq DEF Inv, src, src_len
  <1>2. e \in 1 .. (src_len + 3) /\ ~(e > src_len + 1)
    BY <1>1
  <1>3. TypeOK'
    BY <1>1, <1>2 DEF TypeOK
  <1>4. OverrunsOnlyInComment'
    BY <1>1, <1>2 DEF OverrunsOnlyInComment
  <1>5. QED
    BY <1>3, <1>4 DEF Inv

LEMMA AddToken ==
  ASSUME Inv, UNCHANGED <<source, status>>, status = "scanning",
         NEW type, NEW e \in ch_pos .. (src_len + 1), ch_pos \in 1 .. src_len,
         e = ch_pos => type = "IDENT",
         add_token(type, e)
  PROVE  Inv'
  <1>1. src_len \in Nat /\ source \in Sources
    BY SourceIsSeq DEF Inv
  <1>2. SubSeq(src, ch_pos, e - 1) = <<>> => type \in {"IDENT", "EOF"}
    <2>1. CASE e = ch_pos
      BY <2>1
    <2>2. CASE e # ch_pos
      <3>1. e \in (ch_pos + 1) .. (src_len + 1)
        BY <1>1, <2>2
      <3>2. QED
        BY <1>1, <3>1, TextIsNotEmpty
    <2>3. QED
      BY <2>1, <2>2
  <1>3. /\ \E A : toks' \in Seq(A)
        /\ \A i \in DOMAIN toks' :
             toks'[i].str = <<>> => toks'[i].type \in {"IDENT", "EOF"}
    BY <1>2, TokenAdded DEF add_token
  <1>4. e \in 1 .. (src_len + 1) /\ ch_pos' = e
    BY <1>1 DEF add_token
  <1>5. QED
    BY <1>3, <1>4, MovedInside

LEMMA SkipInv ==
  ASSUME Inv, UNCHANGED <<source, status>>, status = "scanning",
         ch_pos \in 1 .. src_len, NEW n \in 0 .. 1, Skip(n)
  PROVE  Inv'
  <1>1. src_len \in Nat
    BY SourceIsSeq DEF Inv
  <1>2. ch_pos + n \in 1 .. (src_len + 1) /\ ch_pos' = ch_pos + n /\ toks' = toks
    BY <1>1 DEF Skip
  <1>3. PICK e \in 1 .. (src_len + 1) : ch_pos' = e
    BY <1>2
  <1>4. \A i \in DOMAIN toks' :
          toks'[i].str = <<>> => toks'[i].type \in {"IDENT", "EOF"}
    BY <1>2 DEF Inv, TypeOK
  <1>5. \E A : toks' \in Seq(A)
    BY <1>2 DEF Inv
  <1>6. QED
    BY <1>3, <1>4, <1>5, MovedInside

LEMMA ScanInv == ASSUME Inv, scan PROVE Inv'
  <1>1. /\ UNCHANGED <<source, status>> /\ status = "scanning"
        /\ source \in Sources /\ src_len \in Nat
    BY SourceIsSeq DEF Inv, scan, Scanning
  <1>2. ch_pos \in 1 .. src_len
    BY <1>1 DEF Inv, TypeOK, scan, Scanning
  <1>3. CASE blank
    BY <1>1, <1>2, <1>3, SkipInv DEF blank
  <1>4. CASE number
    <2>1. RunEnd(Digit) \in ch_pos .. (src_len + 1)
      BY <1>1, <1>2, RunEnds
    <2>2. RunEnd(Digit) # ch_pos
      <3>1. RunEnd(Digit) = src_len + 1 \/ src[RunEnd(Digit)] \notin Digit
        BY <1>1, <1>2, RunEnds
      <3>2. src[ch_pos] \in Digit /\ ch_pos # src_len + 1
        BY <1>1, <1>2, <1>4 DEF number, Ch
      <3>3. QED
        BY <3>1, <3>2
    <2>3. QED
      BY <1>1, <1>2, <1>4, <2>1, <2>2, AddToken DEF number
  <1>5. CASE word
    <2>1. PICK e \in ch_pos .. (src_len + 1) : e = RunEnd(Alpha \cup Digit)
      BY <1>1, <1>2, RunEnds
    <2>2. CASE add_token(word_type(SubSeq(src, ch_pos, e - 1)), e)
      <3>1. ASSUME e = ch_pos PROVE word_type(SubSeq(src, ch_pos, e - 1)) = "IDENT"
        <4>1. PICK A : src \in Seq(A)
          BY <1>1, SourceIsSeq
        <4>2. PICK p \in Nat : p = ch_pos
          BY <1>1, <1>2
        <4>3. SubSeq(src, p, p - 1) = <<>>
          BY <4>1, <4>2
        <4>4. QED
          BY <3>1, <4>2, <4>3, EmptyIsNoKeyword
      <3>2. PICK type : type = word_type(SubSeq(src, ch_pos, e - 1))
        OBVIOUS
      <3>3. add_token(type, e) /\ (e = ch_pos => type = "IDENT")
        BY <2>2, <3>1, <3>2
      <3>4. QED
        BY <1>1, <1>2, <3>3, AddToken
    <2>3. CASE Skip(0)
      BY <1>1, <1>2, <2>3, SkipInv
    <2>4. QED
      BY <1>5, <2>1, <2>2, <2>3 DEF word
  <1>6. CASE single_char
    <2>1. ch_pos + 1 \in ch_pos .. (src_len + 1) /\ ch_pos + 1 # ch_pos
      BY <1>1, <1>2
    <2>2. QED
      BY <1>1, <1>2, <1>6, <2>1, AddToken DEF single_char
  <1>7. CASE comment
    <2>1. NewlineAfter \subseteq Nat /\ NewlineAfter # {}
      BY <1>1, <1>2, <1>7 DEF comment, NewlineAfter
    <2>2. Min(NewlineAfter) \in NewlineAfter
      BY <2>1, LeastNumber
    <2>3. Min(NewlineAfter) + 1 \in 1 .. (src_len + 1)
      BY <1>1, <1>2, <2>2 DEF NewlineAfter
    <2>4. PICK e \in 1 .. (src_len + 1) : ch_pos' = e /\ toks' = toks
      BY <1>7, <2>3 DEF comment
    <2>5. \A i \in DOMAIN toks' :
            toks'[i].str = <<>> => toks'[i].type \in {"IDENT", "EOF"}
      BY <2>4 DEF Inv, TypeOK
    <2>6. \E A : toks' \in Seq(A)
      BY <2>4 DEF Inv
    <2>7. QED
      BY <1>1, <2>4, <2>5, <2>6, MovedInside
  <1>8. CASE dotdot
    <2>1. ch_pos + 2 \in ch_pos .. (src_len + 1) /\ ch_pos + 2 # ch_pos
      BY <1>1, <1>2, <1>8 DEF dotdot, AtDotdot
    <2>2. QED
      BY <1>1, <1>2, <1>8, <2>1, AddToken DEF dotdot
  <1>9. CASE unknown
    <2>1. Skip(1)
      BY <1>9 DEF unknown
    <2>2. QED
      BY <1>1, <1>2, <2>1, SkipInv
  <1>10. QED
    BY <1>3, <1>4, <1>5, <1>6, <1>7, <1>8, <1>9 DEF scan

(* A # with no newline behind it opens a comment that lasts to the end.     *)
LEMMA OverrunInv == ASSUME Inv, comment_overruns PROVE Inv'
  <1>1. /\ source' = source /\ toks' = toks
        /\ source \in Sources /\ src_len \in Nat
        /\ src' = src /\ src_len' = src_len
    BY SourceIsSeq DEF Inv, comment_overruns, src, src_len
  <1>2. ch_pos \in 1 .. src_len /\ src[ch_pos] = "#"
    BY <1>1 DEF Inv, TypeOK, comment_overruns, Scanning, Ch
  <1>3. \A k \in ch_pos .. src_len : src[k] # "\n"
    BY DEF comment_overruns, NewlineAfter
  <1>4. InComment(src_len)
    BY <1>2, <1>3 DEF InComment
  <1>5. src # <<>>
    <2>1. Len(src) # 0
      BY <1>1, <1>2 DEF src_len
    <2>2. QED
      BY <2>1
  <1>6. /\ ch_pos' = src_len + 3 \/ ch_pos' = ch_pos
        /\ status' \in {"scanning", "crashed"}
    BY DEF comment_overruns, Scanning
  <1>7. TypeOK'
    <2>1. src_len + 3 \in 1 .. (src_len + 3) /\ ch_pos \in 1 .. (src_len + 3)
      BY <1>1, <1>2
    <2>2. \A i \in DOMAIN toks : toks[i].str = <<>> => toks[i].type \in {"IDENT", "EOF"}
      BY DEF Inv, TypeOK
    <2>3. QED
      BY <1>1, <1>6, <2>1, <2>2 DEF TypeOK
  <1>8. OverrunsOnlyInComment'
    BY <1>1, <1>4, <1>5 DEF OverrunsOnlyInComment, InComment
  <1>9. QED
    BY <1>1, <1>7, <1>8 DEF Inv

LEMMA FinishInv == ASSUME Inv, finish PROVE Inv'
  <1>1. /\ UNCHANGED <<source, ch_pos>> /\ status = "scanning" /\ status' = "done"
        /\ src' = src /\ src_len' = src_len
    BY DEF finish, src, src_len
  <1>2. /\ \E A : toks' \in Seq(A)
        /\ \A i \in DOMAIN toks' :
             toks'[i].str = <<>> => toks'[i].type \in {"IDENT", "EOF"}
    BY TokenAdded DEF finish, EOF
  <1>3. TypeOK'
    BY <1>1, <1>2 DEF Inv, TypeOK
  <1>4. OverrunsOnlyInComment'
    BY <1>1 DEF Inv, OverrunsOnlyInComment, InComment
  <1>5. QED
    BY <1>1, <1>2, <1>3, <1>4 DEF Inv

LEMMA NextInv == Inv /\ [lexer_tokenize]_vars => Inv'
  <1>1. ASSUME Inv, UNCHANGED vars PROVE Inv'
    BY <1>1 DEF Inv, vars, TypeOK, OverrunsOnlyInComment, InComment, src, src_len
  <1>2. QED
    BY <1>1, ScanInv, OverrunInv, FinishInv DEF lexer_tokenize

(* The scanning loop keeps its invariant.                                   *)
THEOREM Safety == Spec => []Inv
  BY InitInv, NextInv, PTL DEF Spec

(* The position stays at most two characters behind the source, and a token *)
(* without text is the last one or comes from a _.                          *)
THEOREM TypeCorrect == Spec => []TypeOK
  <1>1. Inv => TypeOK
    BY DEF Inv
  <1>2. QED
    BY <1>1, Safety, PTL

(* Only a comment that no newline ends lets lexer_tokenize read behind its  *)
(* source.                                                                  *)
THEOREM StaysInSource == Spec => []OverrunsOnlyInComment
  <1>1. Inv => OverrunsOnlyInComment
    BY DEF Inv
  <1>2. QED
    BY <1>1, Safety, PTL
-----------------------------------------------------------------------------
(* Texts one after the other.  W holds what the first of them are together. *)
Joins(C, ss, W) ==
  /\ W \in [0 .. Len(ss) -> Seq(C)]
  /\ W[0] = <<>>
  /\ \A i \in 1 .. Len(ss) : W[i] = W[i - 1] \o ss[i]

(* What holds of 0 and passes from each number to the next.                 *)
LEMMA NatSet ==
  ASSUME NEW S, 0 \in S, \A n \in Nat : n \in S => n + 1 \in S
  PROVE  Nat \subseteq S
  <1> DEFINE T == Nat \ S
  <1>1. SUFFICES ASSUME T # {} PROVE FALSE
    OBVIOUS
  <1>2. T \subseteq Nat
    OBVIOUS
  <1> HIDE DEF T
  <1>3. Min(T) \in T /\ \A n \in T : Min(T) <= n
    BY <1>1, <1>2, LeastNumber
  <1>4. PICK x \in Nat : x \in T /\ \A n \in T : x <= n
    BY <1>2, <1>3
  <1>5. x # 0 /\ x - 1 \in Nat /\ x - 1 \notin T
    BY <1>4 DEF T
  <1>6. QED
    BY <1>4, <1>5 DEF T

(* They are what FlattenSeq makes of them.                                  *)
LEMMA FlattenIs ==
  ASSUME NEW C, NEW ss \in Seq(Seq(C)), NEW W, Joins(C, ss, W)
  PROVE  FlattenSeq(ss) = W[Len(ss)]
  <1> DEFINE N == Len(ss)
             B(f) == [i \in 1 .. N |-> IF i = 1 THEN ss[i] ELSE f[i - 1] \o ss[i]]
             g == [i \in 1 .. N |-> W[i]]
  <1>a. N \in Nat /\ \A i \in 1 .. N : ss[i] \in Seq(C)
    OBVIOUS
  <1>b. /\ W \in [0 .. N -> Seq(C)] /\ W[0] = <<>>
        /\ \A i \in 1 .. N : W[i] = W[i - 1] \o ss[i]
    BY DEF Joins
  <1>1. /\ N \in Nat /\ \A i \in 1 .. N : ss[i] \in Seq(C)
        /\ W \in [0 .. N -> Seq(C)] /\ W[0] = <<>>
        /\ \A i \in 1 .. N : W[i] = W[i - 1] \o ss[i]
    BY <1>a, <1>b
  <1>2. CASE N = 0
    BY <1>1, <1>2 DEF FlattenSeq
  <1>3. CASE N # 0
    <2>1. 1 \in 1 .. N => W[1] = ss[1]
      <3>1. 1 \in 1 .. N => W[1] = <<>> \o ss[1]
        <4>1. 1 \in 1 .. N => W[1] = W[1 - 1] \o ss[1]
          BY <1>1
        <4>2. 1 - 1 = 0
          OBVIOUS
        <4>3. QED
          BY <1>1, <4>1, <4>2
      <3>2. QED
        BY <1>1, <3>1
    <2>2. \A i \in 1 .. N : i # 1 => i - 1 \in 1 .. N
      BY <1>1
    <2>3. g = B(g)
      BY <1>1, <2>1, <2>2
    <2>4. ASSUME NEW f, f = B(f) PROVE f = g
      <3> DEFINE S == {n \in Nat : n + 1 \in 1 .. N => f[n + 1] = W[n + 1]}
      <3>1. 0 \in S
        BY <2>1, <2>4
      <3>2. ASSUME NEW n \in Nat, n \in S PROVE n + 1 \in S
        <4>1. SUFFICES ASSUME (n + 1) + 1 \in 1 .. N
                       PROVE  f[(n + 1) + 1] = W[(n + 1) + 1]
          OBVIOUS
        <4>2. n + 1 \in 1 .. N /\ ((n + 1) + 1) - 1 = n + 1 /\ (n + 1) + 1 # 1
          BY <1>1, <4>1
        <4>3. f[n + 1] = W[n + 1]
          BY <3>2, <4>2
        <4>4. f[(n + 1) + 1] = f[n + 1] \o ss[(n + 1) + 1]
          BY <2>4, <4>1, <4>2
        <4>5. W[(n + 1) + 1] = W[n + 1] \o ss[(n + 1) + 1]
          BY <1>1, <4>1, <4>2
        <4>6. QED
          BY <4>3, <4>4, <4>5
      <3>3. Nat \subseteq S
        <4> HIDE DEF S
        <4> QED
          BY <3>1, <3>2, NatSet
      <3>4. \A i \in 1 .. N : f[i] = W[i]
        <4> TAKE i \in 1 .. N
        <4>1. i - 1 \in Nat /\ (i - 1) + 1 = i
          BY <1>1
        <4>2. i - 1 \in S
          BY <3>3, <4>1
        <4>3. QED
          BY <4>1, <4>2
      <3>5. QED
        BY <2>4, <3>4
    <2>5. FlattenSeq(ss) = (CHOOSE f : f = B(f))[N]
      BY <1>3 DEF FlattenSeq
    <2> HIDE DEF B, g
    <2>6. FlattenSeq(ss) = g[N]
      BY <2>3, <2>4, <2>5
    <2>7. QED
      BY <1>1, <1>3, <2>6 DEF g
  <1>4. QED
    BY <1>2, <1>3

(* One more of them.                                                        *)
LEMMA JoinsAppend ==
  ASSUME NEW C, NEW ss \in Seq(Seq(C)), NEW t \in Seq(C), NEW W, Joins(C, ss, W)
  PROVE  /\ Append(ss, t) \in Seq(Seq(C))
         /\ \E V : /\ Joins(C, Append(ss, t), V)
                   /\ V[Len(Append(ss, t))] = W[Len(ss)] \o t
  <1> DEFINE N == Len(ss)
             V == [i \in 0 .. (N + 1) |-> IF i = N + 1 THEN W[N] \o t ELSE W[i]]
  <1>1. /\ N \in Nat /\ Len(Append(ss, t)) = N + 1
        /\ Append(ss, t)[N + 1] = t /\ \A i \in 1 .. N : Append(ss, t)[i] = ss[i]
        /\ Append(ss, t) \in Seq(Seq(C))
    OBVIOUS
  <1>2. /\ W \in [0 .. N -> Seq(C)] /\ W[0] = <<>>
        /\ \A i \in 1 .. N : W[i] = W[i - 1] \o ss[i]
    BY DEF Joins
  <1>3. W[N] \o t \in Seq(C)
    <2>1. W[N] \in Seq(C)
      BY <1>1, <1>2
    <2>2. QED
      BY <2>1
  <1>4. V \in [0 .. (N + 1) -> Seq(C)] /\ V[0] = <<>>
    BY <1>1, <1>2, <1>3
  <1>5. \A i \in 1 .. (N + 1) : V[i] = V[i - 1] \o Append(ss, t)[i]
    <2> TAKE i \in 1 .. (N + 1)
    <2>1. CASE i = N + 1
      <3>1. V[i] = W[N] \o t /\ V[i - 1] = W[N]
        BY <1>1, <2>1
      <3>2. QED
        BY <1>1, <2>1, <3>1
    <2>2. CASE i # N + 1
      <3>1. i \in 1 .. N /\ i - 1 # N + 1 /\ i - 1 \in 0 .. (N + 1)
        BY <1>1, <2>2
      <3>2. V[i] = W[i] /\ V[i - 1] = W[i - 1]
        BY <2>2, <3>1
      <3>3. QED
        BY <1>1, <1>2, <3>1, <3>2
    <2>3. QED
      BY <2>1, <2>2
  <1>6. V[N + 1] = W[N] \o t
    BY <1>1
  <1> HIDE DEF V
  <1>7. Joins(C, Append(ss, t), V)
    BY <1>1, <1>4, <1>5 DEF Joins
  <1>8. QED
    BY <1>1, <1>6, <1>7

-----------------------------------------------------------------------------
(* What is kept of a source, position by position.                          *)

(* Such a function, for a text s and the positions K that are kept.         *)
Keeps(C, s, K, f) ==
  /\ f \in [0 .. Len(s) -> Seq(C)]
  /\ f[0] = <<>>
  /\ \A n \in 1 .. Len(s) :
       f[n] = IF n \in K THEN Append(f[n - 1], s[n]) ELSE f[n - 1]

(* Some function satisfies the definition of KeptText.                      *)
LEMMA TextExists ==
  ASSUME NEW C, NEW s \in Seq(C), NEW K
  PROVE  \E f : Keeps(C, s, K, f)
  <1> DEFINE Fits(f, m) ==
               /\ f \in [0 .. m -> Seq(C)]
               /\ f[0] = <<>>
               /\ \A n \in 1 .. m :
                    f[n] = IF n \in K THEN Append(f[n - 1], s[n]) ELSE f[n - 1]
             S == {m \in Nat : m <= Len(s) => \E f : Fits(f, m)}
  <1>1. Len(s) \in Nat /\ \A n \in 1 .. Len(s) : s[n] \in C
    OBVIOUS
  <1> HIDE DEF Fits
  <1>2. 0 \in S
    <2> DEFINE f == [n \in 0 .. 0 |-> <<>>]
    <2>1. f \in [0 .. 0 -> Seq(C)] /\ f[0] = <<>> /\ \A n \in 1 .. 0 : FALSE
      OBVIOUS
    <2> HIDE DEF f
    <2>2. Fits(f, 0)
      BY <2>1 DEF Fits
    <2>3. QED
      BY <2>2
  <1>3. ASSUME NEW m \in Nat, m \in S PROVE m + 1 \in S
    <2>1. SUFFICES ASSUME m + 1 <= Len(s) PROVE \E f : Fits(f, m + 1)
      OBVIOUS
    <2>2. PICK g : Fits(g, m)
      BY <1>1, <1>3, <2>1
    <2> DEFINE last == IF m + 1 \in K THEN Append(g[m], s[m + 1]) ELSE g[m]
               f == [n \in 0 .. (m + 1) |-> IF n = m + 1 THEN last ELSE g[n]]
    <2>3. last \in Seq(C)
      <3>1. g[m] \in Seq(C) /\ s[m + 1] \in C
        BY <1>1, <2>1, <2>2 DEF Fits
      <3>2. QED
        BY <3>1
    <2> HIDE DEF last
    <2>4. f \in [0 .. (m + 1) -> Seq(C)] /\ f[0] = <<>>
      BY <2>2, <2>3 DEF Fits
    <2>5. f[m + 1] = last /\ \A n \in 0 .. m : f[n] = g[n]
      OBVIOUS
    <2> HIDE DEF f
    <2>6. ASSUME NEW n \in 1 .. (m + 1)
          PROVE  f[n] = IF n \in K THEN Append(f[n - 1], s[n]) ELSE f[n - 1]
      <3>1. CASE n = m + 1
        <4>1. n - 1 = m /\ f[n - 1] = g[m]
          BY <2>5, <3>1
        <4>2. QED
          BY <2>5, <3>1, <4>1 DEF last
      <3>2. CASE n # m + 1
        <4>1. n \in 1 .. m /\ n \in 0 .. m /\ n - 1 \in 0 .. m
          BY <3>2
        <4>2. f[n] = g[n] /\ f[n - 1] = g[n - 1]
          BY <2>5, <4>1
        <4>3. QED
          BY <2>2, <4>1, <4>2 DEF Fits
      <3>3. QED
        BY <3>1, <3>2
    <2>7. Fits(f, m + 1)
      BY <2>4, <2>6 DEF Fits
    <2>8. QED
      BY <2>7
  <1>4. Nat \subseteq S
    <2> HIDE DEF S
    <2> QED
      BY <1>2, <1>3, NatSet
  <1>5. \E f : Fits(f, Len(s))
    <2>1. Len(s) \in S
      BY <1>1, <1>4
    <2>2. QED
      BY <1>1, <2>1
  <1>6. QED
    BY <1>5 DEF Fits, Keeps

Letters == {src[i] : i \in DOMAIN src}

LEMMA SourceOfLetters ==
  ASSUME source \in Sources PROVE src \in Seq(Letters)
  BY CharsAssumption DEF src, Letters

(* KeptText is as it is defined.                                            *)
LEMMA KeptTextIs ==
  ASSUME source \in Sources
  PROVE  /\ KeptText[0] = <<>>
         /\ \A n \in 1 .. src_len :
              KeptText[n] = IF Kept(n) THEN Append(KeptText[n - 1], src[n])
                            ELSE KeptText[n - 1]
  <1> DEFINE B(f) == [n \in 0 .. src_len |->
                        IF n = 0 THEN <<>>
                        ELSE IF Kept(n) THEN Append(f[n - 1], src[n]) ELSE f[n - 1]]
  <1>1. src \in Seq(Letters) /\ src_len \in Nat /\ src_len = Len(src)
    BY SourceOfLetters, SourceIsSeq DEF src_len
  <1>2. PICK C, s, K : /\ s \in Seq(C) /\ s = src
                       /\ K = {n \in 1 .. src_len : Kept(n)}
    BY <1>1
  <1>3. \A n \in 1 .. src_len : n \in K <=> Kept(n)
    BY <1>2
  <1>4. PICK f : Keeps(C, s, K, f)
    <2>1. s \in Seq(C)
      BY <1>2
    <2>2. QED
      BY <2>1, TextExists
  <1>5. PICK N \in Nat : N = src_len /\ N = Len(s)
    BY <1>1, <1>2
  <1>6. \A n \in 0 .. N :
          f[n] = IF n = 0 THEN <<>>
                 ELSE IF Kept(n) THEN Append(f[n - 1], src[n]) ELSE f[n - 1]
    <2> TAKE n \in 0 .. N
    <2>1. CASE n = 0
      BY <1>4, <2>1 DEF Keeps
    <2>2. CASE n # 0
      <3>1. n \in 1 .. N
        BY <1>5, <2>2
      <3>2. QED
        BY <1>2, <1>3, <1>4, <1>5, <2>2, <3>1 DEF Keeps
    <2>3. QED
      BY <2>1, <2>2
  <1>7. f = B(f)
    BY <1>4, <1>5, <1>6 DEF Keeps
  <1>8. KeptText = CHOOSE g : g = B(g)
    BY DEF KeptText
  <1> HIDE DEF B
  <1>9. KeptText = B(KeptText)
    BY <1>7, <1>8
  <1>10. \A n \in 0 .. src_len :
           KeptText[n] = IF n = 0 THEN <<>>
                         ELSE IF Kept(n) THEN Append(KeptText[n - 1], src[n])
                         ELSE KeptText[n - 1]
    BY <1>9 DEF B
  <1>11. 0 \in 0 .. src_len /\ \A n \in 1 .. src_len : n \in 0 .. src_len /\ n # 0
    BY <1>1
  <1>12. QED
    BY <1>10, <1>11

LEMMA IsAppend ==
  ASSUME NEW C, NEW a \in Seq(C), NEW b \in Seq(C), NEW c \in C,
         Len(a) = Len(b) + 1, a[Len(b) + 1] = c,
         \A k \in 1 .. Len(b) : a[k] = b[k]
  PROVE  a = Append(b, c)
  <1>1. PICK d \in Seq(C) : d = Append(b, c)
    <2>1. Append(b, c) \in Seq(C)
      OBVIOUS
    <2>2. QED
      BY <2>1
  <1>2. /\ Len(b) \in Nat /\ Len(d) = Len(b) + 1 /\ d[Len(b) + 1] = c
        /\ \A k \in 1 .. Len(b) : d[k] = b[k]
    BY <1>1
  <1>3. \A k \in 1 .. (Len(b) + 1) : k \in 1 .. Len(b) \/ k = Len(b) + 1
    BY <1>2
  <1>4. \A k \in 1 .. Len(a) : a[k] = d[k]
    BY <1>2, <1>3
  <1>5. a = d
    BY <1>2, <1>4, SeqEqual
  <1>6. QED
    BY <1>1, <1>5

LEMMA AppendConcat ==
  ASSUME NEW C, NEW a \in Seq(C), NEW b \in Seq(C), NEW c \in C
  PROVE  Append(a \o b, c) = a \o Append(b, c)
  <1> DEFINE l == Append(a \o b, c)
             r == a \o Append(b, c)
             A == Len(a)
             B == Len(b)
  <1>1. A \in Nat /\ B \in Nat /\ a \o b \in Seq(C) /\ Append(b, c) \in Seq(C)
    OBVIOUS
  <1>2. /\ Len(a \o b) = A + B /\ Len(Append(b, c)) = B + 1
        /\ l \in Seq(C) /\ r \in Seq(C)
    BY <1>1
  <1>3. Len(l) = A + B + 1 /\ Len(r) = A + B + 1
    BY <1>1, <1>2
  <1>4. ASSUME NEW i \in 1 .. (A + B + 1) PROVE l[i] = r[i]
    <2>1. CASE i <= A
      <3>1. r[i] = a[i]
        BY <1>1, <1>2, <2>1
      <3>2. (a \o b)[i] = a[i]
        BY <1>1, <1>2, <2>1
      <3>3. l[i] = (a \o b)[i]
        BY <1>1, <1>2, <2>1
      <3>4. QED
        BY <3>1, <3>2, <3>3
    <2>2. CASE i > A /\ i <= A + B
      <3>1. r[i] = Append(b, c)[i - A]
        BY <1>1, <1>2, <2>2
      <3>2. (a \o b)[i] = b[i - A]
        BY <1>1, <1>2, <2>2
      <3>3. l[i] = (a \o b)[i]
        BY <1>1, <1>2, <2>2
      <3>4. Append(b, c)[i - A] = b[i - A]
        BY <1>1, <1>2, <2>2
      <3>5. QED
        BY <3>1, <3>2, <3>3, <3>4
    <2>3. CASE i = A + B + 1
      <3>1. l[i] = c
        BY <1>1, <1>2, <2>3
      <3>2. i - A = B + 1
        BY <1>1, <2>3
      <3>3. Append(b, c)[B + 1] = c
        BY <1>1
      <3>4. r[i] = Append(b, c)[i - A]
        BY <1>1, <1>2, <2>3
      <3>5. QED
        BY <3>1, <3>2, <3>3, <3>4
    <2>4. QED
      BY <1>1, <2>1, <2>2, <2>3
  <1>5. PICK x \in Seq(C), y \in Seq(C) : x = l /\ y = r
    BY <1>2
  <1>6. Len(x) = Len(y) /\ \A i \in 1 .. Len(x) : x[i] = y[i]
    BY <1>3, <1>4, <1>5
  <1>7. x = y
    BY <1>6, SeqEqual
  <1>8. QED
    BY <1>5, <1>7

(* The same of an operator that the provers do not look into.               *)
Cat(a, b) == a \o b

LEMMA AppendCat ==
  \A C : \A a, b \in Seq(C) : \A c \in C : Append(Cat(a, b), c) = Cat(a, Append(b, c))
  BY AppendConcat DEF Cat

(* A run of characters that are kept is kept as it stands.                  *)
LEMMA RunIsKept ==
  ASSUME NEW C, NEW s \in Seq(C), NEW f,
         NEW p \in 1 .. Len(s), NEW e \in p .. (Len(s) + 1), f[p - 1] \in Seq(C),
         \A n \in p .. (e - 1) : f[n] = Append(f[n - 1], s[n])
  PROVE  f[e - 1] = f[p - 1] \o SubSeq(s, p, e - 1)
  <1> DEFINE Upto(m) == f[p + m - 1] = f[p - 1] \o SubSeq(s, p, p + m - 1)
             S == {m \in Nat : p + m <= e => Upto(m)}
  <1>1. Len(s) \in Nat /\ \A n \in 1 .. Len(s) : s[n] \in C
    OBVIOUS
  <1>2. 0 \in S
    <2>1. p + 0 - 1 = p - 1 /\ SubSeq(s, p, p - 1) = <<>>
      BY <1>1
    <2>2. QED
      BY <2>1
  <1> HIDE DEF Upto
  <1>3. ASSUME NEW m \in Nat, m \in S PROVE m + 1 \in S
    <2>1. SUFFICES ASSUME p + (m + 1) <= e PROVE Upto(m + 1)
      OBVIOUS
    <2>2. PICK q \in Nat : q = p + m /\ q \in p .. (e - 1) /\ q \in 1 .. Len(s)
      BY <1>1, <2>1
    <2>3. f[q - 1] = f[p - 1] \o SubSeq(s, p, q - 1)
      <3>1. p + m <= e /\ p + m - 1 = q - 1
        BY <2>1, <2>2
      <3>2. Upto(m)
        BY <1>3, <3>1
      <3>3. QED
        BY <3>1, <3>2 DEF Upto
    <2>4. f[q] = Append(f[q - 1], s[q])
      BY <2>2
    <2>5. SubSeq(s, p, q) = Append(SubSeq(s, p, q - 1), s[q])
      <3>1. /\ SubSeq(s, p, q) \in Seq(C) /\ Len(SubSeq(s, p, q)) = q - p + 1
            /\ SubSeq(s, p, q - 1) \in Seq(C) /\ Len(SubSeq(s, p, q - 1)) = q - p
        BY <1>1, <2>2
      <3>2. \A k \in 1 .. (q - p + 1) : SubSeq(s, p, q)[k] = s[p + k - 1]
        BY <1>1, <2>2
      <3>3. \A k \in 1 .. (q - p) : SubSeq(s, p, q - 1)[k] = s[p + k - 1]
        BY <1>1, <2>2
      <3>4. PICK a \in Seq(C), b \in Seq(C) : a = SubSeq(s, p, q) /\ b = SubSeq(s, p, q - 1)
        BY <3>1
      <3>5. s[q] \in C /\ q = p + (q - p + 1) - 1 /\ q - p + 1 \in 1 .. (q - p + 1)
        BY <1>1, <2>2
      <3>6. a[q - p + 1] = s[q]
        BY <3>2, <3>4, <3>5
      <3>7. \A k \in 1 .. (q - p) : a[k] = b[k]
        BY <2>2, <3>2, <3>3, <3>4
      <3>8. a = Append(b, s[q])
        <4>1. a \in Seq(C) /\ b \in Seq(C) /\ Len(b) = q - p /\ Len(a) = Len(b) + 1
          BY <2>2, <3>1, <3>4
        <4>2. \A k \in 1 .. Len(b) : a[k] = b[k]
          BY <3>7, <4>1
        <4>3. a[Len(b) + 1] = s[q]
          BY <3>6, <4>1
        <4>4. QED
          BY <3>5, <4>1, <4>2, <4>3, IsAppend, SMTT(30)
      <3>9. QED
        BY <3>4, <3>8
    <2>6. f[q] = f[p - 1] \o SubSeq(s, p, q)
      <3>1. SubSeq(s, p, q - 1) \in Seq(C) /\ s[q] \in C
        BY <1>1, <2>2
      <3>2. Append(Cat(f[p - 1], SubSeq(s, p, q - 1)), s[q])
              = Cat(f[p - 1], Append(SubSeq(s, p, q - 1), s[q]))
        <4>1. PICK a, b, c : /\ a \in Seq(C) /\ a = f[p - 1]
                             /\ b \in Seq(C) /\ b = SubSeq(s, p, q - 1)
                             /\ c \in C /\ c = s[q]
          BY <3>1
        <4>2. Append(Cat(a, b), c) = Cat(a, Append(b, c))
          <5>1. a \in Seq(C) /\ b \in Seq(C) /\ c \in C
            BY <4>1
          <5>2. QED
            BY <5>1, AppendCat
        <4>3. QED
          BY <4>1, <4>2, Zenon
      <3>3. f[q - 1] = Cat(f[p - 1], SubSeq(s, p, q - 1))
        BY <2>3 DEF Cat
      <3>4. f[q] = Cat(f[p - 1], SubSeq(s, p, q))
        BY <2>4, <2>5, <3>2, <3>3, Zenon
      <3>5. QED
        BY <3>4 DEF Cat
    <2>7. p + (m + 1) - 1 = q
      BY <2>2
    <2>8. QED
      BY <2>6, <2>7 DEF Upto
  <1>4. Nat \subseteq S
    <2> HIDE DEF S
    <2> QED
      BY <1>2, <1>3, NatSet
  <1>5. PICK m \in Nat : m = e - p /\ p + m <= e /\ p + m - 1 = e - 1
    BY <1>1
  <1>6. Upto(m)
    BY <1>4, <1>5
  <1>7. QED
    BY <1>5, <1>6 DEF Upto

(* A run of characters that are not adds nothing.                           *)
LEMMA RunIsNotKept ==
  ASSUME NEW f, NEW p \in Nat \ {0}, NEW e \in Nat, p <= e,
         \A n \in p .. (e - 1) : f[n] = f[n - 1]
  PROVE  f[e - 1] = f[p - 1]
  <1> DEFINE S == {m \in Nat : p + m <= e => f[p + m - 1] = f[p - 1]}
  <1>1. 0 \in S
    BY p + 0 - 1 = p - 1
  <1>2. ASSUME NEW m \in Nat, m \in S PROVE m + 1 \in S
    <2>1. SUFFICES ASSUME p + (m + 1) <= e PROVE f[p + (m + 1) - 1] = f[p - 1]
      OBVIOUS
    <2>2. p + m \in p .. (e - 1) /\ p + (m + 1) - 1 = p + m /\ p + m <= e
      BY <2>1
    <2>3. f[p + m] = f[p + m - 1] /\ f[p + m - 1] = f[p - 1]
      BY <1>2, <2>2
    <2>4. QED
      BY <2>2, <2>3
  <1>3. Nat \subseteq S
    <2> HIDE DEF S
    <2> QED
      BY <1>1, <1>2, NatSet
  <1>4. PICK m \in Nat : m = e - p /\ p + m <= e /\ p + m - 1 = e - 1
    OBVIOUS
  <1>5. QED
    BY <1>3, <1>4

-----------------------------------------------------------------------------
(* Comments and rows of dots.                                               *)

(* No comment begins where there is no #.                                   *)
LEMMA NoCommentBegins ==
  ASSUME source \in Sources, NEW p \in 1 .. src_len, NEW e \in p .. (src_len + 1),
         p > 1 => ~InComment(p - 1),
         \A i \in p .. (e - 1) : src[i] # "#"
  PROVE  \A i \in p .. (e - 1) : ~InComment(i)
  <1>1. src_len \in Nat
    BY SourceIsSeq
  <1>2. SUFFICES ASSUME NEW i \in p .. (e - 1), InComment(i) PROVE FALSE
    OBVIOUS
  <1>3. i \in Nat
    BY <1>1
  <1>4. PICK j \in 1 .. i : src[j] = "#" /\ \A k \in j .. i : src[k] # "\n"
    BY <1>2 DEF InComment
  <1>5. ~(j >= p)
    <2>1. SUFFICES ASSUME j >= p PROVE FALSE
      OBVIOUS
    <2>2. j \in p .. (e - 1)
      BY <1>1, <1>3, <2>1
    <2>3. QED
      BY <1>4, <2>2
  <1>6. p > 1 /\ j \in 1 .. (p - 1) /\ \A k \in j .. (p - 1) : k \in j .. i
    BY <1>1, <1>3, <1>5
  <1>7. InComment(p - 1)
    BY <1>4, <1>6 DEF InComment
  <1>8. QED
    BY <1>6, <1>7

LEMMA NewlineEnds ==
  ASSUME NEW i \in Nat, src[i] = "\n" PROVE ~InComment(i)
  <1>1. SUFFICES ASSUME NEW j \in 1 .. i, \A k \in j .. i : src[k] # "\n" PROVE FALSE
    BY DEF InComment
  <1>2. i \in j .. i
    OBVIOUS
  <1>3. QED
    BY <1>1, <1>2

(* From a # on, everything before the next newline is a comment.            *)
LEMMA CommentGoesOn ==
  ASSUME NEW p \in Nat \ {0}, NEW e \in Nat, src[p] = "#",
         \A k \in p .. (e - 1) : src[k] # "\n"
  PROVE  \A i \in p .. (e - 1) : InComment(i)
  <1>1. SUFFICES ASSUME NEW i \in p .. (e - 1) PROVE InComment(i)
    OBVIOUS
  <1>2. p \in 1 .. i /\ \A k \in p .. i : k \in p .. (e - 1)
    OBVIOUS
  <1>3. QED
    BY <1>2 DEF InComment

(* A row of dots grows by a dot, and ends at anything else.                 *)
LEMMA DotsNext ==
  ASSUME NEW i \in Nat \ {0}
  PROVE  /\ IsFiniteSet(DotsBefore(i)) /\ i \notin DotsBefore(i)
         /\ src[i] = "." /\ ~InComment(i) => DotsBefore(i + 1) = DotsBefore(i) \cup {i}
         /\ src[i] # "." => DotsBefore(i + 1) = {}
  <1>1. IsFiniteSet(DotsBefore(i))
    <2>1. IsFiniteSet(1 .. (i - 1)) /\ DotsBefore(i) \subseteq 1 .. (i - 1)
      BY FS_Interval DEF DotsBefore
    <2>2. QED
      BY <2>1, FS_Subset
  <1>2. i \notin DotsBefore(i)
    BY DEF DotsBefore
  <1>3. (i + 1) - 1 = i
    OBVIOUS
  <1>4. ASSUME src[i] = ".", ~InComment(i)
        PROVE  DotsBefore(i + 1) = DotsBefore(i) \cup {i}
    <2>1. \A j \in 1 .. (i - 1) : \A k \in j .. i : k = i \/ k \in j .. (i - 1)
      OBVIOUS
    <2>2. \A j \in 1 .. (i - 1) : \A k \in j .. (i - 1) : k \in j .. i
      OBVIOUS
    <2>3. \A j : j \in 1 .. i <=> j \in 1 .. (i - 1) \/ j = i
      OBVIOUS
    <2>4. \A k \in i .. i : k = i
      OBVIOUS
    <2>5. ASSUME NEW j PROVE j \in DotsBefore(i + 1) <=> j \in DotsBefore(i) \/ j = i
      BY <1>3, <1>4, <2>1, <2>2, <2>3, <2>4 DEF DotsBefore
    <2>6. QED
      BY <2>5
  <1>5. ASSUME src[i] # "." PROVE DotsBefore(i + 1) = {}
    <2>1. \A j \in 1 .. i : i \in j .. i
      OBVIOUS
    <2>2. QED
      BY <1>3, <1>5, <2>1 DEF DotsBefore
  <1>6. QED
    BY <1>1, <1>2, <1>4, <1>5

Even(i) == Cardinality(DotsBefore(i)) % 2 = 0

(* A dot makes an even row odd, and an odd one even.                        *)
LEMMA DotsAlternate ==
  ASSUME NEW i \in Nat \ {0}
  PROVE  /\ Cardinality(DotsBefore(i)) \in Nat
         /\ src[i] = "." /\ ~InComment(i) => (Even(i + 1) <=> ~Even(i))
         /\ src[i] # "." => Even(i + 1)
  <1>1. PICK n \in Nat : n = Cardinality(DotsBefore(i))
    BY DotsNext, FS_CardinalityType
  <1>2. ASSUME src[i] = ".", ~InComment(i) PROVE Even(i + 1) <=> ~Even(i)
    <2>1. Cardinality(DotsBefore(i + 1)) = n + 1
      BY <1>1, <1>2, DotsNext, FS_AddElement
    <2>2. (n + 1) % 2 = 0 <=> n % 2 # 0
      OBVIOUS
    <2>3. QED
      BY <1>1, <2>1, <2>2 DEF Even
  <1>3. ASSUME src[i] # "." PROVE Even(i + 1)
    <2>1. Cardinality(DotsBefore(i + 1)) = 0
      BY <1>3, DotsNext, FS_EmptySet
    <2>2. QED
      BY <2>1 DEF Even
  <1>4. QED
    BY <1>1, <1>2, <1>3

-----------------------------------------------------------------------------
(* The texts of the tokens are the text.                                    *)
Texts == [i \in DOMAIN toks |-> toks[i].str]
Seen == IF ch_pos <= src_len THEN ch_pos - 1 ELSE src_len

(* The scanning loop is never inside a comment, nor between the dots of a   *)
(* pair.                                                                    *)
Outside ==
  /\ ch_pos <= src_len + 1 /\ ch_pos > 1 => ~InComment(ch_pos - 1)
  /\ ch_pos <= src_len /\ src[ch_pos] = "." => Even(ch_pos)

Joined ==
  /\ Texts \in Seq(Seq(Letters))
  /\ \E W : Joins(Letters, Texts, W) /\ W[Len(Texts)] = KeptText[Seen]

TextInv == Inv /\ Outside /\ Joined

LEMMA InitText == Init => TextInv
  <1> SUFFICES ASSUME Init PROVE TextInv
    OBVIOUS
  <1>1. Inv /\ source \in Sources /\ ch_pos = 1 /\ toks = <<>>
    BY InitInv DEF Init
  <1>2. src_len \in Nat
    BY <1>1, SourceIsSeq
  <1>3. Outside
    <2>1. DotsBefore(1) = {}
      BY DEF DotsBefore
    <2>2. Even(1)
      BY <2>1, FS_EmptySet DEF Even
    <2>3. QED
      BY <1>1, <1>2, <2>2 DEF Outside
  <1>4. Texts = <<>> /\ Len(Texts) = 0 /\ Texts \in Seq(Seq(Letters))
    BY <1>1 DEF Texts
  <1>5. Seen = 0 /\ KeptText[0] = <<>>
    BY <1>1, <1>2, KeptTextIs DEF Seen
  <1>6. Joined
    <2> DEFINE W == [i \in 0 .. 0 |-> <<>>]
    <2>1. W \in [0 .. 0 -> Seq(Letters)] /\ W[0] = <<>> /\ \A i \in 1 .. 0 : FALSE
      OBVIOUS
    <2> HIDE DEF W
    <2>2. Joins(Letters, Texts, W)
      BY <1>4, <2>1 DEF Joins
    <2>3. QED
      BY <1>4, <1>5, <2>1, <2>2 DEF Joined
  <1>7. QED
    BY <1>1, <1>3, <1>6 DEF TextInv

(* What a step leaves alone with the source.                                *)
LEMMA SameSource ==
  ASSUME source' = source
  PROVE  /\ src' = src /\ src_len' = src_len /\ Letters' = Letters
         /\ \A i : InComment(i)' <=> InComment(i)
         /\ \A i : DotsBefore(i)' = DotsBefore(i)
         /\ \A i : Even(i)' <=> Even(i)
         /\ KeptText' = KeptText
  <1>1. src' = src /\ src_len' = src_len
    BY DEF src, src_len
  <1>2. Letters' = Letters
    BY <1>1 DEF Letters
  <1>3. \A i : InComment(i)' <=> InComment(i)
    BY <1>1 DEF InComment
  <1>4. \A i : DotsBefore(i)' = DotsBefore(i)
    BY <1>1, <1>3 DEF DotsBefore
  <1>5. \A i : Even(i)' <=> Even(i)
    BY <1>4 DEF Even
  <1>6. KeptText' = KeptText
    BY DEF KeptText, Kept, InComment, DotsBefore, src, src_len
  <1>7. QED
    BY <1>1, <1>2, <1>3, <1>4, <1>5, <1>6

(* The texts with one more.                                                 *)
LEMMA TextsAppend ==
  ASSUME NEW A, NEW old \in Seq(A), NEW tok
  PROVE  [i \in DOMAIN Append(old, tok) |-> Append(old, tok)[i].str]
           = Append([i \in DOMAIN old |-> old[i].str], tok.str)
  <1> DEFINE N == Len(old)
             texts == [i \in 1 .. N |-> old[i].str]
             B == {texts[i] : i \in 1 .. N} \cup {tok.str}
  <1>1. old \in Seq(A \cup {tok}) /\ N \in Nat /\ DOMAIN old = 1 .. N
    OBVIOUS
  <1>2. /\ DOMAIN Append(old, tok) = 1 .. (N + 1)
        /\ Append(old, tok)[N + 1] = tok
        /\ \A i \in 1 .. N : Append(old, tok)[i] = old[i]
    BY <1>1
  <1>3. texts \in Seq(B) /\ Len(texts) = N /\ tok.str \in B
    BY <1>1
  <1> HIDE DEF B
  <1>4. /\ DOMAIN Append(texts, tok.str) = 1 .. (N + 1)
        /\ Append(texts, tok.str)[N + 1] = tok.str
        /\ \A i \in 1 .. N : Append(texts, tok.str)[i] = texts[i]
        /\ Append(texts, tok.str) \in Seq(B)
    BY <1>1, <1>3
  <1>5. Append(texts, tok.str) = [i \in 1 .. (N + 1) |-> Append(texts, tok.str)[i]]
    BY <1>4
  <1>6. \A i \in 1 .. (N + 1) : Append(texts, tok.str)[i] = Append(old, tok)[i].str
    <2> TAKE i \in 1 .. (N + 1)
    <2>1. i \in 1 .. N \/ i = N + 1
      BY <1>1
    <2>2. QED
      BY <1>2, <1>4, <2>1
  <1>7. QED
    BY <1>1, <1>2, <1>5, <1>6

(* What KeptText makes of a run of characters.                              *)
LEMMA KeptRun ==
  ASSUME source \in Sources, NEW p \in 1 .. src_len, NEW e \in p .. (src_len + 1),
         KeptText[p - 1] \in Seq(Letters)
  PROVE  /\ (\A i \in p .. (e - 1) : Kept(i)) =>
              KeptText[e - 1] = KeptText[p - 1] \o SubSeq(src, p, e - 1)
         /\ (\A i \in p .. (e - 1) : ~Kept(i)) => KeptText[e - 1] = KeptText[p - 1]
  <1>1. src \in Seq(Letters) /\ src_len \in Nat /\ src_len = Len(src)
    BY SourceOfLetters, SourceIsSeq DEF src_len
  <1>2. PICK C, s, f : s \in Seq(C) /\ C = Letters /\ s = src /\ f = KeptText
    BY <1>1
  <1>3. \A i \in 1 .. src_len : f[i] = IF Kept(i) THEN Append(f[i - 1], s[i]) ELSE f[i - 1]
    BY <1>2, KeptTextIs
  <1>4. p \in 1 .. Len(s) /\ e \in p .. (Len(s) + 1) /\ f[p - 1] \in Seq(C)
    BY <1>1, <1>2
  <1>5. \A i \in p .. (e - 1) : i \in 1 .. src_len
    BY <1>1
  <1>6. ASSUME \A i \in p .. (e - 1) : Kept(i)
        PROVE  f[e - 1] = f[p - 1] \o SubSeq(s, p, e - 1)
    <2>1. \A i \in p .. (e - 1) : f[i] = Append(f[i - 1], s[i])
      BY <1>3, <1>5, <1>6
    <2>2. s \in Seq(C)
      BY <1>2
    <2>3. QED
      BY <1>4, <2>1, <2>2, RunIsKept, ZenonT(60)
  <1>7. ASSUME \A i \in p .. (e - 1) : ~Kept(i)
        PROVE  f[e - 1] = f[p - 1]
    <2>1. \A i \in p .. (e - 1) : f[i] = f[i - 1]
      BY <1>3, <1>5, <1>7
    <2>2. p \in Nat \ {0} /\ e \in Nat /\ p <= e
      BY <1>1
    <2>3. QED
      BY <2>1, <2>2, RunIsNotKept
  <1>8. QED
    BY <1>2, <1>6, <1>7

(* A token whose characters are all kept.                                   *)
LEMMA TokenJoins ==
  ASSUME TextInv, source' = source, NEW type, NEW t \in Seq(Letters),
         toks' = Append(toks, Token(type, t)),
         KeptText[Seen'] = KeptText[Seen] \o t
  PROVE  Joined'
  <1>1. PICK A, old : old \in Seq(A) /\ old = toks
    BY DEF TextInv, Inv
  <1>2. PICK C, texts, W : /\ C = Letters /\ texts = Texts /\ texts \in Seq(Seq(C))
                           /\ Joins(C, texts, W) /\ W[Len(texts)] = KeptText[Seen]
    BY DEF TextInv, Joined
  <1>3. t \in Seq(C)
    BY <1>2
  <1>4. Texts' = Append(texts, t)
    <2>1. old \in Seq(A)
      BY <1>1
    <2>2. PICK tok : tok = Token(type, t) /\ tok.str = t
      BY DEF Token
    <2>3. [i \in DOMAIN Append(old, tok) |-> Append(old, tok)[i].str]
            = Append([i \in DOMAIN old |-> old[i].str], t)
      BY <2>1, <2>2, TextsAppend
    <2>4. QED
      BY <1>1, <1>2, <2>2, <2>3 DEF Texts
  <1>5. PICK V : /\ Append(texts, t) \in Seq(Seq(C))
                 /\ Joins(C, Append(texts, t), V)
                 /\ V[Len(Append(texts, t))] = W[Len(texts)] \o t
    <2>1. texts \in Seq(Seq(C)) /\ Joins(C, texts, W)
      BY <1>2
    <2>2. /\ Append(texts, t) \in Seq(Seq(C))
          /\ \E V : /\ Joins(C, Append(texts, t), V)
                    /\ V[Len(Append(texts, t))] = W[Len(texts)] \o t
      BY <1>3, <2>1, JoinsAppend, ZenonT(60)
    <2>3. QED
      BY <2>2, Zenon
  <1>6. Letters' = C /\ KeptText' = KeptText
    BY <1>2, SameSource
  <1>7. V[Len(Texts')] = KeptText'[Seen']
    BY <1>2, <1>4, <1>5, <1>6
  <1>8. Joins(Letters', Texts', V) /\ Texts' \in Seq(Seq(Letters'))
    BY <1>4, <1>5, <1>6
  <1>9. QED
    BY <1>7, <1>8 DEF Joined, Joins

(* A step without a token, over characters that are not kept.               *)
LEMMA NothingJoins ==
  ASSUME TextInv, source' = source, toks' = toks, KeptText[Seen'] = KeptText[Seen]
  PROVE  Joined'
  <1>1. PICK C, texts, W : /\ C = Letters /\ texts = Texts /\ texts \in Seq(Seq(C))
                           /\ Joins(C, texts, W) /\ W[Len(texts)] = KeptText[Seen]
    BY DEF TextInv, Joined
  <1>2. Letters' = C /\ KeptText' = KeptText /\ Texts' = texts
    BY <1>1, SameSource DEF Texts
  <1>3. QED
    BY <1>1, <1>2 DEF Joined, Joins

(* Where the text is read to while the position is inside the source.       *)
LEMMA SeenInside ==
  ASSUME source \in Sources
  PROVE  \A e \in 1 .. (src_len + 1) : ch_pos = e => Seen = e - 1
  <1>1. src_len \in Nat
    BY SourceIsSeq
  <1>2. QED
    BY <1>1 DEF Seen

LEMMA TextOfLetters ==
  ASSUME TextInv PROVE KeptText[Seen] \in Seq(Letters)
  <1>1. PICK C, texts, W, text :
          /\ C = Letters /\ texts = Texts /\ texts \in Seq(Seq(C))
          /\ Joins(C, texts, W) /\ W[Len(texts)] = text /\ text = KeptText[Seen]
    BY DEF TextInv, Joined
  <1>2. Len(texts) \in 0 .. Len(texts)
    BY <1>1
  <1>3. W \in [0 .. Len(texts) -> Seq(C)]
    BY <1>1 DEF Joins
  <1>4. text \in Seq(C)
    BY <1>1, <1>2, <1>3
  <1>5. QED
    BY <1>1, <1>4

(* A token over characters that are all kept.                               *)
LEMMA KeptStep ==
  ASSUME TextInv, source' = source, ch_pos \in 1 .. src_len,
         NEW type, NEW e \in ch_pos .. (src_len + 1), add_token(type, e),
         \A i \in ch_pos .. (e - 1) : Kept(i)
  PROVE  Joined'
  <1>1. source \in Sources /\ source' \in Sources /\ src_len \in Nat /\ src_len' = src_len
    BY SourceIsSeq, SameSource DEF TextInv, Inv
  <1>2. PICK p \in 1 .. src_len : p = ch_pos
    OBVIOUS
  <1>3. /\ e \in p .. (src_len + 1) /\ e \in 1 .. (src_len + 1)
        /\ \A i \in p .. (e - 1) : Kept(i)
    BY <1>1, <1>2
  <1>4. Seen = p - 1 /\ Seen' = e - 1
    <2>1. p \in 1 .. (src_len + 1) /\ ch_pos' = e
      BY <1>1 DEF add_token
    <2>2. QED
      BY <1>1, <1>2, <1>3, <2>1 DEF Seen
  <1>5. KeptText[p - 1] \in Seq(Letters)
    BY <1>4, TextOfLetters
  <1>6. KeptText[e - 1] = KeptText[p - 1] \o SubSeq(src, p, e - 1)
    BY <1>1, <1>3, <1>5, KeptRun
  <1>7. PICK t \in Seq(Letters) : t = SubSeq(src, p, e - 1)
    <2>1. PICK C, s : s \in Seq(C) /\ C = Letters /\ s = src /\ Len(s) = src_len
      BY <1>1, SourceOfLetters DEF src_len
    <2>2. SubSeq(s, p, e - 1) \in Seq(C)
      BY <1>1, <1>3, <2>1
    <2>3. QED
      BY <2>1, <2>2
  <1>8. toks' = Append(toks, Token(type, t))
    BY <1>2, <1>7 DEF add_token
  <1>9. KeptText[Seen'] = KeptText[Seen] \o t
    BY <1>4, <1>6, <1>7
  <1>10. QED
    BY <1>8, <1>9, TokenJoins

(* A step over characters none of which is kept.                            *)
LEMMA DroppedStep ==
  ASSUME TextInv, source' = source, ch_pos \in 1 .. src_len, toks' = toks,
         NEW e \in ch_pos .. (src_len + 1), ch_pos' = e,
         \A i \in ch_pos .. (e - 1) : ~Kept(i)
  PROVE  Joined'
  <1>1. source \in Sources /\ source' \in Sources /\ src_len \in Nat /\ src_len' = src_len
    BY SourceIsSeq, SameSource DEF TextInv, Inv
  <1>2. PICK p \in 1 .. src_len : p = ch_pos
    OBVIOUS
  <1>3. /\ e \in p .. (src_len + 1) /\ e \in 1 .. (src_len + 1)
        /\ \A i \in p .. (e - 1) : ~Kept(i)
    BY <1>1, <1>2
  <1>4. Seen = p - 1 /\ Seen' = e - 1
    BY <1>1, <1>2, <1>3 DEF Seen
  <1>5. KeptText[p - 1] \in Seq(Letters)
    BY <1>4, TextOfLetters
  <1>6. KeptText[e - 1] = KeptText[p - 1]
    BY <1>1, <1>3, <1>5, KeptRun
  <1>7. QED
    BY <1>4, <1>6, NothingJoins

LEMMA OutsideStep ==
  ASSUME source' = source, NEW e, ch_pos' = e,
         e <= src_len + 1 /\ e > 1 => ~InComment(e - 1),
         e <= src_len /\ src[e] = "." => Even(e)
  PROVE  Outside'
  BY SameSource DEF Outside

(* Over characters that open no comment and are no dots.                    *)
LEMMA PlainStep ==
  ASSUME TextInv, source' = source, ch_pos \in 1 .. src_len,
         NEW e \in ch_pos .. (src_len + 1), ch_pos' = e,
         \A i \in ch_pos .. (e - 1) : src[i] # "#" /\ src[i] # "."
  PROVE  /\ \A i \in ch_pos .. (e - 1) : ~InComment(i)
         /\ Outside'
  <1>1. source \in Sources /\ src_len \in Nat
    BY SourceIsSeq DEF TextInv, Inv
  <1>2. PICK p \in 1 .. src_len : p = ch_pos
    OBVIOUS
  <1>3. /\ e \in p .. (src_len + 1) /\ e \in Nat \ {0}
        /\ \A i \in p .. (e - 1) : src[i] # "#" /\ src[i] # "."
    BY <1>1, <1>2
  <1>4. p > 1 => ~InComment(p - 1)
    BY <1>1, <1>2 DEF TextInv, Outside
  <1>5. \A i \in p .. (e - 1) : ~InComment(i)
    BY <1>1, <1>3, <1>4, NoCommentBegins
  <1>6. e > 1 => ~InComment(e - 1)
    <2>1. CASE e = p
      BY <1>4, <2>1
    <2>2. CASE e # p
      <3>1. e - 1 \in p .. (e - 1)
        BY <1>1, <1>3, <2>2
      <3>2. QED
        BY <1>5, <3>1
    <2>3. QED
      BY <2>1, <2>2
  <1>7. e <= src_len /\ src[e] = "." => Even(e)
    <2>1. CASE e = p
      BY <1>2, <2>1 DEF TextInv, Outside
    <2>2. CASE e # p
      <3>1. e - 1 \in p .. (e - 1) /\ e - 1 \in Nat \ {0} /\ (e - 1) + 1 = e
        BY <1>1, <1>3, <2>2
      <3>2. src[e - 1] # "."
        BY <1>3, <3>1
      <3>3. Even((e - 1) + 1)
        BY <3>1, <3>2, DotsAlternate
      <3>4. QED
        BY <3>1, <3>3
    <2>3. QED
      BY <2>1, <2>2
  <1>8. QED
    BY <1>2, <1>5, <1>6, <1>7, OutsideStep

(* The classes of characters share nothing that matters to the text.        *)
LEMMA Classes ==
  /\ \A c \in Space : c \notin Alpha \cup Digit \cup {"_", "#", "."} \cup DOMAIN SingleChar
  /\ \A c \in Alpha \cup Digit \cup {"_"} \cup DOMAIN SingleChar : c # "#" /\ c # "."
  <1>1. DOMAIN SingleChar = {"+", "-", ",", ":", "{", "}", "[", "]"}
    BY DEF SingleChar
  <1> DEFINE D == DOMAIN SingleChar
  <1>2. "#" \notin D /\ "." \notin D
    BY <1>1
  <1> HIDE DEF D
  <1>3. /\ Alpha \cap Digit = {} /\ Space \cap (Alpha \cup Digit) = {}
        /\ ({"_", "#", "."} \cup D) \cap (Alpha \cup Digit \cup Space) = {}
    BY CharAssumption DEF D
  <1>4. \A c \in Space : c \notin Alpha \cup Digit \cup {"_", "#", "."} \cup D
    BY <1>3
  <1>5. \A c \in Alpha \cup Digit : c # "#" /\ c # "."
    BY <1>3
  <1>6. \A c \in D : c # "#" /\ c # "."
    BY <1>2
  <1>7. QED
    BY <1>4, <1>5, <1>6 DEF D

LEMMA ScanFacts ==
  ASSUME TextInv, scan
  PROVE  /\ UNCHANGED <<source, status>> /\ source \in Sources
         /\ ch_pos \in 1 .. src_len /\ src_len \in Nat
  BY SourceIsSeq DEF TextInv, Inv, TypeOK, scan, Scanning

LEMMA NextPosition ==
  ASSUME ch_pos \in 1 .. src_len, src_len \in Nat
  PROVE  \E e \in ch_pos .. (src_len + 1) :
           e = ch_pos + 1 /\ \A i \in ch_pos .. (e - 1) : i = ch_pos
  OBVIOUS

(* A token of letters, digits or a single character.                        *)
LEMMA PlainToken ==
  ASSUME TextInv, UNCHANGED <<source, status>>, ch_pos \in 1 .. src_len,
         NEW type, NEW e \in ch_pos .. (src_len + 1), add_token(type, e),
         \A i \in ch_pos .. (e - 1) : src[i] \in Alpha \cup Digit \cup {"_"} \cup DOMAIN SingleChar
  PROVE  Outside' /\ Joined'
  <1>1. ch_pos' = e /\ source' = source
    BY DEF add_token
  <1>2. \A i \in ch_pos .. (e - 1) : src[i] # "#" /\ src[i] # "."
    BY Classes
  <1>3. (\A i \in ch_pos .. (e - 1) : ~InComment(i)) /\ Outside'
    BY <1>1, <1>2, PlainStep
  <1>4. \A i \in ch_pos .. (e - 1) : Kept(i)
    BY <1>3 DEF Kept
  <1>5. QED
    BY <1>1, <1>3, <1>4, KeptStep

LEMMA NumberText == ASSUME TextInv, scan, number PROVE Outside' /\ Joined'
  <1>1. /\ UNCHANGED <<source, status>> /\ source \in Sources /\ ch_pos \in 1 .. src_len
    BY ScanFacts
  <1>2. PICK e \in ch_pos .. (src_len + 1) :
          e = RunEnd(Digit) /\ \A i \in ch_pos .. (e - 1) : src[i] \in Digit
    BY <1>1, RunEnds
  <1>3. add_token("INT", e)
    BY <1>2 DEF number
  <1>4. QED
    BY <1>1, <1>2, <1>3, PlainToken

(* At a _ nothing is read, whether a token is counted or not.               *)
LEMMA WordText == ASSUME TextInv, scan, word PROVE Outside' /\ Joined'
  <1>1. /\ UNCHANGED <<source, status>> /\ source \in Sources /\ ch_pos \in 1 .. src_len
        /\ src_len \in Nat
    BY ScanFacts
  <1>2. PICK e \in ch_pos .. (src_len + 1) :
          /\ e = RunEnd(Alpha \cup Digit)
          /\ \A i \in ch_pos .. (e - 1) : src[i] \in Alpha \cup Digit
    BY <1>1, RunEnds
  <1>3. CASE add_token(word_type(SubSeq(src, ch_pos, e - 1)), e)
    <2>1. PICK type : type = word_type(SubSeq(src, ch_pos, e - 1))
      OBVIOUS
    <2>2. add_token(type, e)
      BY <1>3, <2>1
    <2>3. QED
      BY <1>1, <1>2, <2>2, PlainToken
  <1>4. CASE Skip(0)
    <2>1. ch_pos' = ch_pos /\ toks' = toks
      BY <1>1, <1>4 DEF Skip
    <2>2. Outside'
      BY <1>1, <2>1, SameSource DEF TextInv, Outside
    <2>3. Seen' = Seen
      BY <1>1, <2>1, SameSource DEF Seen
    <2>4. QED
      BY <1>1, <2>1, <2>2, <2>3, NothingJoins
  <1>5. QED
    BY <1>2, <1>3, <1>4 DEF word

LEMMA SingleCharText == ASSUME TextInv, scan, single_char PROVE Outside' /\ Joined'
  <1>1. /\ UNCHANGED <<source, status>> /\ source \in Sources /\ ch_pos \in 1 .. src_len
        /\ src_len \in Nat
    BY ScanFacts
  <1>2. PICK e \in ch_pos .. (src_len + 1) : e = ch_pos + 1
    BY <1>1
  <1>3. \A i \in ch_pos .. (e - 1) : i = ch_pos
    BY <1>1, <1>2
  <1>4. PICK type : type = SingleChar[Ch]
    OBVIOUS
  <1>5. add_token(type, e) /\ src[ch_pos] \in DOMAIN SingleChar
    BY <1>2, <1>4 DEF single_char, Ch
  <1>6. QED
    BY <1>1, <1>3, <1>5, PlainToken

(* A step over one character that is neither kept nor a # or a dot.         *)
LEMMA PlainSkip ==
  ASSUME TextInv, scan, Skip(1),
         src[ch_pos] \notin Alpha \cup Digit \cup {"_", "#", "."} \cup DOMAIN SingleChar
  PROVE  Outside' /\ Joined'
  <1>1. /\ UNCHANGED <<source, status>> /\ source \in Sources /\ ch_pos \in 1 .. src_len
    BY ScanFacts
  <1>2. PICK e \in ch_pos .. (src_len + 1) :
          e = ch_pos + 1 /\ \A i \in ch_pos .. (e - 1) : i = ch_pos
    BY ScanFacts, NextPosition
  <1>3. \A i \in ch_pos .. (e - 1) : i = ch_pos
    BY <1>2
  <1>4. ch_pos' = e /\ toks' = toks
    BY <1>2 DEF Skip
  <1>5. Outside'
    BY <1>1, <1>3, <1>4, PlainStep
  <1>6. \A i \in ch_pos .. (e - 1) : ~Kept(i)
    BY <1>3 DEF Kept
  <1>7. QED
    BY <1>1, <1>4, <1>5, <1>6, DroppedStep

LEMMA BlankText == ASSUME TextInv, scan, blank PROVE Outside' /\ Joined'
  BY Classes, PlainSkip DEF blank, Ch

LEMMA UnknownText == ASSUME TextInv, scan, unknown PROVE Outside' /\ Joined'
  <1>1. /\ UNCHANGED <<source, status>> /\ source \in Sources /\ ch_pos \in 1 .. src_len
        /\ src_len \in Nat
    BY ScanFacts
  <1>2. CASE Ch # "."
    BY <1>2, PlainSkip DEF unknown, Ch
  <1>3. CASE Ch = "."
    <2>1. PICK p \in 1 .. src_len : p = ch_pos /\ p \in Nat \ {0} /\ p + 1 \in p .. (src_len + 1)
      BY <1>1
    <2>2. src[p] = "." /\ ~(p + 1 <= src_len /\ src[p + 1] = ".")
      BY <1>3, <2>1 DEF unknown, AtDotdot, Ch
    <2>3. Even(p)
      BY <2>1, <2>2 DEF TextInv, Outside
    <2>4. ~Kept(p)
      <3>1. "." \notin Alpha \cup Digit \cup {"_"} \cup DOMAIN SingleChar
        BY Classes
      <3>2. ~(Cardinality(DotsBefore(p)) % 2 = 1)
        BY <2>3 DEF Even
      <3>3. ~(p < src_len /\ src[p + 1] = ".")
        BY <1>1, <2>1, <2>2
      <3>4. QED
        BY <2>2, <3>1, <3>2, <3>3 DEF Kept
    <2>5. ~InComment(p)
      <3>1. p > 1 => ~InComment(p - 1)
        BY <1>1, <2>1 DEF TextInv, Outside
      <3>2. \A i \in p .. ((p + 1) - 1) : i = p
        BY <2>1
      <3>3. p \in p .. ((p + 1) - 1)
        BY <2>1
      <3>4. QED
        BY <1>1, <2>1, <2>2, <3>1, <3>2, <3>3, NoCommentBegins
    <2>6. ch_pos' = p + 1 /\ toks' = toks
      BY <2>1 DEF unknown, Skip
    <2>7. Outside'
      <3>1. (p + 1) - 1 = p
        BY <2>1
      <3>2. p + 1 <= src_len => src[p + 1] # "."
        BY <2>2
      <3>3. QED
        BY <1>1, <2>5, <2>6, <3>1, <3>2, OutsideStep
    <2>8. \A i \in p .. ((p + 1) - 1) : ~Kept(i)
      <3>1. \A i \in p .. ((p + 1) - 1) : i = p
        BY <2>1
      <3>2. QED
        BY <2>4, <3>1
    <2>9. PICK e \in ch_pos .. (src_len + 1) : e = p + 1
      BY <2>1
    <2>10. Joined'
      BY <1>1, <2>1, <2>6, <2>8, <2>9, DroppedStep
    <2>11. QED
      BY <2>7, <2>10
  <1>4. QED
    BY <1>2, <1>3

(* Both dots of a pair are kept: the first has one behind it, the second an *)
(* odd row before it.                                                       *)
LEMMA DotdotText == ASSUME TextInv, scan, dotdot PROVE Outside' /\ Joined'
  <1>1. /\ UNCHANGED <<source, status>> /\ source \in Sources /\ ch_pos \in 1 .. src_len
        /\ src_len \in Nat
    BY ScanFacts
  <1>2. PICK p \in 1 .. src_len : p = ch_pos
    BY <1>1
  <1>3. src[p] = "." /\ p + 1 <= src_len /\ src[p + 1] = "."
    BY <1>2 DEF dotdot, AtDotdot, Ch
  <1>4. PICK e \in p .. (src_len + 1) :
          e = p + 2 /\ \A i \in p .. (e - 1) : i = p \/ i = p + 1
    BY <1>1, <1>2, <1>3
  <1>5. /\ p \in Nat \ {0} /\ p + 1 \in Nat \ {0} /\ p < src_len /\ (p + 1) + 1 = e
        /\ e - 1 = p + 1 /\ p \in p .. (e - 1) /\ p + 1 \in p .. (e - 1)
    BY <1>1, <1>3, <1>4
  <1>6. ~InComment(p) /\ ~InComment(p + 1)
    <2>1. p > 1 => ~InComment(p - 1)
      BY <1>1, <1>2 DEF TextInv, Outside
    <2>2. \A i \in p .. (e - 1) : src[i] # "#"
      BY <1>3, <1>4
    <2>3. \A i \in p .. (e - 1) : ~InComment(i)
      BY <1>1, <2>1, <2>2, NoCommentBegins
    <2>4. QED
      BY <1>5, <2>3
  <1>7. Even(p)
    BY <1>2, <1>3 DEF TextInv, Outside
  <1>8. ~Even(p + 1)
    BY <1>3, <1>5, <1>6, <1>7, DotsAlternate
  <1>9. Even(e)
    <2>1. Even((p + 1) + 1)
      BY <1>3, <1>5, <1>6, <1>8, DotsAlternate
    <2>2. QED
      BY <1>5, <2>1
  <1>10. Kept(p)
    BY <1>3, <1>5, <1>6 DEF Kept
  <1>11. Kept(p + 1)
    <2>1. PICK n \in Nat : n = Cardinality(DotsBefore(p + 1))
      BY <1>5, DotsAlternate
    <2>2. n % 2 = 1
      <3>1. n % 2 # 0
        BY <1>8, <2>1 DEF Even
      <3>2. QED
        BY <3>1
    <2>3. QED
      BY <1>3, <1>6, <2>1, <2>2 DEF Kept
  <1>12. add_token("DOTDOT", e) /\ ch_pos' = e
    BY <1>2, <1>4 DEF dotdot, add_token
  <1>13. Outside'
    BY <1>1, <1>5, <1>6, <1>9, <1>12, OutsideStep
  <1>14. \A i \in ch_pos .. (e - 1) : Kept(i)
    BY <1>2, <1>4, <1>10, <1>11
  <1>15. Joined'
    <2>1. e \in ch_pos .. (src_len + 1)
      BY <1>2
    <2>2. QED
      BY <1>1, <1>12, <1>14, <2>1, KeptStep
  <1>16. QED
    BY <1>13, <1>15

(* A comment is not kept, nor is the newline that ends it.                  *)
LEMMA CommentText == ASSUME TextInv, scan, comment PROVE Outside' /\ Joined'
  <1>1. /\ UNCHANGED <<source, status>> /\ source \in Sources /\ ch_pos \in 1 .. src_len
        /\ src_len \in Nat
    BY ScanFacts
  <1>2. PICK p \in 1 .. src_len : p = ch_pos
    BY <1>1
  <1>3. PICK n : n = Min(NewlineAfter) /\ n \in NewlineAfter /\ \A i \in NewlineAfter : n <= i
    <2>1. NewlineAfter \subseteq Nat /\ NewlineAfter # {}
      BY <1>1 DEF comment, NewlineAfter
    <2>2. QED
      BY <2>1, LeastNumber
  <1>4. /\ n \in p .. src_len /\ src[n] = "\n"
        /\ \A k \in p .. src_len : src[k] = "\n" => n <= k
    BY <1>2, <1>3 DEF NewlineAfter
  <1>5. PICK e \in p .. (src_len + 1) :
          /\ e = n + 1 /\ e - 1 = n /\ n \in Nat /\ n # 0
          /\ \A i \in p .. (e - 1) : i = n \/ i \in p .. (n - 1)
    BY <1>1, <1>4
  <1>6. src[p] = "#" /\ p \in Nat \ {0}
    BY <1>1, <1>2 DEF comment, Ch
  <1>7. \A k \in p .. (n - 1) : src[k] # "\n"
    BY <1>1, <1>4
  <1>8. \A i \in p .. (n - 1) : ~Kept(i)
    BY <1>5, <1>6, <1>7, CommentGoesOn DEF Kept
  <1>9. ~Kept(n)
    <2>1. "\n" \in Space
      BY CharAssumption
    <2>2. src[n] \notin Alpha \cup Digit \cup {"_"} \cup DOMAIN SingleChar /\ src[n] # "."
      BY <1>4, <2>1, Classes
    <2>3. QED
      BY <2>2 DEF Kept
  <1>10. ~InComment(n)
    BY <1>4, <1>5, NewlineEnds
  <1>11. ch_pos' = e /\ toks' = toks
    BY <1>3, <1>5 DEF comment
  <1>12. Outside'
    <2>1. e <= src_len /\ src[e] = "." => Even(e)
      <3>1. src[n] # "."
        BY <1>4
      <3>2. n \in Nat \ {0} /\ e = n + 1
        BY <1>5
      <3>3. QED
        BY <3>1, <3>2, DotsAlternate
    <2>2. QED
      BY <1>1, <1>5, <1>10, <1>11, <2>1, OutsideStep
  <1>13. \A i \in ch_pos .. (e - 1) : ~Kept(i)
    BY <1>2, <1>5, <1>8, <1>9
  <1>14. Joined'
    <2>1. e \in ch_pos .. (src_len + 1)
      BY <1>2
    <2>2. QED
      BY <1>1, <1>11, <1>13, <2>1, DroppedStep
  <1>15. QED
    BY <1>12, <1>14

(* A comment that no newline ends: the rest of the source is not kept.      *)
LEMMA OverrunText == ASSUME TextInv, comment_overruns PROVE Outside' /\ Joined'
  <1>1. /\ source' = source /\ toks' = toks /\ source \in Sources
        /\ ch_pos \in 1 .. src_len /\ src_len \in Nat /\ src_len' = src_len
    BY SourceIsSeq, SameSource DEF TextInv, Inv, TypeOK, comment_overruns, Scanning
  <1>2. CASE ch_pos' = src_len + 3
    <2>1. PICK p \in 1 .. src_len : p = ch_pos
      BY <1>1
    <2>2. PICK e \in p .. (src_len + 1) : e = src_len + 1 /\ e - 1 = src_len /\ e \in Nat
      BY <1>1, <2>1
    <2>3. src[p] = "#" /\ \A k \in p .. (e - 1) : src[k] # "\n"
      BY <1>1, <2>1, <2>2 DEF comment_overruns, NewlineAfter, Ch
    <2>4. \A i \in p .. (e - 1) : ~Kept(i)
      <3>1. p \in Nat \ {0} /\ e \in Nat
        BY <1>1, <2>2
      <3>2. \A i \in p .. (e - 1) : InComment(i)
        BY <2>3, <3>1, CommentGoesOn
      <3>3. QED
        BY <3>2 DEF Kept
    <2>5. Seen = p - 1 /\ Seen' = src_len
      BY <1>1, <1>2, <2>1 DEF Seen
    <2>6. KeptText[p - 1] \in Seq(Letters)
      BY <2>5, TextOfLetters
    <2>7. KeptText[e - 1] = KeptText[p - 1]
      BY <1>1, <2>4, <2>6, KeptRun
    <2>8. KeptText[Seen'] = KeptText[Seen]
      BY <2>2, <2>5, <2>7
    <2>9. Outside'
      <3>1. PICK e2 : e2 = src_len + 3 /\ ~(e2 <= src_len + 1) /\ ~(e2 <= src_len)
        BY <1>1
      <3>2. QED
        BY <1>1, <1>2, <3>1, OutsideStep
    <2>10. QED
      BY <1>1, <2>8, <2>9, NothingJoins
  <1>3. CASE ch_pos' = ch_pos
    <2>1. Outside'
      BY <1>1, <1>3, SameSource DEF TextInv, Outside
    <2>2. Seen' = Seen
      BY <1>1, <1>3 DEF Seen
    <2>3. QED
      BY <1>1, <2>1, <2>2, NothingJoins
  <1>4. QED
    BY <1>2, <1>3 DEF comment_overruns

(* The token that ends the source has no text.                              *)
LEMMA FinishText == ASSUME TextInv, finish PROVE Outside' /\ Joined'
  <1>1. /\ source' = source /\ ch_pos' = ch_pos /\ src_len' = src_len
        /\ toks' = Append(toks, EOF)
    BY SameSource DEF finish
  <1>2. Outside'
    BY <1>1, SameSource DEF TextInv, Outside
  <1>3. Seen' = Seen
    BY <1>1 DEF Seen
  <1>4. PICK t \in Seq(Letters) : t = <<>>
    <2>1. <<>> \in Seq(Letters)
      OBVIOUS
    <2>2. QED
      BY <2>1
  <1>5. toks' = Append(toks, Token("EOF", t))
    BY <1>1, <1>4 DEF EOF
  <1>6. KeptText[Seen'] = KeptText[Seen] \o t
    <2>1. PICK C, text : text \in Seq(C) /\ text = KeptText[Seen]
      BY TextOfLetters
    <2>2. text \o <<>> = text
      BY <2>1
    <2>3. QED
      BY <1>3, <1>4, <2>1, <2>2
  <1>7. QED
    BY <1>1, <1>2, <1>5, <1>6, TokenJoins

LEMMA NextText == TextInv /\ [lexer_tokenize]_vars => TextInv'
  <1>1. SUFFICES ASSUME TextInv, [lexer_tokenize]_vars PROVE TextInv'
    OBVIOUS
  <1>2. Inv'
    BY <1>1, NextInv DEF TextInv
  <1>3. ASSUME scan PROVE Outside' /\ Joined'
    BY <1>1, <1>3, BlankText, NumberText, WordText, SingleCharText, CommentText,
       DotdotText, UnknownText DEF scan
  <1>4. ASSUME UNCHANGED vars PROVE Outside' /\ Joined'
    <2>1. source' = source /\ ch_pos' = ch_pos /\ toks' = toks
      BY <1>4 DEF vars
    <2>2. Outside'
      BY <1>1, <2>1, SameSource DEF TextInv, Outside
    <2>3. Seen' = Seen
      BY <2>1, SameSource DEF Seen
    <2>4. QED
      BY <1>1, <2>1, <2>2, <2>3, NothingJoins
  <1>5. Outside' /\ Joined'
    BY <1>1, <1>3, <1>4, OverrunText, FinishText DEF lexer_tokenize
  <1>6. QED
    BY <1>2, <1>5 DEF TextInv

LEMMA TextInvTells == TextInv => TokensAreTheText
  <1> SUFFICES ASSUME TextInv PROVE TokensAreTheText
    OBVIOUS
  <1>1. PICK C, texts, W : /\ C = Letters /\ texts = Texts /\ texts \in Seq(Seq(C))
                           /\ Joins(C, texts, W) /\ W[Len(texts)] = KeptText[Seen]
    BY DEF TextInv, Joined
  <1>2. FlattenSeq(texts) = W[Len(texts)]
    <2>1. texts \in Seq(Seq(C)) /\ Joins(C, texts, W)
      BY <1>1
    <2>2. QED
      BY <2>1, FlattenIs, Zenon
  <1>3. QED
    BY <1>1, <1>2 DEF TokensAreTheText, Texts, Seen

(* The texts of the tokens, one after the other, are what the source read so*)
(* far says: its characters but for blanks, comments, characters of no      *)
(* meaning and, of a row of dots, an odd last one.                          *)
THEOREM ReadsTheText == Spec => []TokensAreTheText
  BY InitText, NextText, TextInvTells, PTL DEF Spec

-----------------------------------------------------------------------------
(* What may be in memory.                                                   *)
Held == {Garbage, NUL} \cup {input[i] : i \in DOMAIN input}

(* There is always room for the NUL behind what was read, which is the      *)
(* beginning of the input, and all of it if fread did not fail.             *)
ReadInv ==
  /\ input \in Inputs
  /\ capacity \in Nat /\ total_read \in Nat
  /\ total_read < capacity
  /\ total_read <= Len(input)
  /\ buf \in [1 .. capacity -> Held]
  /\ \A i \in 1 .. total_read : buf[i] = input[i]
  /\ read_status \in {"reading", "read", "done"}
  /\ read_status # "reading" => failed \/ total_read = Len(input)
  /\ read_status = "done" => buf[total_read + 1] = NUL

-----------------------------------------------------------------------------
LEMMA InputIsSeq == ASSUME ReadInv PROVE input \in Seq({input[i] : i \in DOMAIN input})
  BY InputsAssumption DEF ReadInv

LEMMA InitReadInv == InitRead => ReadInv
  <1> SUFFICES ASSUME InitRead PROVE ReadInv
    OBVIOUS
  <1>1. input \in Seq({input[i] : i \in DOMAIN input})
    BY InputsAssumption DEF InitRead
  <1>2. Len(input) \in Nat
    BY <1>1
  <1>3. buf \in [1 .. capacity -> Held]
    BY DEF InitRead, Memory, Held
  <1>4. QED
    BY <1>2, <1>3, CapacityAssumption DEF InitRead, ReadInv

(* After a chunk the memory is larger or as large, and there is still room. *)
LEMMA ChunkInv == ASSUME ReadInv, read_chunk PROVE ReadInv'
  <1>1. input \in Seq({input[i] : i \in DOMAIN input}) /\ input' = input
    BY InputIsSeq DEF read_chunk
  <1>2. Len(input) \in Nat /\ DOMAIN input = 1 .. Len(input)
    BY <1>1
  <1>3. PICK cap \in Nat : capacity' = cap /\ capacity <= cap /\ total_read + 1 < cap
    <2>1. Grown \in Nat /\ capacity <= Grown /\ total_read + 1 < Grown
      BY DEF Grown, Remaining, ReadInv
    <2>2. QED
      BY <2>1 DEF read_chunk
  <1>i. total_read \in Nat /\ total_read < capacity /\ total_read <= Len(input)
    BY DEF ReadInv
  <1>4. PICK nread \in Nat :
          /\ nread <= Len(input) - total_read
          /\ nread <= cap - total_read - 1
          /\ total_read' = total_read + nread
          /\ buf' = [i \in 1 .. cap |->
                       IF i \in (total_read + 1) .. (total_read + nread)
                       THEN input[i] ELSE Memory(cap, buf)[i]]
          /\ read_status' \in {"read", "reading"}
          /\ read_status' = "read" => failed' \/ nread = Len(input) - total_read
    <2> DEFINE n == cap - total_read - 1
               left == Len(input) - total_read
               most == IF left < n THEN left ELSE n
    <2>1. PICK nread \in 0 .. most :
            /\ total_read' = total_read + nread
            /\ failed' = (nread < most)
            /\ buf' = [i \in 1 .. cap |->
                         IF i \in (total_read + 1) .. (total_read + nread)
                         THEN input[i] ELSE Memory(cap, buf)[i]]
            /\ read_status' = IF nread < n THEN "read" ELSE "reading"
      BY <1>3 DEF read_chunk, Read, Remaining
    <2>2. n \in Nat /\ left \in Nat /\ most \in Nat /\ most <= n /\ most <= left
      BY <1>2, <1>3, <1>i
    <2>3. read_status' = "read" => failed' \/ nread = left
      <3>1. SUFFICES ASSUME nread < n, ~(nread < most) PROVE nread = left
        BY <2>1
      <3>2. QED
        BY <2>1, <2>2, <3>1
    <2>4. QED
      BY <2>1, <2>2, <2>3
  <1>n. nread <= Len(input) - total_read /\ nread <= cap - total_read - 1
    BY <1>4
  <1>5. buf' \in [1 .. cap -> Held]
    <2>1. ASSUME NEW i \in 1 .. cap PROVE Memory(cap, buf)[i] \in Held
      BY DEF Memory, Held, ReadInv
    <2>2. ASSUME NEW i \in (total_read + 1) .. (total_read + nread)
          PROVE  input[i] \in Held
      <3>1. i \in DOMAIN input
        BY <1>2, <1>n, <1>i
      <3>2. QED
        BY <3>1 DEF Held
    <2>3. QED
      BY <1>4, <2>1, <2>2
  <1>6. Held' = Held
    BY <1>1 DEF Held
  <1>7. \A i \in 1 .. total_read' : buf'[i] = input[i]
    <2>1. SUFFICES ASSUME NEW i \in 1 .. total_read' PROVE buf'[i] = input[i]
      OBVIOUS
    <2>2. i \in 1 .. cap
      BY <1>3, <1>4 DEF ReadInv
    <2>3. CASE i \in 1 .. total_read
      <3>1. i \in 1 .. capacity
        BY <2>3 DEF ReadInv
      <3>2. Memory(cap, buf)[i] = buf[i]
        BY <2>2, <3>1 DEF Memory, ReadInv
      <3>3. i \notin (total_read + 1) .. (total_read + nread)
        BY <2>3 DEF ReadInv
      <3>4. QED
        BY <1>4, <2>2, <2>3, <3>2, <3>3 DEF ReadInv
    <2>4. CASE i \notin 1 .. total_read
      <3>1. i \in (total_read + 1) .. (total_read + nread)
        BY <1>4, <2>1, <2>4 DEF ReadInv
      <3>2. QED
        BY <1>4, <2>2, <3>1
    <2>5. QED
      BY <2>3, <2>4
  <1>8. PICK read \in Nat : total_read' = read /\ read < cap /\ read <= Len(input)
    <2>1. /\ total_read + nread \in Nat
          /\ total_read + nread < cap
          /\ total_read + nread <= Len(input)
      BY <1>2, <1>3, <1>n, <1>i
    <2>2. QED
      BY <1>4, <2>1
  <1>9. read_status' # "reading" => failed' \/ total_read' = Len(input)
    <2>1. nread = Len(input) - total_read => total_read + nread = Len(input)
      BY <1>2, <1>4, <1>i
    <2>2. QED
      BY <1>4, <2>1
  <1>10. QED
    BY <1>1, <1>3, <1>4, <1>5, <1>6, <1>7, <1>8, <1>9 DEF ReadInv

LEMMA TerminateInv == ASSUME ReadInv, terminate PROVE ReadInv'
  <1>1. End \in DOMAIN buf
    BY DEF End, ReadInv
  <1>2. /\ buf' = [buf EXCEPT ![total_read + 1] = NUL]
        /\ read_status' = "done" /\ read_status = "read"
        /\ UNCHANGED <<input, capacity, total_read, failed>>
    BY <1>1 DEF terminate, End
  <1>3. NUL \in Held /\ Held' = Held
    BY <1>2 DEF Held
  <1>4. buf' \in [1 .. capacity -> Held]
    BY <1>2, <1>3 DEF ReadInv
  <1>5. \A i \in 1 .. total_read : buf'[i] = input[i]
    BY <1>2 DEF ReadInv
  <1>6. buf'[total_read + 1] = NUL
    BY <1>1, <1>2 DEF End
  <1>7. QED
    BY <1>2, <1>3, <1>4, <1>5, <1>6 DEF ReadInv

LEMMA NextReadInv == ReadInv /\ [read_src]_read_vars => ReadInv'
  <1>1. ASSUME ReadInv, UNCHANGED read_vars PROVE ReadInv'
    BY <1>1 DEF ReadInv, read_vars, Held
  <1>2. QED
    BY <1>1, ChunkInv, TerminateInv DEF read_src

(* read_src never writes outside its memory, and fills it with the input.   *)
THEOREM ReadSafety == ReadSpec => []ReadInv
  BY InitReadInv, NextReadInv, PTL DEF ReadSpec

-----------------------------------------------------------------------------
(* Sequences that are alike up to the first NUL are one string.             *)
LEMMA SameString ==
  ASSUME NEW A, NEW B, NEW s \in Seq(A), NEW t \in Seq(B),
         Len(t) <= Len(s), Len(t) >= 1, t[Len(t)] = NUL,
         \A i \in 1 .. Len(t) : s[i] = t[i]
  PROVE  CString(s) = CString(t)
  <1> DEFINE I == {i \in 1 .. Len(s) : s[i] = NUL}
             J == {i \in 1 .. Len(t) : t[i] = NUL}
  <1>1. Len(s) \in Nat /\ Len(t) \in Nat
    OBVIOUS
  <1>2. I \subseteq Nat /\ J \subseteq Nat /\ J \subseteq I /\ Len(t) \in J
    BY <1>1
  <1>3. \A i \in I : i <= Len(t) => i \in J
    BY <1>1
  <1>4. \A j \in J : j <= Len(t) /\ j >= 1
    BY <1>1
  <1>5. CString(s) = SubSeq(s, 1, Min(I) - 1)
    BY <1>2 DEF CString, SelectInSeq
  <1>6. CString(t) = SubSeq(t, 1, Min(J) - 1)
    BY <1>2 DEF CString, SelectInSeq
  <1> HIDE DEF I, J
  <1>7. Min(I) \in I /\ \A n \in I : Min(I) <= n
    BY <1>2, LeastNumber
  <1>8. Min(J) \in J /\ \A n \in J : Min(J) <= n
    BY <1>2, LeastNumber
  <1>9. Min(I) = Min(J)
    <2>1. Min(I) \in Nat /\ Min(J) \in Nat /\ Min(I) <= Min(J)
      BY <1>2, <1>7, <1>8
    <2>2. Min(I) \in J
      BY <1>2, <1>3, <1>7
    <2>3. Min(J) <= Min(I)
      BY <1>8, <2>2
    <2>4. QED
      BY <2>1, <2>3
  <1>10. PICK m \in Nat : m = Min(J) - 1 /\ m < Len(t)
    <2>1. PICK k \in Nat : k = Min(J) /\ k >= 1 /\ k <= Len(t)
      BY <1>2, <1>4, <1>8
    <2>2. k - 1 \in Nat /\ k - 1 < Len(t)
      BY <1>1, <2>1
    <2>3. QED
      BY <2>1, <2>2
  <1>11. SubSeq(s, 1, m) = SubSeq(t, 1, m)
    BY <1>1, <1>10
  <1>12. QED
    BY <1>5, <1>6, <1>9, <1>10, <1>11

(* When reading has ended, memory holds what was read and then the NUL.     *)
LEMMA InvSource == ASSUME ReadInv PROVE SourceIsInput
  <1>1. read_status # "undefined"
    BY DEF ReadInv
  <1>2. ASSUME read_status = "done"
        PROVE  CString(buf) =
                 CString(Append(IF failed THEN SubSeq(input, 1, total_read) ELSE input, NUL))
    <2>1. PICK n \in Nat : n = total_read
      BY DEF ReadInv
    <2>2. PICK A : input \in Seq(A)
      BY InputIsSeq
    <2>3. Len(input) \in Nat /\ n <= Len(input)
      BY <2>1, <2>2 DEF ReadInv
    <2>4. PICK r \in Seq(A) :
            /\ r = (IF failed THEN SubSeq(input, 1, total_read) ELSE input)
            /\ Len(r) = n
            /\ \A i \in 1 .. n : r[i] = input[i]
      <3>1. CASE failed
        <4>1. /\ SubSeq(input, 1, n) \in Seq(A)
              /\ Len(SubSeq(input, 1, n)) = n
              /\ \A i \in 1 .. n : SubSeq(input, 1, n)[i] = input[i]
          BY <2>2, <2>3
        <4>2. QED
          BY <2>1, <3>1, <4>1
      <3>2. CASE ~failed
        BY <1>2, <2>1, <2>2, <3>2 DEF ReadInv
      <3>3. QED
        BY <3>1, <3>2
    <2>5. PICK t \in Seq(A \cup {NUL}) :
            /\ t = Append(r, NUL)
            /\ Len(t) = n + 1
            /\ t[n + 1] = NUL
            /\ \A i \in 1 .. n : t[i] = input[i]
      <3>1. r \in Seq(A \cup {NUL})
        BY <2>4
      <3>2. /\ Append(r, NUL) \in Seq(A \cup {NUL})
            /\ Len(Append(r, NUL)) = n + 1
            /\ Append(r, NUL)[n + 1] = NUL
            /\ \A i \in 1 .. n : Append(r, NUL)[i] = r[i]
        BY <2>4, <3>1
      <3>3. QED
        BY <2>4, <3>2, ZenonT(60)
    <2>6. PICK cap \in Nat : cap = capacity /\ n < cap
      BY <2>1 DEF ReadInv
    <2>7. PICK B, b : b \in Seq(B) /\ b = buf /\ Len(b) = cap
      <3>1. buf \in Seq(Held) /\ Len(buf) = cap
        BY <2>6 DEF ReadInv
      <3>2. QED
        BY <3>1
    <2>8. \A i \in 1 .. (n + 1) : b[i] = t[i]
      <3>1. \A i \in 1 .. n : b[i] = t[i]
        BY <2>1, <2>5, <2>7 DEF ReadInv
      <3>2. b[n + 1] = t[n + 1]
        BY <1>2, <2>1, <2>5, <2>7 DEF ReadInv
      <3>3. QED
        BY <3>1, <3>2
    <2>9. CString(b) = CString(t)
      <3>1. /\ Len(t) <= Len(b) /\ Len(t) >= 1
            /\ t[Len(t)] = NUL
            /\ \A i \in 1 .. Len(t) : b[i] = t[i]
        BY <2>5, <2>6, <2>7, <2>8
      <3>2. b \in Seq(B) /\ t \in Seq(A \cup {NUL})
        BY <2>5, <2>7
      <3>3. QED
        BY <3>1, <3>2, SameString
    <2>10. QED
      BY <2>4, <2>5, <2>7, <2>9
  <1>3. QED
    BY <1>1, <1>2 DEF SourceIsInput

(* However fread cuts the input into chunks, the lexer gets the input up to *)
(* its first NUL, or up to where an error ended the reading.                *)
THEOREM GivesTheInput == ReadSpec => []SourceIsInput
  <1>1. ReadInv => SourceIsInput
    BY InvSource
  <1>2. QED
    BY <1>1, ReadSafety, PTL
=============================================================================
