------------------------------- MODULE Lexer --------------------------------
(***************************************************************************)
(* The scanning loop of lexer.c, one action per kind of token.  A          *)
(* character is a string of length one, positions are 1-based, and the str *)
(* of a token is its text: StrPool shows that equal texts are one pointer. *)
(***************************************************************************)
EXTENDS Naturals, SequencesExt, TLC

CONSTANTS
  Sources,   \* the programs
  Chars(_),  \* the characters of a program
  Alpha,     \* isalpha
  Digit,     \* isdigit
  Space,     \* isspace
  MaxToks    \* how many tokens without text are counted

SingleChar ==
  [c \in {"+", "-", ",", ":", "{", "}", "[", "]"} |->
     CASE c = "+" -> "PLUS"   [] c = "-" -> "MINUS"
       [] c = "," -> "COMMA"  [] c = ":" -> "COLON"
       [] c = "{" -> "LBRACE" [] c = "}" -> "RBRACE"
       [] c = "[" -> "LBRACKET" [] c = "]" -> "RBRACKET"]

ASSUME CharAssumption ==
  /\ "\n" \in Space
  /\ Alpha \cap Digit = {} /\ Space \cap (Alpha \cup Digit) = {}
  /\ ({"_", "#", "."} \cup DOMAIN SingleChar) \cap (Alpha \cup Digit \cup Space) = {}

ASSUME CharsAssumption ==
  \A s \in Sources : Chars(s) \in Seq({Chars(s)[i] : i \in DOMAIN Chars(s)})

VARIABLES
  source,
  ch_pos,  \* lexer->ch_pos
  toks,    \* lexer->toks
  status   \* "scanning", "done" or "crashed", by reading past the source

vars == <<source, ch_pos, toks, status>>

src == Chars(source)
src_len == Len(src)

-----------------------------------------------------------------------------
Keywords ==
  {<<<<"v","a","r","s">>, "VARS">>, <<<<"s","e","t">>, "SET">>,
   <<<<"y","o","s","o","r","o">>, "YOSORO">>, <<<<"i","h","u">>, "IHU">>,
   <<<<"h","o","r">>, "HOR">>, <<<<"w","h","i","l","e">>, "WHILE">>,
   <<<<"i","n","t">>, "KEYWORD_INT">>, <<<<"a","r","r","a","y">>, "KEYWORD_ARRAY">>,
   <<<<"l","t">>, "CMP_LT">>, <<<<"g","t">>, "CMP_GT">>, <<<<"n","e","q">>, "CMP_NEQ">>,
   <<<<"g","e">>, "CMP_GE">>, <<<<"l","e">>, "CMP_LE">>, <<<<"e","q">>, "CMP_EQ">>}

keywords ==
  [str \in {k[1] : k \in Keywords} |-> (CHOOSE k \in Keywords : k[1] = str)[2]]

Token(type, str) == [type |-> type, str |-> str]
EOF == Token("EOF", <<>>)

(* Mutant: the text may go on where a keyword ends.                         *)
word_type_Prefix(str) ==
  IF \E k \in DOMAIN keywords : IsPrefix(k, str)
  THEN keywords[CHOOSE k \in DOMAIN keywords : IsPrefix(k, str)] ELSE "IDENT"

(* check_keyword: the whole text is the keyword.                            *)
word_type(str) == IF str \in DOMAIN keywords THEN keywords[str] ELSE "IDENT"

Init ==
  /\ source \in Sources
  /\ ch_pos = 1
  /\ toks = <<>>
  /\ status = "scanning"

Scanning == status = "scanning" /\ ch_pos <= src_len
Ch == src[ch_pos]

(* Where the characters from ch_pos on are no longer of the kind.           *)
RunEnd(kind) ==
  CHOOSE e \in ch_pos .. (src_len + 1) :
    /\ \A i \in ch_pos .. (e - 1) : src[i] \in kind
    /\ e = src_len + 1 \/ src[e] \notin kind

Skip(n) == ch_pos' = ch_pos + n /\ UNCHANGED toks
add_token(type, e) ==
  /\ toks' = Append(toks, Token(type, SubSeq(src, ch_pos, e - 1)))
  /\ ch_pos' = e

blank == Ch \in Space /\ Skip(1)

(* Mutant: the text starts behind the digit that was looked at.             *)
number_NoFirst ==
  /\ Ch \in Digit
  /\ toks' = Append(toks, Token("INT", SubSeq(src, ch_pos + 1, RunEnd(Digit) - 1)))
  /\ ch_pos' = RunEnd(Digit)

number == Ch \in Digit /\ add_token("INT", RunEnd(Digit))

(* An identifier may begin with a _ but holds letters and digits only: at a *)
(* _ a token without text is added, again and again.                        *)
word ==
  /\ Ch \in Alpha \cup {"_"}
  /\ LET e == RunEnd(Alpha \cup Digit) IN
     \/ /\ e > ch_pos \/ Len(toks) < MaxToks
        /\ add_token(word_type(SubSeq(src, ch_pos, e - 1)), e)
     \/ /\ e = ch_pos /\ Len(toks) >= MaxToks
        /\ Skip(0)

(* The str of these is the character in single quotes (#ch of the macro);   *)
(* here, and for "..", it is the text that was read.                        *)
single_char == Ch \in DOMAIN SingleChar /\ add_token(SingleChar[Ch], ch_pos + 1)

NewlineAfter == {i \in ch_pos .. src_len : src[i] = "\n"}

(* Mutant: the comment takes the first character of the next line with it.  *)
comment_OneTooFar ==
  /\ Ch = "#" /\ NewlineAfter # {}
  /\ ch_pos' = Min(NewlineAfter) + 2
  /\ UNCHANGED toks

comment ==
  /\ Ch = "#" /\ NewlineAfter # {}
  /\ ch_pos' = Min(NewlineAfter) + 1
  /\ UNCHANGED toks

AtDotdot == Ch = "." /\ ch_pos + 1 <= src_len /\ src[ch_pos + 1] = "."

(* Mutant: the second dot is looked at again.                               *)
dotdot_OneChar ==
  /\ AtDotdot
  /\ toks' = Append(toks, Token("DOTDOT", <<".", ".">>))
  /\ ch_pos' = ch_pos + 1

dotdot ==
  /\ AtDotdot
  /\ add_token("DOTDOT", ch_pos + 2)

(* Mutant: a lone dot is looked at again.                                   *)
unknown_Keeps ==
  /\ Ch \notin Space \cup Digit \cup Alpha \cup {"_", "#"} \cup DOMAIN SingleChar
  /\ ~AtDotdot
  /\ Skip(IF Ch = "." THEN 0 ELSE 1)

unknown ==
  /\ Ch \notin Space \cup Digit \cup Alpha \cup {"_", "#"} \cup DOMAIN SingleChar
  /\ ~AtDotdot
  /\ Skip(1)

(* A comment that no newline ends is followed past the NUL, to whatever     *)
(* newline memory holds, where the loop ends, or out of what can be read.   *)
comment_overruns ==
  /\ Scanning
  /\ Ch = "#" /\ NewlineAfter = {}
  /\ \/ ch_pos' = src_len + 3 /\ UNCHANGED status
     \/ status' = "crashed" /\ UNCHANGED ch_pos
  /\ UNCHANGED <<source, toks>>

scan ==
  /\ Scanning
  /\ blank \/ number \/ word \/ single_char \/ comment \/ dotdot \/ unknown
  /\ UNCHANGED <<source, status>>

finish ==
  /\ status = "scanning" /\ ch_pos > src_len
  /\ toks' = Append(toks, EOF)
  /\ status' = "done"
  /\ UNCHANGED <<source, ch_pos>>

lexer_tokenize == scan \/ comment_overruns \/ finish

Spec == Init /\ [][lexer_tokenize]_vars /\ WF_vars(lexer_tokenize)

-----------------------------------------------------------------------------
(* A token without text is the last one or an identifier.                   *)
TypeOK ==
  /\ ch_pos \in 1 .. (src_len + 3)
  /\ status \in {"scanning", "done", "crashed"}
  /\ \A i \in DOMAIN toks : toks[i].str = <<>> => toks[i].type \in {"IDENT", "EOF"}

(* What of a source a reader would keep: all but blanks, comments and       *)
(* characters that mean nothing; of a row of dots all but an odd last one.  *)
InComment(i) ==
  \E j \in 1 .. i : src[j] = "#" /\ \A k \in j .. i : src[k] # "\n"

DotsBefore(i) ==
  {j \in 1 .. (i - 1) : \A k \in j .. (i - 1) : src[k] = "." /\ ~InComment(k)}

Kept(i) ==
  /\ ~InComment(i)
  /\ \/ src[i] \in Alpha \cup Digit \cup {"_"} \cup DOMAIN SingleChar
     \/ /\ src[i] = "."
        /\ \/ Cardinality(DotsBefore(i)) % 2 = 1
           \/ i < src_len /\ src[i + 1] = "."

(* What is kept of the first n characters.                                  *)
KeptText[n \in 0 .. src_len] ==
  IF n = 0 THEN <<>>
  ELSE IF Kept(n) THEN Append(KeptText[n - 1], src[n]) ELSE KeptText[n - 1]

(* Nothing is lost, invented or read twice: the texts of the tokens, in     *)
(* order, are what the source up to ch_pos says.                            *)
TokensAreTheText ==
  FlattenSeq([i \in DOMAIN toks |-> toks[i].str])
    = KeptText[IF ch_pos <= src_len THEN ch_pos - 1 ELSE src_len]

(* Only a comment on a last line without newline leaves the source.         *)
OverrunsOnlyInComment ==
  status = "crashed" \/ ch_pos > src_len + 1 => src # <<>> /\ InComment(src_len)

(* Every source is read to its end, unless a _ stands outside a comment.    *)
StuckAtUnderscore == Scanning /\ Ch = "_"
OnlyUnderscoreNeverEnds == <>(status # "scanning" \/ StuckAtUnderscore)
=============================================================================
