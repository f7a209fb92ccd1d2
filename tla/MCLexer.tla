------------------------------ MODULE MCLexer -------------------------------
(***************************************************************************)
(* Lexer on every short text over an alphabet with a character of every    *)
(* kind, and on the written form of token sequences.                       *)
(***************************************************************************)
EXTENDS Lexer

MCAlpha == {"a", "e", "g", "h", "i", "l", "n", "o", "q", "r", "s", "t", "u", "v", "w", "x", "y"}
MCDigit == {"0", "1", "2"}
MCSpace == {" ", "\n"}

(* l, e, t and g make two keywords of letters that others go on with.       *)
AllShort ==
  {[text |-> t] :
     t \in UNION {[1 .. n -> {"l", "e", "1", "_", "#", ".", ":", "?", "\n"}] : n \in 0 .. 5}}

-----------------------------------------------------------------------------
(* Every kind of token, with what separates it from the next: nothing, a    *)
(* blank or a comment.                                                      *)
Words == {Token(keywords[k], k) : k \in DOMAIN keywords}
         \cup {Token("IDENT", s) : s \in {<<"x">>, <<"l", "t", "1">>, <<"i", "n">>}}
Numbers == {Token("INT", s) : s \in {<<"0">>, <<"1", "2">>}}
Signs == {Token(SingleChar[c], <<c>>) : c \in DOMAIN SingleChar}
         \cup {Token("DOTDOT", <<".", ".">>)}
AnyToken == Words \cup Numbers \cup Signs

Separators == {<<>>, <<" ">>, <<"#", "x", "#", "\n">>, <<".", "\n", "?">>}

(* Only after a word another word or a number would be part of it, and      *)
(* after a number another number.  A separator that begins with a dot does  *)
(* not follow the dots.                                                     *)
Separates(sep, t, u) ==
  /\ sep = <<>> => /\ t \in Words => u \in Signs
                   /\ t \in Numbers => u \notin Numbers
  /\ t.type = "DOTDOT" => sep # <<".", "\n", "?">>

Few == {Token("CMP_LE", <<"l", "e">>), Token("INT", <<"0">>), Token("DOTDOT", <<".", ".">>)}
AllWritten ==
  {[toks |-> <<t, u, v>>, seps |-> <<s, p>>] :
     t \in AnyToken, u \in AnyToken, v \in Few, s \in Separators, p \in {<<>>, <<" ">>}}
Separated ==
  {w \in AllWritten : \A i \in {1, 2} : Separates(w.seps[i], w.toks[i], w.toks[i + 1])}

AllSources == AllShort \cup Separated
MCSources == AllSources  \* evaluated once

MCChars(p) ==
  IF "text" \in DOMAIN p THEN p.text
  ELSE p.toks[1].str \o p.seps[1] \o p.toks[2].str \o p.seps[2] \o p.toks[3].str

(* Written with or without something in between, tokens are read back as    *)
(* they are: the longest text is taken, and a keyword is a whole word.      *)
ReadsBack ==
  status = "done" /\ "toks" \in DOMAIN source => toks = source.toks \o <<EOF>>
=============================================================================
