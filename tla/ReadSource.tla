----------------------------- MODULE ReadSource -----------------------------
(***************************************************************************)
(* read_src of main.c: the program is read from stdin into memory that is  *)
(* doubled until all of it, and a NUL, fit.  The lexer takes the characters*)
(* up to the first NUL (strlen); what is behind it has no meaning, and a   *)
(* comment on a last line without newline runs into it.                    *)
(***************************************************************************)
EXTENDS Naturals, SequencesExt

CONSTANTS
  Inputs,        \* what stdin may yield, sequences of characters
  NUL,           \* the character '\0'
  Garbage,       \* what memory holds before it is written
  FirstCapacity  \* 256 in the program

ASSUME CapacityAssumption == FirstCapacity \in Nat \ {0}
ASSUME InputsAssumption == \A s \in Inputs : s \in Seq({s[i] : i \in DOMAIN s})

VARIABLES
  input,
  buf,         \* the memory src points to, numbered from 1
  capacity,
  total_read,
  failed,      \* fread has met an error
  read_status  \* "reading", "done" or "undefined" (written outside buf)

read_vars == <<input, buf, capacity, total_read, failed, read_status>>

Memory(n, old) == [i \in 1 .. n |-> IF i \in DOMAIN old THEN old[i] ELSE Garbage]

InitRead ==
  /\ input \in Inputs
  /\ capacity = FirstCapacity
  /\ buf = Memory(capacity, <<>>)
  /\ total_read = 0
  /\ failed = FALSE
  /\ read_status = "reading"

Remaining(cap) == cap - total_read - 1

(* Mutant: nothing is left to read into.                                    *)
Grown_Never == capacity

Grown == IF Remaining(capacity) = 0 THEN capacity * 2 ELSE capacity

(* Mutant: the NUL is written one character late.                           *)
End_Late == total_read + 2

End == total_read + 1

(* fread yields what is asked for, or what is left; or less on an error,    *)
(* which read_src takes for the end.                                        *)
Read(n) ==
  LET left == Len(input) - total_read
      most == IF left < n THEN left ELSE n
  IN  \E nread \in 0 .. most :
        /\ total_read' = total_read + nread
        /\ failed' = (nread < most)
        /\ buf' = [i \in 1 .. capacity' |->
                     IF i \in (total_read + 1) .. (total_read + nread)
                     THEN input[i] ELSE Memory(capacity', buf)[i]]
        /\ read_status' = IF nread < n THEN "read" ELSE "reading"

(* Once around the loop.                                                    *)
read_chunk ==
  /\ read_status = "reading"
  /\ capacity' = Grown
  /\ Read(Remaining(capacity'))
  /\ UNCHANGED input

terminate ==
  /\ read_status = "read"
  /\ \/ /\ End \in DOMAIN buf
        /\ buf' = [buf EXCEPT ![End] = NUL]
        /\ read_status' = "done"
     \/ /\ End \notin DOMAIN buf
        /\ read_status' = "undefined"
        /\ UNCHANGED buf
  /\ UNCHANGED <<input, capacity, total_read, failed>>

read_src == read_chunk \/ terminate

ReadSpec == InitRead /\ [][read_src]_read_vars /\ WF_read_vars(read_src)

-----------------------------------------------------------------------------
(* The characters up to the first NUL.                                      *)
CString(s) == SubSeq(s, 1, SelectInSeq(s, LAMBDA c : c = NUL) - 1)

(* Unless reading failed, the string the lexer gets is the input, or the    *)
(* input up to a NUL in it, wherever the chunks ended.                      *)
SourceIsInput ==
  /\ read_status # "undefined"
  /\ read_status = "done" => CString(buf) =
       CString(Append(IF failed THEN SubSeq(input, 1, total_read) ELSE input, NUL))

(* Reading ends: nothing is asked of fread that it can give for ever.       *)
ReadingEnds == <>(read_status \in {"done", "undefined"})
=============================================================================
