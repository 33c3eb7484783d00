--------------------------- MODULE TinyDelegator ---------------------------
(***************************************************************************)
(* ed-lesson-7/tiny-delegator.c: a file of lines <function> <a> <b>, where *)
(* % stands for the last result.  The lines are indexed by their ends,     *)
(* taken apart, and carried out in order.  A file is a sequence of words   *)
(* and newlines; words are short of DEF_STR_BUF, results of an int's ends. *)
(***************************************************************************)
EXTENDS Ordered, SequencesExt, FiniteSetsExt

CONSTANTS
    Lines,              \* the lines files are made of, each a sequence of words
    MaxInstructions     \* bound: lines of a file

Newline == "\n"
Garbage == "garbage"        \* what an array holds before anything is copied into it
Previous == "%"

DelegatorAssumption ==
    /\ \A l \in Lines : l \in Seq(STRING) /\ \A k \in DOMAIN l : l[k] # Newline
    /\ MaxInstructions \in Nat

VARIABLES
    file,               \* file_buf: the words and newlines
    index,              \* lines_index: <<where a line ends>>, or its <<fn, arg1, arg2>>
    i,                  \* how far the second or third loop has come
    prev,               \* where the next line begins
    words,              \* ins, arg1 and arg2 as the last line left them
    value,              \* prev_value
    state,              \* the loop it is in, or how it ended
    lines               \* history: the lines of the file that a newline ends

vars == <<file, index, i, prev, words, value, state, lines>>

Init ==
    /\ file = <<>> /\ index = <<>> /\ lines = <<>>
    /\ i = 1 /\ prev = 1
    /\ words = <<Garbage, Garbage, Garbage>>
    /\ value = 0
    /\ state = "open"

\* atoi, of the words that files are made of.
Atoi(w) == CASE w = "1" -> 1 [] w = "2" -> 2 [] OTHER -> 0

----------------------------------------------------------------------------
\* A variant with one plausible slip: the arguments are read backwards from the third.
ArgumentsSwapped(ins, v) ==
    [k \in 1..2 |-> IF ins[4 - k] = Previous THEN v ELSE Atoi(ins[4 - k])]

----------------------------------------------------------------------------
\* The file is read as a whole; its last line may lack the newline.
Load ==
    /\ state = "open"
    /\ \E ls \in BoundedSeq(Lines, MaxInstructions), tail \in Lines \cup {<<>>} :
          /\ lines' = ls
          /\ file' = FlattenSeq([k \in DOMAIN ls |-> Append(ls[k], Newline)]) \o tail
    /\ state' = "index"
    /\ UNCHANGED <<index, i, prev, words, value>>

\* No argument, no such file, or no memory for it, the index or an instruction.
GiveUp ==
    /\ state \in {"open", "index", "parse"}
    /\ state' = "failed"
    /\ UNCHANGED <<file, index, i, prev, words, value, lines>>

\* Lines 63-74.
Index ==
    /\ state = "index"
    /\ LET ends == InOrder({k \in DOMAIN file : file[k] = Newline})
       IN  index' = [k \in DOMAIN ends |-> <<ends[k]>>]
    /\ state' = "parse"
    /\ UNCHANGED <<file, i, prev, words, value, lines>>

\* sscanf leaves an array alone that the line has no word for.
Scanned(line) == [k \in 1..3 |-> IF k \in DOMAIN line THEN line[k] ELSE words[k]]

\* The instruction takes the place of the line's end in the union.
Parse ==
    /\ state = "parse" /\ i \in DOMAIN index
    /\ LET next == index[i][1]
       IN  words' = Scanned(SubSeq(file, prev, next - 1)) /\ prev' = next + 1
    /\ index' = [index EXCEPT ![i] = words']
    /\ i' = i + 1
    /\ UNCHANGED <<file, value, state, lines>>

Parsed ==
    /\ state = "parse" /\ i \notin DOMAIN index
    /\ i' = 1 /\ state' = "run"
    /\ UNCHANGED <<file, index, prev, words, value, lines>>

Arguments(ins, v) ==
    [k \in 1..2 |-> IF ins[k + 1] = Previous THEN v ELSE Atoi(ins[k + 1])]

\* C rounds a quotient towards zero.
Quotient(a, b) == LET abs(x) == IF x < 0 THEN -x ELSE x
                      q      == abs(a) \div abs(b)
                  IN  IF (a < 0) = (b < 0) THEN q ELSE -q

\* A name that is none of the four changes nothing.
Result(ins, v) ==
    LET a == Arguments(ins, v)[1]
        b == Arguments(ins, v)[2]
    IN  CASE ins[1] = "ADD" -> a + b
          [] ins[1] = "SUB" -> a - b
          [] ins[1] = "MUL" -> a * b
          [] ins[1] = "DIV" -> Quotient(a, b)
          [] OTHER -> v

DividesByZero(ins, v) == ins[1] = "DIV" /\ Arguments(ins, v)[2] = 0
Unset(ins) == \E k \in 1..3 : ins[k] = Garbage

Run ==
    /\ state = "run" /\ i \in DOMAIN index
    /\ ~Unset(index[i]) /\ ~DividesByZero(index[i], value)
    /\ value' = Result(index[i], value)
    /\ i' = i + 1
    /\ UNCHANGED <<file, index, prev, words, state, lines>>

\* A word that no line has given, or a division by zero.
RunFaults ==
    /\ state = "run" /\ i \in DOMAIN index
    /\ Unset(index[i]) \/ DividesByZero(index[i], value)
    /\ state' = "fault"
    /\ UNCHANGED <<file, index, i, prev, words, value, lines>>

End ==
    /\ state = "run" /\ i \notin DOMAIN index
    /\ state' = "end"
    /\ UNCHANGED <<file, index, i, prev, words, value, lines>>

Next == Load \/ GiveUp \/ Index \/ Parse \/ Parsed \/ Run \/ RunFaults \/ End

----------------------------------------------------------------------------
\* The k-th line, each word it lacks taken from the last line before it that has one.
Meant(k) == [j \in 1..3 |-> lines[Max({m \in 1..k : Len(lines[m]) >= j})][j]]

\* What an instruction makes of the result before it.
Comes(m, v) ==
    LET arg(w) == IF w = Previous THEN v ELSE Atoi(w)
        a      == arg(m[2])
        b      == arg(m[3])
    IN  CASE m[1] = "ADD" -> a + b
          [] m[1] = "SUB" -> a - b
          [] m[1] = "MUL" -> a * b
          [] m[1] = "DIV" -> Quotient(a, b)
          [] OTHER -> v

\* What the first k lines come to.
Carried[k \in 0..Len(lines)] ==
    IF k = 0 THEN 0 ELSE Comes(Meant(k), Carried[k - 1])

\* The result printed is that of the lines in order, each % standing for the one before;
\* a last line that no newline ends is not carried out (line 64), and one that is short
\* repeats the words of those before it (line 85).
Delegated == state = "end" => value = Carried[Len(lines)]
============================================================================
