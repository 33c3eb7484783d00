--------------------------- MODULE BashSimulator ---------------------------
(***************************************************************************)
(* ed-lesson-8/bash-simulator.c: a shell that reads the terminal in pieces *)
(* of CLI_BUF bytes, puts the line together, takes it apart at blanks and  *)
(* runs it.  A line ends with a newline, or without one at a Ctrl-D.       *)
(***************************************************************************)
EXTENDS Ordered, SequencesExt, FiniteSetsExt

CONSTANTS
    Letters,            \* the characters of words
    CliBuf,             \* CLI_BUF
    MaxTyped,           \* bound: characters of a line before its end
    MaxShells           \* bound: children of failed commands that became shells

Blank == " "
Newline == "\n"
ExitCommand == <<"x">>      \* stands for "exit"
Programs == {<<"a">>}       \* what execvp finds

BashAssumption ==
    /\ CliBuf \in Nat \ {0} /\ MaxTyped \in Nat
    /\ Newline \notin Letters /\ Newline # Blank

VARIABLES
    pc,
    tty,                \* what the terminal still holds of a line
    typing,             \* whether there is something to read, be it an end of file
    buf,                \* stdin_buf, its buf_len bytes
    text,               \* line, without the bytes that are still in buf
    argv,               \* args, without the NULL
    shells,             \* how many shells wait for the one at the terminal
    typed               \* history: what was typed, or left to read, since the prompt

vars == <<pc, tty, typing, buf, text, argv, shells, typed>>

Init ==
    /\ pc = "read"
    /\ tty = <<>> /\ typing = FALSE
    /\ buf = <<>> /\ text = <<>> /\ argv = <<>>
    /\ shells = 0
    /\ typed = <<>>

----------------------------------------------------------------------------
\* Line 36: the piece is full and has no newline.
MoreToCome == Len(buf) = CliBuf /\ ~Contains(buf, Newline)

\* Lines 57-96.  A word begins after a blank or at the start; it ends before the next
\* blank, and the last one before the line's last byte, taken for its newline.
WordStarts(l) == {i \in DOMAIN l : l[i] # Blank /\ (i = 1 \/ l[i - 1] = Blank)}
WordFrom(l, i) ==
    LET blanks == {j \in i..Len(l) : l[j] = Blank}
    IN  SubSeq(l, i, (IF blanks = {} THEN Len(l) ELSE Min(blanks)) - 1)
Words(l) ==
    LET starts == InOrder(WordStarts(l))
    IN  [k \in DOMAIN starts |-> WordFrom(l, starts[k])]

----------------------------------------------------------------------------
\* The next iteration begins with its own stdin_buf, line and args.
Prompt ==
    /\ pc' = "read"
    /\ buf' = <<>> /\ text' = <<>> /\ argv' = <<>> /\ typed' = tty
    /\ UNCHANGED <<tty, typing>>

\* This shell ends, and the one that waits for it goes on.
ShellEnds ==
    \/ shells = 0 /\ pc' = "ended" /\ UNCHANGED <<tty, typing, buf, text, argv, shells, typed>>
    \/ shells > 0 /\ shells' = shells - 1 /\ Prompt

----------------------------------------------------------------------------
\* A variant with one plausible slip: the next piece is read over the last.
ReadMoreOver ==
    /\ pc = "loop" /\ MoreToCome
    /\ typing
    /\ \E n \in {Min({CliBuf, Len(tty)})} :
          /\ buf' = SubSeq(tty, 1, n) /\ tty' = SubSeq(tty, n + 1, Len(tty))
          /\ text' = text \o buf'
          /\ typing' = (tty' # <<>>)
          /\ pc' = IF n = 0 THEN "parse" ELSE "loop"
    /\ UNCHANGED <<argv, shells, typed>>

----------------------------------------------------------------------------
\* The user ends a line with Enter or Ctrl-D.
Type(l) ==
    /\ pc \in {"read", "loop"} /\ ~typing
    /\ pc = "loop" => MoreToCome /\ Len(typed) + Len(l) <= MaxTyped + 1
    /\ tty' = l /\ typing' = TRUE
    /\ typed' = typed \o l
    /\ UNCHANGED <<pc, buf, text, argv, shells>>

\* read(STDIN_FILENO, stdin_buf, CLI_BUF): at most a piece, at most what is there.
ReadPiece ==
    LET n == Min({CliBuf, Len(tty)})
    IN  /\ typing
        /\ buf' = SubSeq(tty, 1, n)
        /\ tty' = SubSeq(tty, n + 1, Len(tty))
        /\ typing' = (tty' # <<>>)

\* Nothing read at the prompt: a newline is printed and the loop goes on.
ReadFirst ==
    /\ pc = "read"
    /\ ReadPiece
    /\ pc' = IF buf' = <<>> THEN "read" ELSE "loop"
    /\ UNCHANGED <<text, argv, shells, typed>>

\* The piece is copied behind the others before the next is read over it.
ReadMore ==
    /\ pc = "loop" /\ MoreToCome
    /\ ReadPiece
    /\ text' = text \o buf
    /\ pc' = IF buf' = <<>> THEN "parse" ELSE "loop"
    /\ UNCHANGED <<argv, shells, typed>>

Parse ==
    /\ pc = "parse" \/ (pc = "loop" /\ ~MoreToCome)
    /\ argv' = Words(text \o buf)
    /\ pc' = "run"
    /\ UNCHANGED <<tty, typing, buf, text, shells, typed>>

\* No memory, or a read that fails: its -1 becomes the largest size_t.
GiveUp ==
    /\ pc \in {"read", "loop", "parse"}
    /\ ShellEnds

\* exit; and the crash on blanks without a newline, when strcmp meets args[0], a NULL.
RunExit ==
    /\ pc = "run"
    /\ argv = <<>> \/ (argv # <<>> /\ argv[1] = ExitCommand)
    /\ ShellEnds

\* A program runs to its end, or fork fails.
RunProgram ==
    /\ pc = "run" /\ argv # <<>> /\ argv[1] # ExitCommand
    /\ Prompt /\ UNCHANGED shells

\* execvp finds no such program: the child goes on as a shell, its parent waits for it.
RunFails ==
    /\ pc = "run" /\ argv # <<>> /\ argv[1] \notin Programs \cup {ExitCommand}
    /\ shells < MaxShells
    /\ shells' = shells + 1
    /\ Prompt

Lines ==
    LET ls == BoundedSeq(Letters \cup {Blank}, MaxTyped)
    IN  ls \cup {Append(l, Newline) : l \in ls}

Next ==
    \/ \E l \in Lines : Type(l)
    \/ ReadFirst \/ ReadMore \/ Parse
    \/ GiveUp \/ RunExit \/ RunProgram \/ RunFails

----------------------------------------------------------------------------
\* The i-th to the j-th byte of l are a word: between blanks, or l's ends, and without any.
IsWord(l, i, j) ==
    /\ i \in WordStarts(l) /\ j \in i..Len(l)
    /\ \A m \in i..j : l[m] # Blank
    /\ j = Len(l) \/ l[j + 1] = Blank

\* The words of l in order, with one empty word more when there is nothing in it or a blank
\* at its end (line 84 takes the last word to end in the newline).
TakenApart(l, args) ==
    LET starts == WordStarts(l)
        empty  == l = <<>> \/ Last(l) = Blank
    IN  /\ Len(args) = Cardinality(starts) + (IF empty THEN 1 ELSE 0)
        /\ empty => Last(args) = <<>>
        /\ \A i, j \in DOMAIN l : IsWord(l, i, j) =>
              args[Cardinality({m \in starts : m <= i})] = SubSeq(l, i, j)

\* However the terminal's bytes fall into pieces, a line ended by Enter is taken apart into
\* its words.
ArgsAreWords ==
    pc = "run" /\ typed # <<>> /\ Last(typed) = Newline => TakenApart(Front(typed), argv)
============================================================================
