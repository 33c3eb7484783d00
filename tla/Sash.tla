-------------------------------- MODULE Sash --------------------------------
(***************************************************************************)
(* ed-lesson-9/bash_2/sash.c: a shell that runs the commands of a line as  *)
(* a pipeline.  Every process inherits the ends of pipes its parent held   *)
(* at the fork, and nobody but the shell closes any; a child whose execvp  *)
(* fails returns from spawn_child and goes on as a second shell, in the    *)
(* middle of the same loop.  The commands themselves are not the           *)
(* repository's: "emit" writes Items lines, "filter" copies what it reads, *)
(* "head" copies one line and leaves; no other name exists.                *)
(***************************************************************************)
EXTENDS Integers, Sequences, FiniteSets, SequencesExt

CONSTANTS
    Pids,               \* process ids
    Shell,              \* the first shell's
    Pipes,              \* the pipes the kernel can give out
    Lines,              \* the lines a user may type: sequences of words, "|", " " and,
                        \* at the end, "\n"
    MaxLines,           \* bound on the lines typed before the end of the input
    Items,              \* the lines "emit" writes
    Capacity,           \* of a pipe, in lines
    MaxForkFailures     \* bound on failing forks

NoPid == 0              \* what spawn_child returns when fork fails, or in the child
Tty == "tty"            \* what stdin and stdout of the first shell are open on

Programs == {"emit", "filter", "head"}

----------------------------------------------------------------------------
\* commands.c

\* strtok in a loop: the runs of s without the delimiter d, none of them empty.
Runs(s, d) ==
    LET starts == {i \in DOMAIN s : s[i] # d /\ (i = 1 \/ s[i - 1] = d)}
        last(i) == CHOOSE j \in i .. Len(s) : /\ \A k \in i .. j : s[k] # d
                                              /\ j = Len(s) \/ s[j + 1] = d
        first  == SetToSortSeq(starts, <)
    IN  [n \in DOMAIN first |-> SubSeq(s, first[n], last(first[n]))]

\* The name of a command: its first word.  The newline is a character like others when
\* the line is taken apart, and is then overwritten in place: alone it leaves an empty
\* name.  A command without a word has no name, which execvp refuses as well.
CommandName(sentence) ==
    LET words == Runs(sentence, " ")
    IN  IF words = <<>> \/ words[1][1] = "\n" THEN "" ELSE words[1][1]

\* deconstruct_command, as the names of its commands.
Deconstructed(line) ==
    LET sentences == Runs(line, "|") IN [n \in DOMAIN sentences |-> CommandName(sentences[n])]

\* A shell reads its lines from a terminal: they end with a newline, which leaves a word at
\* least, and only a command that starts a line may not exist (the others have a pipe for a
\* terminal).
ASSUME SashAssumption ==
    /\ Shell \in Pids /\ NoPid \notin Pids /\ Tty \notin Pipes
    /\ \A l \in Lines : /\ l # <<>> /\ l[Len(l)] = "\n"
                        /\ Deconstructed(l) \in Seq(STRING) /\ Deconstructed(l) # <<>>
                        /\ \A i \in 2..Len(Deconstructed(l)) : Deconstructed(l)[i] \in Programs
    /\ MaxLines \in Nat /\ Items \in Nat /\ Capacity \in Nat \ {0} /\ MaxForkFailures \in Nat

----------------------------------------------------------------------------
VARIABLES
    kind,               \* "none", "shell", "forked" (before execvp), "program", "zombie"
    parent,
    in, out,            \* what descriptors 0 and 1 of a process are open on
    ends,               \* the other pipe ends it holds: <<"r", pipe>>, <<"w", pipe>>
    sh,                 \* the shell variables of a process, copied by fork
    left,               \* lines a program has still to write
    quota,              \* lines a program will still read
    data,               \* lines in each pipe
    printed,            \* lines that reached the terminal since the last line typed
    typed, failures     \* lines typed, and forks that failed

vars == <<kind, parent, in, out, ends, sh, left, quota, data, printed, typed, failures>>

\* main's variables: the place in the loop, commands, i, last_input_fd, pipefd, children.
Idle == [pc |-> "prompt", line |-> <<>>, i |-> 1, last |-> Tty, pipe |-> Tty, kids |-> <<>>]

Init ==
    /\ kind = [p \in Pids |-> IF p = Shell THEN "shell" ELSE "none"]
    /\ parent = [p \in Pids |-> NoPid]
    /\ in = [p \in Pids |-> Tty] /\ out = [p \in Pids |-> Tty]
    /\ ends = [p \in Pids |-> {}]
    /\ sh = [p \in Pids |-> Idle]
    /\ left = [p \in Pids |-> 0] /\ quota = [p \in Pids |-> 0]
    /\ data = [q \in Pipes |-> 0]
    /\ printed = 0 /\ typed = 0 /\ failures = 0

Alive(p) == kind[p] \in {"shell", "forked", "program"}
Readers(q) == {p \in Pids : Alive(p) /\ (in[p] = q \/ <<"r", q>> \in ends[p])}
Writers(q) == {p \in Pids : Alive(p) /\ (out[p] = q \/ <<"w", q>> \in ends[p])}

At(p, pc) == kind[p] = "shell" /\ sh[p].pc = pc
IsLast(p) == sh[p].i = Len(sh[p].line)

----------------------------------------------------------------------------
\* Variants of the definitions below, each with one plausible slip.

\* The shell keeps the write end of the pipe it made.
CloseReadOnly(p) ==
    /\ At(p, "close")
    /\ ends' = [ends EXCEPT ![p] = @ \ {<<"r", sh[p].last>>}]
    /\ sh' = [sh EXCEPT ![p] = IF IsLast(p)
                               THEN [sh[p] EXCEPT !.pc = "wait", !.i = 1]
                               ELSE [sh[p] EXCEPT !.pc = "spawn", !.i = @ + 1, !.last = sh[p].pipe]]
    /\ UNCHANGED <<kind, parent, in, out, left, quota, data, printed, typed, failures>>

\* The shell keeps the read ends.
CloseWriteOnly(p) ==
    /\ At(p, "close")
    /\ ends' = [ends EXCEPT ![p] = @ \ {<<"w", sh[p].pipe>>}]
    /\ sh' = [sh EXCEPT ![p] = IF IsLast(p)
                               THEN [sh[p] EXCEPT !.pc = "wait", !.i = 1]
                               ELSE [sh[p] EXCEPT !.pc = "spawn", !.i = @ + 1, !.last = sh[p].pipe]]
    /\ UNCHANGED <<kind, parent, in, out, left, quota, data, printed, typed, failures>>

\* The child's output stays the terminal.
NoDupOut(p) == Tty

----------------------------------------------------------------------------
\* The shell.

\* getline: a line typed, taken apart.
GetLine(p) ==
    /\ At(p, "prompt") /\ in[p] = Tty /\ typed < MaxLines
    /\ \E l \in Lines :
          sh' = [sh EXCEPT ![p] = [Idle EXCEPT !.pc = "spawn", !.line = Deconstructed(l)]]
    /\ typed' = typed + 1 /\ printed' = 0
    /\ UNCHANGED <<kind, parent, in, out, ends, left, quota, data, failures>>

\* The end of the input: the shell returns from main.
Eof(p) ==
    /\ At(p, "prompt") /\ in[p] = Tty /\ typed = MaxLines
    /\ kind' = [kind EXCEPT ![p] = "zombie"]
    /\ ends' = [ends EXCEPT ![p] = {}]
    /\ UNCHANGED <<parent, in, out, sh, left, quota, data, printed, typed, failures>>

\* pipe(pipefd), before every command but the last.
MakePipe(p) ==
    /\ At(p, "spawn") /\ ~IsLast(p)
    /\ \E q \in Pipes :
          /\ Readers(q) = {} /\ Writers(q) = {}
          /\ ends' = [ends EXCEPT ![p] = @ \cup {<<"r", q>>, <<"w", q>>}]
          /\ data' = [data EXCEPT ![q] = 0]
          /\ sh' = [sh EXCEPT ![p].pc = "fork", ![p].pipe = q]
    /\ UNCHANGED <<kind, parent, in, out, left, quota, printed, typed, failures>>

MayFork(p) == At(p, "fork") \/ (At(p, "spawn") /\ IsLast(p))

\* dup2(in_num, 0) and dup2(out_num, 1) in the child
DupIn(p) == IF sh[p].last = Tty THEN in[p] ELSE sh[p].last
DupOut(p) == IF IsLast(p) THEN out[p] ELSE sh[p].pipe

\* spawn_child: the child gets a copy of everything, and its two descriptors.
Fork(p) ==
    /\ MayFork(p)
    /\ \E c \in Pids :
          /\ kind[c] = "none"
          /\ kind' = [kind EXCEPT ![c] = "forked"]
          /\ parent' = [parent EXCEPT ![c] = p]
          /\ in' = [in EXCEPT ![c] = DupIn(p)]
          /\ out' = [out EXCEPT ![c] = DupOut(p)]
          /\ ends' = [ends EXCEPT ![c] = ends[p]]
          /\ sh' = [sh EXCEPT ![p].pc = "close", ![p].kids = Append(@, c),
                              ![c] = [sh[p] EXCEPT !.pc = "close", !.kids = Append(@, NoPid)]]
    /\ UNCHANGED <<left, quota, data, printed, typed, failures>>

\* fork fails: spawn_child returns 0, and the loop goes on.
ForkFails(p) ==
    /\ MayFork(p) /\ failures < MaxForkFailures
    /\ failures' = failures + 1
    /\ sh' = [sh EXCEPT ![p].pc = "close", ![p].kids = Append(@, NoPid)]
    /\ UNCHANGED <<kind, parent, in, out, ends, left, quota, data, printed, typed>>

\* After a child: close the read end it was given and the write end of the new pipe.
Close(p) ==
    /\ At(p, "close")
    /\ ends' = [ends EXCEPT ![p] = @ \ {<<"r", sh[p].last>>,
                                        <<"w", IF IsLast(p) THEN Tty ELSE sh[p].pipe>>}]
    /\ sh' = [sh EXCEPT ![p] = IF IsLast(p)
                               THEN [sh[p] EXCEPT !.pc = "wait", !.i = 1]
                               ELSE [sh[p] EXCEPT !.pc = "spawn", !.i = @ + 1, !.last = sh[p].pipe]]
    /\ UNCHANGED <<kind, parent, in, out, left, quota, data, printed, typed, failures>>

Children(p) == {c \in Pids : parent[c] = p /\ kind[c] # "none"}

\* waitpid(children[i]): waits for that child, for any child if it is 0, and returns at
\* once when there is none to wait for.
Wait(p) ==
    /\ At(p, "wait") /\ sh[p].i <= Len(sh[p].kids)
    /\ LET k == sh[p].kids[sh[p].i]
           awaited == IF k = NoPid THEN Children(p) ELSE {k} \cap Children(p)
       IN  \/ awaited = {} /\ UNCHANGED kind
           \/ \E c \in awaited : kind[c] = "zombie" /\ kind' = [kind EXCEPT ![c] = "none"]
    /\ sh' = [sh EXCEPT ![p].i = @ + 1]
    /\ UNCHANGED <<parent, in, out, ends, left, quota, data, printed, typed, failures>>

\* The line is done: free, and prompt again.
Prompt(p) ==
    /\ At(p, "wait") /\ sh[p].i > Len(sh[p].kids)
    /\ sh' = [sh EXCEPT ![p] = Idle]
    /\ UNCHANGED <<kind, parent, in, out, ends, left, quota, data, printed, typed, failures>>

----------------------------------------------------------------------------
\* The children.
Command(c) == sh[c].line[sh[c].i]

Exec(c) ==
    /\ kind[c] = "forked" /\ Command(c) \in Programs
    /\ kind' = [kind EXCEPT ![c] = "program"]
    /\ left' = [left EXCEPT ![c] = IF Command(c) = "emit" THEN Items ELSE 0]
    /\ quota' = [quota EXCEPT ![c] = CASE Command(c) = "head" -> 1
                                       [] Command(c) = "emit" -> 0
                                       [] OTHER -> Items + 1]
    /\ UNCHANGED <<parent, in, out, ends, sh, data, printed, typed, failures>>

\* execvp returns: so does spawn_child, with pid 0, and the child is a shell.
ExecFails(c) ==
    /\ kind[c] = "forked" /\ Command(c) \notin Programs
    /\ kind' = [kind EXCEPT ![c] = "shell"]
    /\ UNCHANGED <<parent, in, out, ends, sh, left, quota, data, printed, typed, failures>>

Read(c) ==
    /\ kind[c] = "program" /\ left[c] = 0 /\ quota[c] > 0
    /\ in[c] \in Pipes /\ data[in[c]] > 0
    /\ data' = [data EXCEPT ![in[c]] = @ - 1]
    /\ left' = [left EXCEPT ![c] = 1] /\ quota' = [quota EXCEPT ![c] = @ - 1]
    /\ UNCHANGED <<kind, parent, in, out, ends, sh, printed, typed, failures>>

Write(c) ==
    /\ kind[c] = "program" /\ left[c] > 0
    /\ \/ out[c] = Tty /\ printed' = printed + 1 /\ UNCHANGED data
       \/ /\ out[c] \in Pipes /\ Readers(out[c]) # {} /\ data[out[c]] < Capacity
          /\ data' = [data EXCEPT ![out[c]] = @ + 1] /\ UNCHANGED printed
    /\ left' = [left EXCEPT ![c] = @ - 1]
    /\ UNCHANGED <<kind, parent, in, out, ends, sh, quota, typed, failures>>

\* A program ends when it has written all and wants, or can get, no more; or by SIGPIPE.
Finished(c) ==
    \/ left[c] = 0 /\ quota[c] = 0
    \/ left[c] = 0 /\ in[c] = Tty
    \/ left[c] = 0 /\ in[c] \in Pipes /\ data[in[c]] = 0 /\ Writers(in[c]) = {}
    \/ left[c] > 0 /\ out[c] \in Pipes /\ Readers(out[c]) = {}

Exit(c) ==
    /\ kind[c] = "program" /\ Finished(c)
    /\ kind' = [kind EXCEPT ![c] = "zombie"]
    /\ ends' = [ends EXCEPT ![c] = {}]
    /\ UNCHANGED <<parent, in, out, sh, left, quota, data, printed, typed, failures>>

----------------------------------------------------------------------------
ShellStep(p) ==
    \/ GetLine(p) \/ Eof(p) \/ MakePipe(p) \/ Fork(p) \/ ForkFails(p)
    \/ Close(p) \/ Wait(p) \/ Prompt(p)

ProgramStep(c) == Exec(c) \/ ExecFails(c) \/ Read(c) \/ Write(c) \/ Exit(c)

Next == \E p \in Pids : ShellStep(p) \/ ProgramStep(p)

Spec == Init /\ [][Next]_vars

\* Every process that can take a step is scheduled.
FairSpec == Spec /\ \A p \in Pids : WF_vars(ShellStep(p) \/ ProgramStep(p))

----------------------------------------------------------------------------
\* Every variable stays in its range.
TypeOK ==
    /\ kind \in [Pids -> {"none", "shell", "forked", "program", "zombie"}]
    /\ parent \in [Pids -> Pids \cup {NoPid}]
    /\ in \in [Pids -> Pipes \cup {Tty}] /\ out \in [Pids -> Pipes \cup {Tty}]
    /\ ends \in [Pids -> SUBSET ({"r", "w"} \X Pipes)]
    /\ left \in [Pids -> 0..Items] /\ quota \in [Pids -> 0..(Items + 1)]
    /\ data \in [Pipes -> 0..Capacity]
    /\ typed \in 0..MaxLines /\ failures \in 0..MaxForkFailures

\* At the prompt the first shell holds no end of a pipe, and every child it made for the
\* line is gone, whichever fork failed: no descriptor and no zombie piles up (lines 92-107).
\* A child that became a shell does not compete with it for the terminal: whoever waits for
\* that child does so in waitpid (line 106).
PromptIsClean ==
    /\ TypeOK
    /\ \A p, q \in Pids : At(p, "prompt") /\ At(q, "prompt") => p = q
    /\ At(Shell, "prompt") => ends[Shell] = {} /\ Children(Shell) = {}

\* What a command lets through of n lines, and what the first n commands of a line do.
Passed(name, n) ==
    CASE name = "emit" -> Items
      [] name = "head" -> IF n = 0 THEN 0 ELSE 1
      [] OTHER -> n

Through(line, n) ==
    LET f[k \in 0..Len(line)] == IF k = 0 THEN 0 ELSE Passed(line[k], f[k - 1]) IN f[n]

\* What has reached the terminal by the next prompt is what the pipeline lets through, unless a
\* fork failed for it or its first command does not exist (lines 79-103).
PipedThrough ==
    LET f == sh[Shell]
    IN  At(Shell, "wait") /\ f.i > Len(f.kids) =>
            \/ f.line[1] \notin Programs
            \/ \E n \in DOMAIN f.kids : f.kids[n] = NoPid
            \/ printed = Through(f.line, Len(f.line))

\* A command is waiting for room in a pipe of which it alone holds a read end: the one it
\* inherited (line 87 before 91).  It gets no SIGPIPE.
OwnPipeStall ==
    \E c \in Pids : /\ kind[c] = "program" /\ left[c] > 0
                    /\ out[c] \in Pipes /\ data[out[c]] = Capacity
                    /\ Readers(out[c]) = {c}

\* Every line typed is followed by another prompt, or the shell waits for a command that
\* stalls on its own pipe.
PromptsAgain == sh[Shell].pc = "spawn" ~> (sh[Shell].pc = "prompt" \/ OwnPipeStall)

\* "Spawn children, one for each command in the command array" (lines 79-80)
OneForEach ==
    \A c, d \in Pids :
        kind[c] = "program" /\ kind[d] = "program" /\ sh[c].i = sh[d].i => c = d
============================================================================
