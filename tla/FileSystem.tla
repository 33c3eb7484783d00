----------------------------- MODULE FileSystem -----------------------------
(***************************************************************************)
(* ed-lesson-7/file_system.c: a shell over a tree of files (Tree.tla).     *)
(* The working directory is a stack of node pointers that rm must never    *)
(* leave dangling, and the line read last stays in its buffers: a line     *)
(* without an argument, or without anything, runs on what it finds there.  *)
(* One action is one turn of main's loop.                                  *)
(***************************************************************************)
EXTENDS Tree

CONSTANTS
    Words,              \* what a user may type after a command
    StackCapacity       \* a stack's slots (10 at line 39)

ASSUME FileSystemAssumption ==
    /\ StackCapacity \in Nat \ {0}
    /\ "" \notin Words
    /\ IsFiniteSet(Nodes)

VARIABLES
    file,               \* each node's name and directory flag
    stack,              \* dir_stack: the nodes from "~" to the working directory
    command, argument,  \* main's two buffers
    visited,            \* the search stack printed by the last command, <<>> if none
    state               \* "running", "bye", or "overrun": past the end of dir_stack

vars == <<live, kids, capacity, file, stack, command, argument, visited, state>>

File(name, dir) == [name |-> name, directory |-> dir]
Cwd == stack[Len(stack)]
NoFile == File("", FALSE)

Init ==
    /\ TreeInit
    /\ file = [n \in Nodes |-> IF n = Root THEN File("~", TRUE) ELSE NoFile]
    /\ stack = <<Root>>
    /\ command = "" /\ argument = ""
    /\ visited = <<>>
    /\ state = "running"

----------------------------------------------------------------------------
\* Variants of the definitions below, each with one plausible slip.

\* cd looks for the directory among the children of the root.
CdFromRoot(a) ==
    /\ a # ".."
    /\ \E c \in {c \in ToSet(kids[Root]) : file[c] = File(a, TRUE)} :
          IF Len(stack) = StackCapacity
          THEN state' = "overrun" /\ UNCHANGED stack
          ELSE stack' = Append(stack, c) /\ UNCHANGED state
    /\ UNCHANGED <<live, kids, capacity, file>> /\ visited' = <<>>

\* rm takes the directory first.
DoomedDirectoryFirst(a) ==
    LET named(dir) == {c \in ToSet(kids[Cwd]) : file[c] = File(a, dir)}
    IN  IF named(TRUE) # {} THEN named(TRUE) ELSE named(FALSE)

\* kill destroys the working directory only.
KillHere ==
    /\ DestroyTree(Cwd)
    /\ kids' = [m \in Nodes |-> IF m \in Subtree(Cwd) THEN <<>> ELSE kids[m]]
    /\ file' = [m \in Nodes |-> IF m \in Subtree(Cwd) THEN NoFile ELSE file[m]]
    /\ stack' = <<>> /\ state' = "bye"
    /\ visited' = <<>>

----------------------------------------------------------------------------
\* search_child: the child of p with this name and flag, as a set of at most one.
Child(name, dir, p) == {c \in ToSet(kids[p]) : file[c] = File(name, dir)}

\* search_descendant_helper from m, below being what it returns from m's children: whether
\* there is a match, and what the callers of the first one, in preorder, push on the way
\* back, those not called "~".
Result(hit, pushed) == [hit |-> hit, pushed |-> pushed]
Return(name, dir, below, m) ==
    LET hits == {i \in 1..Len(kids[m]) : below[kids[m][i]].hit}
        up == below[kids[m][Min(hits)]].pushed
    IN  IF file[m] = File(name, dir) THEN Result(TRUE, <<>>)
        ELSE IF hits = {} THEN Result(FALSE, <<>>)
        ELSE Result(TRUE, IF file[m].name = "~" THEN up ELSE Append(up, m))

\* The recursion, which is no deeper than the tree has nodes.
Helper(name, dir) ==
    LET H[k \in 0..Cardinality(Nodes)] ==
          [m \in Nodes |-> IF k = 0 THEN Result(FALSE, <<>>) ELSE Return(name, dir, H[k - 1], m)]
    IN  H[Cardinality(Nodes)]

\* search_descendant puts the start in first.
Visited(name, dir, n) ==
    LET found == Helper(name, dir)[n]
    IN  IF found.hit THEN <<n>> \o found.pushed ELSE <<>>

----------------------------------------------------------------------------
\* The bodies of the commands, run on the argument in the buffer.
NoSearch == visited' = <<>>
SameTree == UNCHANGED <<live, kids, capacity, file>>

CdUp(a) ==
    /\ a = ".."
    /\ stack' = IF Len(stack) = 1 THEN stack ELSE Front(stack)
    /\ SameTree /\ NoSearch /\ UNCHANGED state

CdDown(a) ==
    /\ a # ".."
    /\ \E c \in Child(a, TRUE, Cwd) :
          IF Len(stack) = StackCapacity
          THEN state' = "overrun" /\ UNCHANGED stack
          ELSE stack' = Append(stack, c) /\ UNCHANGED state
    /\ SameTree /\ NoSearch

CdNowhere(a) ==
    /\ a # ".." /\ Child(a, TRUE, Cwd) = {}
    /\ SameTree /\ NoSearch /\ UNCHANGED <<stack, state>>

Cd(a) == CdUp(a) \/ CdDown(a) \/ CdNowhere(a)

\* touch and mkdir
Make(a, dir) ==
    /\ IF a = "" \/ Child(a, dir, Cwd) # {}
       THEN SameTree
       ELSE \E n \in Nodes : AddNew(Cwd, n) /\ file' = [file EXCEPT ![n] = File(a, dir)]
    /\ NoSearch /\ UNCHANGED <<stack, state>>

\* rm: the file of that name, or else the directory.
Doomed(a) == IF Child(a, FALSE, Cwd) # {} THEN Child(a, FALSE, Cwd) ELSE Child(a, TRUE, Cwd)

Rm(a) ==
    /\ \/ a = "" /\ SameTree
       \/ Doomed(a) = {} /\ SameTree
       \/ \E c \in Doomed(a) :
             /\ RemoveChild(Cwd, c)
             /\ file' = [m \in Nodes |-> IF m \in Subtree(c) THEN NoFile ELSE file[m]]
    /\ NoSearch /\ UNCHANGED <<stack, state>>

\* ffind and dfind, from the working directory.
Find(a, dir) ==
    /\ IF a = "" THEN NoSearch ELSE visited' = Visited(a, dir, Cwd)
    /\ SameTree /\ UNCHANGED <<stack, state>>

\* kill: destroys the tree and the stack.
Kill ==
    /\ Destroy
    /\ file' = [m \in Nodes |-> IF m \in Hanging THEN NoFile ELSE file[m]]
    /\ stack' = <<>> /\ state' = "bye"
    /\ NoSearch

\* ls, an unknown word, or nothing typed yet: no state of the program changes.
Idle == SameTree /\ NoSearch /\ UNCHANGED <<stack, state>>

Do(c, a) ==
    \/ c = "cd" /\ Cd(a)
    \/ c = "touch" /\ Make(a, FALSE)
    \/ c = "mkdir" /\ Make(a, TRUE)
    \/ c = "rm" /\ Rm(a)
    \/ c = "ffind" /\ Find(a, FALSE)
    \/ c = "dfind" /\ Find(a, TRUE)
    \/ c = "kill" /\ Kill
    \/ c \in {"ls", ""} /\ Idle

Commands == {"ls", "cd", "touch", "mkdir", "rm", "ffind", "dfind", "kill"}

----------------------------------------------------------------------------
\* A line with a command and an argument.
TwoWords(c, a) ==
    /\ state = "running"
    /\ command' = c /\ argument' = a
    /\ Do(c, a)

\* A line with a command only: sscanf leaves the argument of an earlier line.
OneWord(c) ==
    /\ state = "running"
    /\ command' = c /\ UNCHANGED argument
    /\ Do(c, argument)

\* An empty line, or the end of the input (fgets then leaves the previous line in
\* prompt): after the message the previous command runs again.
NoWord ==
    /\ state = "running"
    /\ UNCHANGED <<command, argument>>
    /\ Do(command, argument)

Next ==
    \/ \E c \in Commands, a \in Words : TwoWords(c, a)
    \/ \E c \in Commands : OneWord(c)
    \/ NoWord

Spec == Init /\ [][Next]_vars

----------------------------------------------------------------------------
\* Every variable stays in its range.
TypeOK ==
    /\ TreeTypeOK
    /\ file \in [Nodes -> [name : Words \cup {"~", ""}, directory : BOOLEAN]]
    /\ stack \in Seq(Nodes) /\ (state = "running" => Len(stack) \in 1..StackCapacity)
    /\ command \in Commands \cup {""} /\ argument \in Words \cup {""}
    /\ visited \in Seq(Nodes)
    /\ state \in {"running", "bye", "overrun"}

\* The working directory's stack is always a way down from the root through nodes that
\* exist: no later command follows a pointer from it into freed memory (lines 53-57, 132).
StackIsAPath ==
    state = "running" =>
        /\ stack[1] = Root /\ Root \in live
        /\ \A i \in 1..(Len(stack) - 1) : stack[i + 1] \in ToSet(kids[stack[i]])

\* So the working directory never dangles, nor does a child pointer to a node that rm has
\* freed.  And a search never fills more than the slots of its own stack (lines 91-92,
\* unchecked), as long as the working directory's did not overrun: directories are made only
\* where cd could go, and the root is not pushed twice.
CwdIsAPath ==
    /\ TypeOK
    /\ NoDangling
    /\ StackIsAPath
    /\ Len(visited) <= StackCapacity

\* The shell is one of the clients Tree.tla allows: it adds fresh nodes to nodes of the
\* tree, removes children of the node it says, and destroys the whole.
UsesTree == TreeSpec

\* The nodes and pointers carry out the promise: a set of paths and a working directory.
NamesOf(s) == [i \in DOMAIN s |-> file[s[i]].name]
Parent(n) == CHOOSE p \in Nodes : n \in ToSet(kids[p])
Path(n) ==
    LET P[k \in 0..Cardinality(Nodes)] ==
          [m \in Nodes |-> IF k = 0 \/ m = Root THEN <<>>
                           ELSE Append(P[k - 1][Parent(m)], file[m].name)]
    IN  P[Cardinality(Nodes)][n]

Paths == INSTANCE Directory WITH
    Names <- Words,
    entries <- {[path |-> Path(n), directory |-> file[n].directory] : n \in Hanging \ {Root}},
    cwd <- IF stack = <<>> THEN <<>> ELSE Tail(NamesOf(stack))

ImplementsDirectory == Paths!Spec
============================================================================
