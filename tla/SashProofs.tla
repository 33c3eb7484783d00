----------------------------- MODULE SashProofs -----------------------------
(***************************************************************************)
(* The shell of Sash.tla for every set of lines, processes and pipes: the  *)
(* prompt leaves nothing behind, whichever forks fail and however many     *)
(* children have become shells; and by then the terminal has what the      *)
(* pipeline lets through.                                                  *)
(***************************************************************************)
EXTENDS Sash, SequenceTheorems, WellFoundedInduction, TLAPS

Labels == {"prompt", "spawn", "fork", "close", "wait"}
Descriptors == Pipes \cup {Tty}

\* The values of main's variables.
Frames == [pc : Labels, line : Seq(STRING), i : Nat \ {0}, last : Descriptors,
           pipe : Descriptors, kids : Seq(Pids \cup {NoPid})]

\* Where a shell stands in its line: one entry of children for every command spawned, and a
\* pipe of its own while there is a command to come.
Consistent(f) ==
    /\ f.pc = "prompt" => f.kids = <<>>
    /\ f.pc \in {"spawn", "fork"} => Len(f.kids) = f.i - 1
    /\ f.pc = "close" => Len(f.kids) = f.i
    /\ f.pc \in {"spawn", "fork", "close"} =>
          f.i <= Len(f.line) /\ \A n \in 2..Len(f.line) : f.line[n] \in Programs
    /\ f.pc = "fork" => f.i < Len(f.line)
    /\ f.pc \in {"fork", "close"} /\ f.i < Len(f.line) => f.pipe \in Pipes /\ f.pipe # f.last

\* The ends of pipes it holds there.
Inherited(f) == IF f.last = Tty THEN {} ELSE {<<"r", f.last>>}
Own(f) == {<<"r", f.pipe>>, <<"w", f.pipe>>}
Held(f) ==
    IF f.pc \in {"prompt", "wait"} THEN {}
    ELSE IF f.pc = "spawn" \/ f.i = Len(f.line) THEN Inherited(f) ELSE Inherited(f) \cup Own(f)

\* A process in the code of the shell holds what its place says, and nothing else.
Placed ==
    \A p \in Pids : kind[p] \in {"shell", "forked"} =>
        /\ Consistent(sh[p]) /\ ends[p] = Held(sh[p])
        /\ kind[p] = "forked" => sh[p].pc = "close"

\* Every process but the first is the child of a shell that has still to wait for it.
Awaited(p, c) ==
    \E n \in 1..Len(sh[p].kids) : sh[p].kids[n] = c /\ (sh[p].pc = "wait" => n >= sh[p].i)

Family ==
    /\ parent[Shell] = NoPid /\ kind[Shell] \in {"shell", "zombie"}
    /\ \A c \in Pids \ {Shell} : kind[c] # "none" =>
          parent[c] \in Pids /\ kind[parent[c]] = "shell" /\ Awaited(parent[c], c)

\* Only the first child for a line can become a shell.
First(p) == IF sh[p].kids = <<>> THEN NoPid ELSE sh[p].kids[1]

Heirs ==
    \A c \in Pids \ {Shell} :
        /\ kind[c] = "shell" => First(parent[c]) = c
        /\ kind[c] = "forked" => sh[c].i <= Len(sh[parent[c]].kids)
                                 /\ sh[parent[c]].kids[sh[c].i] = c

\* Of the shells one at most has no shell for a child: the others wait for theirs.
Leads(p) == First(p) \in Pids /\ kind[First(p)] = "shell" /\ parent[First(p)] = p
OneFront == \A p, q \in Pids : kind[p] = "shell" /\ kind[q] = "shell" /\ ~Leads(p) /\ ~Leads(q) => p = q

\* Where "emit" writes nothing, nothing flows.
Dry == Items = 0 => (\A p \in Pids : left[p] = 0) /\ (\A q \in Pipes : data[q] = 0)

SashInv == TypeOK /\ sh \in [Pids -> Frames] /\ Dry /\ Placed /\ Family /\ Heirs /\ OneFront

----------------------------------------------------------------------------
\* The first shell, at its prompt.
LEMMA InitSash == Init => SashInv
  <1> SUFFICES ASSUME Init PROVE SashInv
    OBVIOUS
  <1> USE SashAssumption DEF Init, Idle
  <1>1. TypeOK
    BY DEF TypeOK
  <1>2. sh \in [Pids -> Frames]
    <2>1. <<>> \in Seq(STRING) /\ <<>> \in Seq(Pids \cup {NoPid})
      OBVIOUS
    <2>2. Idle \in Frames
      BY <2>1 DEF Frames, Labels, Descriptors
    <2> QED
      BY <2>2
  <1>3. Placed
    BY DEF Placed, Consistent, Held
  <1>4. Family /\ Heirs /\ OneFront
    BY DEF Family, Heirs, OneFront
  <1>5. Dry
    BY DEF Dry
  <1> QED
    BY <1>1, <1>2, <1>3, <1>4, <1>5 DEF SashInv

\* What a step of one shell does to the families of processes: it changes its own variables
\* only, at most one of its children leaves, and it forgets none that it has still to wait for.
LEMMA ShellMoves ==
  ASSUME SashInv, NEW p \in Pids, kind[p] = "shell", NEW g \in Frames,
         sh' = [sh EXCEPT ![p] = g], parent' = parent,
         \A c \in Pids : \/ kind'[c] = kind[c]
                         \/ c # Shell /\ kind[c] = "zombie" /\ kind'[c] = "none",
         ends' = [ends EXCEPT ![p] = Held(g)], Consistent(g),
         \A c \in Pids : kind'[c] # "none" /\ parent[c] = p =>
            \E n \in 1..Len(g.kids) : g.kids[n] = c /\ (g.pc = "wait" => n >= g.i),
         \/ g.kids = sh[p].kids
         \/ g.kids = Append(sh[p].kids, NoPid)
         \/ g.kids = <<>> /\ \A c \in Pids : kind[c] # "none" => parent[c] # p
  PROVE  Placed' /\ Family' /\ Heirs' /\ OneFront'
  <1> USE SashAssumption
  <1>1. /\ sh \in [Pids -> Frames] /\ ends \in [Pids -> SUBSET ({"r", "w"} \X Pipes)]
        /\ sh'[p] = g /\ \A q \in Pids \ {p} : sh'[q] = sh[q] /\ ends'[q] = ends[q]
        /\ ends'[p] = Held(g)
    BY DEF SashInv, TypeOK
  <1>2. sh[p].kids \in Seq(Pids \cup {NoPid}) /\ g.kids \in Seq(Pids \cup {NoPid})
    BY <1>1 DEF Frames
  <1>3. \A n \in 1..Len(sh[p].kids) : sh[p].kids[n] \in Pids /\ parent[sh[p].kids[n]] = p
                                      /\ kind[sh[p].kids[n]] # "none" =>
           n <= Len(g.kids) /\ g.kids[n] = sh[p].kids[n]
    BY <1>2
  <1>4. Placed'
    BY <1>1 DEF SashInv, Placed
  <1>5. Family'
    <2>1. parent'[Shell] = NoPid /\ kind'[Shell] \in {"shell", "zombie"}
      BY DEF SashInv, Family
    <2>2. ASSUME NEW c \in Pids \ {Shell}, kind'[c] # "none"
          PROVE  /\ parent'[c] \in Pids /\ kind'[parent'[c]] = "shell"
                 /\ \E n \in 1..Len(sh'[parent'[c]].kids) :
                       /\ sh'[parent'[c]].kids[n] = c
                       /\ sh'[parent'[c]].pc = "wait" => n >= sh'[parent'[c]].i
      <3>1. parent[c] \in Pids /\ kind[parent[c]] = "shell" /\ Awaited(parent[c], c)
        BY <2>2 DEF SashInv, Family
      <3> QED
        BY <1>1, <2>2, <3>1 DEF Awaited
    <2> QED
      BY <2>1, <2>2 DEF Family, Awaited
  <1>6. \A q \in Pids : First(q)' \in Pids /\ parent[First(q)'] = q /\ kind[First(q)'] # "none" =>
                        First(q)' = First(q)
    <2> SUFFICES ASSUME First(p)' \in Pids, parent[First(p)'] = p, kind[First(p)'] # "none"
                 PROVE  First(p)' = First(p)
      BY <1>1 DEF First
    <2>1. First(p)' = IF g.kids = <<>> THEN NoPid ELSE g.kids[1]
      BY <1>1 DEF First
    <2> QED
      BY <1>2, <2>1 DEF First
  <1>7. \A q \in Pids : First(q) \in Pids /\ parent[First(q)] = q /\ kind[First(q)] # "none" =>
                        First(q)' = First(q)
    <2> SUFFICES ASSUME First(p) \in Pids, parent[First(p)] = p, kind[First(p)] # "none"
                 PROVE  First(p)' = First(p)
      BY <1>1 DEF First
    <2>1. First(p)' = IF g.kids = <<>> THEN NoPid ELSE g.kids[1]
      BY <1>1 DEF First
    <2>2. sh[p].kids # <<>> /\ First(p) = sh[p].kids[1]
      BY DEF First
    <2> QED
      BY <1>2, <1>3, <2>1, <2>2
  <1>8. Heirs'
    <2> SUFFICES ASSUME NEW c \in Pids \ {Shell}
                 PROVE  /\ kind'[c] = "shell" => First(parent[c])' = c
                        /\ kind'[c] = "forked" => sh'[c].i <= Len(sh'[parent[c]].kids)
                                                  /\ sh'[parent[c]].kids[sh'[c].i] = c
      BY DEF Heirs
    <2>1. ASSUME kind'[c] = "shell" PROVE First(parent[c])' = c
      BY <1>7, <2>1 DEF SashInv, Heirs, Family
    <2>2. ASSUME kind'[c] = "forked"
          PROVE  sh'[c].i <= Len(sh'[parent[c]].kids) /\ sh'[parent[c]].kids[sh'[c].i] = c
      <3>1. /\ kind[c] = "forked" /\ c # p /\ sh'[c] = sh[c] /\ parent[c] \in Pids
            /\ sh[c].i \in Nat \ {0}
        BY <1>1, <2>2 DEF SashInv, Family, Frames
      <3>2. sh[c].i <= Len(sh[parent[c]].kids) /\ sh[parent[c]].kids[sh[c].i] = c
        BY <3>1 DEF SashInv, Heirs
      <3> QED
        BY <1>1, <1>2, <1>3, <3>1, <3>2
    <2> QED
      BY <2>1, <2>2
  <1>9. OneFront'
    <2>1. ASSUME NEW q \in Pids, kind'[q] = "shell", ~Leads(q)' PROVE kind[q] = "shell" /\ ~Leads(q)
      BY <1>7, <2>1 DEF Leads
    <2> QED
      BY <2>1 DEF SashInv, OneFront
  <1> QED
    BY <1>4, <1>5, <1>8, <1>9

\* The end of the children's programs, and their work, is no change to the shells.
LEMMA ProgramMoves ==
  ASSUME SashInv, UNCHANGED <<sh, parent>>,
         \A c \in Pids : \/ kind'[c] = kind[c] /\ ends'[c] = ends[c]
                         \/ kind[c] \in {"forked", "program"} /\ kind'[c] \in {"program", "zombie"}
  PROVE  Placed' /\ Family' /\ Heirs' /\ OneFront'
  <1>1. Placed'
    BY DEF SashInv, Placed
  <1>2. Family'
    <2>1. kind'[Shell] = kind[Shell]
      BY SashAssumption DEF SashInv, Family
    <2>2. \A c \in Pids : /\ kind'[c] # "none" => kind[c] # "none"
                          /\ kind[c] = "shell" => kind'[c] = "shell"
      OBVIOUS
    <2> QED
      BY <2>1, <2>2 DEF SashInv, Family, Awaited
  <1>3. Heirs'
    BY DEF SashInv, Family, Heirs, First
  <1>4. OneFront'
    BY DEF SashInv, OneFront, Leads, First
  <1> QED
    BY <1>1, <1>2, <1>3, <1>4

----------------------------------------------------------------------------
\* The types, and no line where none is written, whatever the step.
Ranges == TypeOK /\ Dry

LEMMA NextRanges == ASSUME SashInv, Next PROVE Ranges'
  <1> PICK p \in Pids : ShellStep(p) \/ ProgramStep(p)
    BY DEF Next
  <1>1. /\ MaxLines \in Nat /\ Items \in Nat /\ Capacity \in Nat \ {0} /\ MaxForkFailures \in Nat
        /\ Pids \cap {NoPid} = {} /\ sh[p] \in Frames
    BY SashAssumption DEF SashInv
  <1> USE <1>1 DEF SashInv, Ranges, TypeOK, Dry
  <1>2. CASE GetLine(p)
    <2>1. typed < MaxLines /\ typed' = typed + 1
          /\ UNCHANGED <<kind, parent, in, out, ends, left, quota, data, failures>>
      BY <1>2 DEF GetLine
    <2> QED
      BY <2>1
  <1>3. CASE Eof(p)
    BY <1>3 DEF Eof
  <1>4. CASE MakePipe(p)
    BY <1>4 DEF MakePipe
  <1>5. CASE Fork(p)
    <2>1. DupIn(p) \in Descriptors /\ DupOut(p) \in Descriptors
      <3>1. kind[p] = "shell" /\ sh[p].pc \in {"spawn", "fork"} /\ Consistent(sh[p])
        BY <1>5 DEF Fork, MayFork, At, Placed
      <3> QED
        BY <1>1, <3>1 DEF DupIn, DupOut, IsLast, Consistent, Frames, Descriptors
    <2>2. PICK c \in Pids : /\ kind' = [kind EXCEPT ![c] = "forked"]
                            /\ parent' = [parent EXCEPT ![c] = p]
                            /\ in' = [in EXCEPT ![c] = DupIn(p)]
                            /\ out' = [out EXCEPT ![c] = DupOut(p)]
                            /\ ends' = [ends EXCEPT ![c] = ends[p]]
                            /\ UNCHANGED <<left, quota, data, typed, failures>>
      BY <1>5 DEF Fork
    <2> QED
      BY <2>1, <2>2 DEF Descriptors
  <1>6. CASE ForkFails(p)
    <2>1. failures < MaxForkFailures /\ failures' = failures + 1
          /\ UNCHANGED <<kind, parent, in, out, ends, left, quota, data, typed>>
      BY <1>6 DEF ForkFails
    <2> QED
      BY <2>1
  <1>7. CASE Close(p)
    BY <1>7 DEF Close
  <1>8. CASE Wait(p)
    BY <1>8 DEF Wait
  <1>9. CASE Prompt(p)
    BY <1>9 DEF Prompt
  <1>10. CASE Exec(p)
    BY <1>10 DEF Exec
  <1>11. CASE ExecFails(p)
    BY <1>11 DEF ExecFails
  <1>12. CASE Read(p)
    BY <1>12 DEF Read
  <1>13. CASE Write(p)
    <2>1. left' = [left EXCEPT ![p] = @ - 1] /\ left[p] > 0 /\ left[p] \in 0..Items
          /\ UNCHANGED <<kind, parent, in, out, ends, sh, quota, typed, failures>>
      BY <1>13 DEF Write
    <2>2. data' = data \/ \E q \in Pipes : data[q] < Capacity /\ data' = [data EXCEPT ![q] = @ + 1]
      BY <1>13 DEF Write
    <2>3. left' \in [Pids -> 0..Items] /\ data' \in [Pipes -> 0..Capacity]
      BY <2>1, <2>2
    <2> QED
      BY <2>1, <2>3
  <1>14. CASE Exit(p)
    BY <1>14 DEF Exit
  <1> QED
    BY <1>2, <1>3, <1>4, <1>5, <1>6, <1>7, <1>8, <1>9, <1>10, <1>11, <1>12, <1>13, <1>14
       DEF ShellStep, ProgramStep

\* What the invariant says of a shell and of its children.
LEMMA ShellAt ==
  ASSUME SashInv, NEW p \in Pids, kind[p] = "shell"
  PROVE  /\ sh[p] \in Frames /\ Consistent(sh[p]) /\ ends[p] = Held(sh[p])
         /\ sh[p].kids \in Seq(Pids \cup {NoPid}) /\ sh[p].line \in Seq(STRING)
         /\ sh[p].i \in Nat \ {0}
         /\ \A c \in Pids : kind[c] # "none" /\ parent[c] = p => Awaited(p, c)
  <1>1. sh[p] \in Frames /\ Consistent(sh[p]) /\ ends[p] = Held(sh[p])
    BY DEF SashInv, Placed
  <1>2. \A c \in Pids : kind[c] # "none" /\ parent[c] = p => Awaited(p, c)
    BY SashAssumption DEF SashInv, Family
  <1> QED
    BY <1>1, <1>2 DEF Frames

\* A line typed, or the prompt after one: the shell has no children.
LEMMA PromptsKeep ==
  ASSUME SashInv, NEW p \in Pids, GetLine(p) \/ Prompt(p)
  PROVE  Placed' /\ Family' /\ Heirs' /\ OneFront' /\ sh' \in [Pids -> Frames]
  <1>1. kind[p] = "shell" /\ kind' = kind /\ parent' = parent /\ ends' = ends
    BY DEF GetLine, Prompt, At
  <1>2. PICK g : /\ sh' = [sh EXCEPT ![p] = g]
                 /\ \/ g = Idle
                    \/ \E l \in Lines : g = [Idle EXCEPT !.pc = "spawn", !.line = Deconstructed(l)]
    BY DEF GetLine, Prompt
  <1>3. g \in Frames /\ g.kids = <<>> /\ Consistent(g) /\ Held(g) = {}
    <2>1. <<>> \in Seq(STRING) /\ <<>> \in Seq(Pids \cup {NoPid})
      OBVIOUS
    <2>2. CASE g = Idle
      BY <2>1, <2>2 DEF Idle, Frames, Labels, Descriptors, Consistent, Held
    <2>3. ASSUME NEW l \in Lines, g = [Idle EXCEPT !.pc = "spawn", !.line = Deconstructed(l)]
          PROVE  g \in Frames /\ g.kids = <<>> /\ Consistent(g) /\ Held(g) = {}
      <3>1. PICK words \in Seq(STRING) : words = Deconstructed(l)
        BY <2>3, SashAssumption
      <3>2. Len(words) \in Nat \ {0} /\ \A n \in 2..Len(words) : words[n] \in Programs
        BY <3>1, SashAssumption
      <3>3. g.pc = "spawn" /\ g.line = words /\ g.i = 1 /\ g.last = Tty /\ g.pipe = Tty /\ g.kids = <<>>
        BY <2>3, <3>1 DEF Idle
      <3>4. g = [pc |-> "spawn", line |-> words, i |-> 1, last |-> Tty, pipe |-> Tty, kids |-> <<>>]
        BY <2>3, <3>1 DEF Idle
      <3>5. g \in Frames
        BY <2>1, <3>4 DEF Frames, Labels, Descriptors
      <3> QED
        BY <3>2, <3>3, <3>5 DEF Consistent, Held, Inherited
    <2> QED
      BY <1>2, <2>2, <2>3
  <1>4. ends[p] = {}
    BY <1>1, ShellAt DEF GetLine, Prompt, At, Held
  <1>5. ASSUME NEW c \in Pids, kind[c] # "none", parent[c] = p PROVE FALSE
    <2>1. Awaited(p, c)
      BY <1>1, <1>5, ShellAt
    <2>2. PICK n \in 1..Len(sh[p].kids) : sh[p].pc = "wait" => n >= sh[p].i
      BY <2>1 DEF Awaited
    <2>3. sh[p].pc = "prompt" \/ (sh[p].pc = "wait" /\ sh[p].i > Len(sh[p].kids))
      BY DEF GetLine, Prompt, At
    <2>4. Len(sh[p].kids) \in Nat /\ (sh[p].pc = "prompt" => sh[p].kids = <<>>)
      BY <1>1, ShellAt DEF Consistent
    <2>5. sh[p].i \in Nat
      BY <1>1, ShellAt
    <2> QED
      BY <2>2, <2>3, <2>4, <2>5
  <1>6. ends' = [ends EXCEPT ![p] = Held(g)]
    BY <1>1, <1>3, <1>4 DEF SashInv, TypeOK
  <1>7. sh' \in [Pids -> Frames]
    BY <1>2, <1>3 DEF SashInv
  <1> QED
    BY <1>1, <1>2, <1>3, <1>5, <1>6, <1>7, ShellMoves

\* A pipe nobody holds is not the one the command is to read.
LEMMA MakePipeKeeps ==
  ASSUME SashInv, NEW p \in Pids, MakePipe(p)
  PROVE  Placed' /\ Family' /\ Heirs' /\ OneFront' /\ sh' \in [Pids -> Frames]
  <1>1. kind[p] = "shell" /\ kind' = kind /\ parent' = parent /\ sh[p].pc = "spawn" /\ ~IsLast(p)
    BY DEF MakePipe, At
  <1>2. PICK q \in Pipes : /\ Readers(q) = {}
                           /\ ends' = [ends EXCEPT ![p] = @ \cup {<<"r", q>>, <<"w", q>>}]
                           /\ sh' = [sh EXCEPT ![p].pc = "fork", ![p].pipe = q]
    BY DEF MakePipe
  <1> DEFINE g == [sh[p] EXCEPT !.pc = "fork", !.pipe = q]
  <1>3. /\ g \in Frames /\ g.pc = "fork" /\ g.pipe = q /\ g.line = sh[p].line /\ g.i = sh[p].i
        /\ g.last = sh[p].last /\ g.kids = sh[p].kids
    BY <1>1, ShellAt DEF Frames, Labels, Descriptors
  <1>4. sh' = [sh EXCEPT ![p] = g]
    BY <1>1, <1>2 DEF SashInv, Frames
  <1> HIDE DEF g
  <1>5. ends[p] = Inherited(sh[p])
    BY <1>1, ShellAt DEF Held
  <1>6. q # sh[p].last
    BY <1>1, <1>2, <1>5, SashAssumption DEF Inherited, Readers, Alive
  <1>7. sh[p].i < Len(sh[p].line) /\ Len(sh[p].line) \in Nat
    BY <1>1, ShellAt DEF Consistent, IsLast
  <1>8. Consistent(g)
    BY <1>1, <1>3, <1>6, <1>7, ShellAt DEF Consistent
  <1>9. Held(g) = ends[p] \cup {<<"r", q>>, <<"w", q>>}
    BY <1>3, <1>5, <1>7 DEF Held, Inherited, Own
  <1>10. ASSUME NEW c \in Pids, kind'[c] # "none", parent[c] = p
         PROVE  \E n \in 1..Len(g.kids) : g.kids[n] = c /\ (g.pc = "wait" => n >= g.i)
    <2>1. Awaited(p, c)
      BY <1>1, <1>10, ShellAt
    <2> QED
      BY <1>1, <1>3, <2>1 DEF Awaited
  <1>11. sh' \in [Pids -> Frames]
    BY <1>3, <1>4 DEF SashInv
  <1>12. ends' = [ends EXCEPT ![p] = Held(g)]
    BY <1>2, <1>9
  <1>13. Placed' /\ Family' /\ Heirs' /\ OneFront'
    BY <1>1, <1>3, <1>4, <1>8, <1>10, <1>12, ShellMoves
  <1> QED
    BY <1>11, <1>13

\* The child is at its parent's place in the loop, holds the same ends, and is the entry of
\* children for its command.
LEMMA ForkKeeps ==
  ASSUME SashInv, NEW p \in Pids, Fork(p)
  PROVE  Placed' /\ Family' /\ Heirs' /\ OneFront' /\ sh' \in [Pids -> Frames]
  <1>1. PICK c \in Pids :
          /\ kind[c] = "none" /\ kind' = [kind EXCEPT ![c] = "forked"]
          /\ parent' = [parent EXCEPT ![c] = p] /\ ends' = [ends EXCEPT ![c] = ends[p]]
          /\ sh' = [sh EXCEPT ![p].pc = "close", ![p].kids = Append(@, c),
                              ![c] = [sh[p] EXCEPT !.pc = "close", !.kids = Append(@, NoPid)]]
    BY DEF Fork
  <1>2. /\ kind[p] = "shell" /\ sh[p].pc \in {"spawn", "fork"}
        /\ sh[p].pc = "spawn" => sh[p].i = Len(sh[p].line)
    BY DEF Fork, MayFork, At, IsLast
  <1>3. c # p /\ c # Shell
    BY <1>1, <1>2, SashAssumption DEF SashInv, Family, Placed, TypeOK
  <1>4. /\ sh[p] \in Frames /\ Consistent(sh[p]) /\ ends[p] = Held(sh[p])
        /\ sh[p].kids \in Seq(Pids \cup {NoPid}) /\ sh[p].i \in Nat \ {0}
        /\ Len(sh[p].line) \in Nat
    BY <1>2, ShellAt
  <1> DEFINE g(k) == [sh[p] EXCEPT !.pc = "close", !.kids = Append(@, k)]
  <1>5. ASSUME NEW k \in Pids \cup {NoPid}
        PROVE  /\ g(k) \in Frames /\ g(k).pc = "close" /\ g(k).line = sh[p].line
               /\ g(k).i = sh[p].i /\ g(k).last = sh[p].last /\ g(k).pipe = sh[p].pipe
               /\ g(k).kids = Append(sh[p].kids, k)
    <2>1. Append(sh[p].kids, k) \in Seq(Pids \cup {NoPid})
      BY <1>4, <1>5
    <2> QED
      BY <1>4, <2>1 DEF Frames, Labels
  <1>6. /\ sh' \in [Pids -> Frames] /\ sh'[p] = g(c) /\ sh'[c] = g(NoPid)
        /\ \A q \in Pids \ {p, c} : sh'[q] = sh[q]
    <2>1. sh' = [[sh EXCEPT ![p] = g(c)] EXCEPT ![c] = g(NoPid)]
      BY <1>1, <1>3 DEF SashInv, Frames
    <2> HIDE DEF g
    <2> QED
      BY <1>3, <1>5, <2>1 DEF SashInv
  <1> HIDE DEF g
  <1>7. sh[p].i = Len(sh[p].kids) + 1 /\ sh[p].i <= Len(sh[p].line)
    BY <1>2, <1>4 DEF Consistent
  <1>8. ASSUME NEW k \in Pids \cup {NoPid} PROVE Consistent(g(k)) /\ Held(g(k)) = ends[p]
    <2>1. Len(g(k).kids) = sh[p].i
      BY <1>4, <1>5, <1>7
    <2>2. Consistent(g(k))
      BY <1>2, <1>4, <1>5, <1>7, <2>1 DEF Consistent
    <2>3. Held(g(k)) = Held(sh[p])
      BY <1>2, <1>4, <1>5 DEF Held, Inherited, Own, Consistent
    <2> QED
      BY <1>4, <2>2, <2>3
  <1>9. \A q \in Pids \ {c} : kind'[q] = kind[q] /\ parent'[q] = parent[q] /\ ends'[q] = ends[q]
    BY <1>1 DEF SashInv, TypeOK
  <1>10. kind'[c] = "forked" /\ parent'[c] = p /\ ends'[c] = ends[p]
    BY <1>1 DEF SashInv, TypeOK
  <1>11. Placed'
    <2> SUFFICES ASSUME NEW q \in Pids, kind'[q] \in {"shell", "forked"}
                 PROVE  /\ Consistent(sh'[q]) /\ ends'[q] = Held(sh'[q])
                        /\ kind'[q] = "forked" => sh'[q].pc = "close"
      BY DEF Placed, Consistent, Held, Inherited, Own
    <2>1. CASE q \notin {p, c}
      BY <1>6, <1>9, <2>1 DEF SashInv, Placed
    <2>2. CASE q = p
      BY <1>2, <1>3, <1>6, <1>8, <1>9, <2>2
    <2>3. CASE q = c
      BY <1>5, <1>6, <1>8, <1>10, <2>3
    <2> QED
      BY <2>1, <2>2, <2>3
  <1>12. /\ \A n \in 1..Len(sh[p].kids) : n <= Len(g(c).kids) /\ g(c).kids[n] = sh[p].kids[n]
         /\ sh[p].i <= Len(g(c).kids) /\ g(c).kids[sh[p].i] = c
    <2>1. g(c).kids = Append(sh[p].kids, c)
      BY <1>5
    <2>2. PICK len \in Nat : len = Len(sh[p].kids)
      BY <1>4, LenProperties
    <2>3. /\ Len(g(c).kids) = len + 1 /\ g(c).kids[len + 1] = c
          /\ \A n \in 1..len : g(c).kids[n] = sh[p].kids[n]
      BY <1>4, <2>1, <2>2, AppendProperties
    <2> QED
      BY <1>7, <2>2, <2>3
  <1>13. \A d \in Pids \ {Shell, c} : kind'[d] # "none" =>
            parent'[d] = parent[d] /\ parent[d] \in Pids \ {c} /\ kind[parent[d]] = "shell"
    BY <1>1, <1>9 DEF SashInv, Family
  <1>14. Family'
    <2>1. ASSUME NEW d \in Pids \ {Shell}, kind'[d] # "none"
          PROVE  /\ parent'[d] \in Pids /\ kind'[parent'[d]] = "shell"
                 /\ \E n \in 1..Len(sh'[parent'[d]].kids) :
                       /\ sh'[parent'[d]].kids[n] = d
                       /\ sh'[parent'[d]].pc = "wait" => n >= sh'[parent'[d]].i
      <3>1. CASE d = c
        BY <1>2, <1>3, <1>4, <1>5, <1>6, <1>9, <1>10, <1>12, <3>1
      <3>2. CASE d # c /\ parent[d] = p
        <4>1. PICK n \in 1..Len(sh[p].kids) : sh[p].kids[n] = d
          BY <1>9, <2>1, <3>2 DEF SashInv, Family, Awaited
        <4>2. parent'[d] = p /\ sh'[p] = g(c) /\ kind'[p] = "shell" /\ g(c).pc = "close"
          BY <1>2, <1>3, <1>5, <1>6, <1>9, <1>13, <2>1, <3>2
        <4>3. n \in 1..Len(g(c).kids) /\ g(c).kids[n] = d
          <5>1. Len(sh[p].kids) \in Nat /\ Len(g(c).kids) \in Nat
            BY <1>4, <1>5, LenProperties DEF Frames
          <5> QED
            BY <1>12, <4>1, <5>1
        <4> QED
          BY <4>2, <4>3
      <3>3. CASE d # c /\ parent[d] # p
        BY <1>6, <1>9, <1>13, <2>1, <3>3 DEF SashInv, Family, Awaited
      <3> QED
        BY <3>1, <3>2, <3>3
    <2>2. parent'[Shell] = NoPid /\ kind'[Shell] \in {"shell", "zombie"}
      BY <1>3, <1>9, SashAssumption DEF SashInv, Family
    <2> QED
      BY <2>1, <2>2 DEF Family, Awaited
  <1>15. \A q \in Pids : kind[q] = "shell" /\ First(q) \in Pids /\ kind[First(q)] # "none" =>
                         First(q)' = First(q)
    <2>1. ASSUME NEW q \in Pids, kind[q] = "shell", First(q) \in Pids PROVE First(q)' = First(q)
      <3>1. CASE q = p
        <4>1. 1 \in 1..Len(sh[p].kids) /\ First(p) = sh[p].kids[1]
          BY <1>4, <2>1, <3>1, SashAssumption DEF First
        <4>2. sh'[p].kids # <<>> /\ sh'[p].kids[1] = sh[p].kids[1]
          BY <1>4, <1>5, <1>6, <4>1
        <4> QED
          BY <3>1, <4>1, <4>2 DEF First
      <3>2. CASE q # p
        BY <1>1, <1>6, <2>1, <3>2 DEF First
      <3> QED
        BY <3>1, <3>2
    <2> QED
      BY <2>1
  <1>16. Heirs'
    <2> SUFFICES ASSUME NEW d \in Pids \ {Shell}
                 PROVE  /\ kind'[d] = "shell" => First(parent[d])' = d
                        /\ kind'[d] = "forked" => sh'[d].i <= Len(sh'[parent'[d]].kids)
                                                  /\ sh'[parent'[d]].kids[sh'[d].i] = d
      BY DEF Heirs
    <2>1. ASSUME kind'[d] = "shell" PROVE First(parent[d])' = d
      BY <1>9, <1>10, <1>13, <1>15, <2>1 DEF SashInv, Heirs
    <2>2. ASSUME kind'[d] = "forked", d # c
          PROVE  sh'[d].i <= Len(sh'[parent'[d]].kids) /\ sh'[parent'[d]].kids[sh'[d].i] = d
      <3>1. sh'[d] = sh[d] /\ kind[d] = "forked" /\ sh[d].i \in Nat \ {0}
        BY <1>2, <1>6, <1>9, <2>2 DEF SashInv, Frames
      <3>2. /\ parent[d] \in Pids \ {c} /\ parent'[d] = parent[d]
            /\ Len(sh[parent[d]].kids) \in Nat
        BY <1>13, <2>2, ShellAt
      <3>3. sh[d].i \in 1..Len(sh[parent[d]].kids) /\ sh[parent[d]].kids[sh[d].i] = d
        BY <3>1, <3>2 DEF SashInv, Heirs
      <3> QED
        BY <1>4, <1>6, <1>12, <3>1, <3>2, <3>3
    <2>3. CASE d = c
      BY <1>5, <1>6, <1>10, <1>12, <2>3
    <2> QED
      BY <1>10, <2>1, <2>2, <2>3
  <1>17. OneFront'
    <2>1. ASSUME NEW q \in Pids, kind'[q] = "shell" PROVE kind[q] = "shell" /\ (Leads(q) => Leads(q)')
      BY <1>1, <1>9, <1>10, <1>15, <2>1 DEF Leads
    <2> QED
      BY <2>1 DEF SashInv, OneFront
  <1> QED
    BY <1>6, <1>11, <1>14, <1>16, <1>17

\* A failing fork leaves a 0 among the children, and the loop goes on.
LEMMA ForkFailsKeeps ==
  ASSUME SashInv, NEW p \in Pids, ForkFails(p)
  PROVE  Placed' /\ Family' /\ Heirs' /\ OneFront' /\ sh' \in [Pids -> Frames]
  <1>1. /\ kind[p] = "shell" /\ sh[p].pc \in {"spawn", "fork"}
        /\ sh[p].pc = "spawn" => sh[p].i = Len(sh[p].line)
        /\ kind' = kind /\ parent' = parent /\ ends' = ends
    BY DEF ForkFails, MayFork, At, IsLast
  <1>2. /\ sh[p] \in Frames /\ Consistent(sh[p]) /\ ends[p] = Held(sh[p])
        /\ sh[p].kids \in Seq(Pids \cup {NoPid}) /\ sh[p].i \in Nat \ {0}
        /\ Len(sh[p].line) \in Nat
    BY <1>1, ShellAt
  <1> DEFINE g == [sh[p] EXCEPT !.pc = "close", !.kids = Append(@, NoPid)]
  <1>3. /\ g \in Frames /\ g.pc = "close" /\ g.line = sh[p].line /\ g.i = sh[p].i
        /\ g.last = sh[p].last /\ g.pipe = sh[p].pipe /\ g.kids = Append(sh[p].kids, NoPid)
    <2>1. Append(sh[p].kids, NoPid) \in Seq(Pids \cup {NoPid})
      BY <1>2
    <2> QED
      BY <1>2, <2>1 DEF Frames, Labels
  <1>4. sh' = [sh EXCEPT ![p] = g]
    BY DEF ForkFails, SashInv, Frames
  <1> HIDE DEF g
  <1>5. Len(g.kids) = sh[p].i
    BY <1>1, <1>2, <1>3 DEF Consistent
  <1>6. Consistent(g)
    BY <1>1, <1>2, <1>3, <1>5 DEF Consistent
  <1>7. Held(g) = Held(sh[p])
    BY <1>1, <1>2, <1>3 DEF Held, Inherited, Own, Consistent
  <1>8. ends' = [ends EXCEPT ![p] = Held(g)]
    BY <1>1, <1>2, <1>7 DEF SashInv, TypeOK
  <1>9. ASSUME NEW c \in Pids, kind'[c] # "none", parent[c] = p
        PROVE  \E n \in 1..Len(g.kids) : g.kids[n] = c /\ (g.pc = "wait" => n >= g.i)
    <2>1. PICK n \in 1..Len(sh[p].kids) : sh[p].kids[n] = c
      BY <1>1, <1>9, ShellAt DEF Awaited
    <2> QED
      BY <1>2, <1>3, <2>1
  <1>10. Placed' /\ Family' /\ Heirs' /\ OneFront'
    BY <1>1, <1>3, <1>4, <1>6, <1>8, <1>9, ShellMoves
  <1>11. sh' \in [Pids -> Frames]
    BY <1>3, <1>4 DEF SashInv
  <1> QED
    BY <1>10, <1>11

\* A frame at another place, and one at another index.
LEMMA FrameAt ==
  ASSUME NEW f \in Frames, NEW l \in Labels
  PROVE  LET a == [f EXCEPT !.pc = l] IN
         /\ a \in Frames /\ a.pc = l /\ a.line = f.line /\ a.i = f.i /\ a.last = f.last
         /\ a.pipe = f.pipe /\ a.kids = f.kids
  BY DEF Frames

LEMMA FrameIndex ==
  ASSUME NEW f \in Frames, NEW n \in Nat \ {0}
  PROVE  LET a == [f EXCEPT !.i = n] IN
         /\ a \in Frames /\ a.pc = f.pc /\ a.line = f.line /\ a.i = n /\ a.last = f.last
         /\ a.pipe = f.pipe /\ a.kids = f.kids
  BY DEF Frames

\* The loop is left for the one that waits.
LEMMA LastFrame ==
  ASSUME NEW f \in Frames
  PROVE  LET a == [f EXCEPT !.pc = "wait", !.i = 1] IN
         a \in Frames /\ a.kids = f.kids /\ a.line = f.line /\ a.pc = "wait" /\ a.i = 1
  <1> DEFINE a == [f EXCEPT !.pc = "wait"]
  <1>1. [f EXCEPT !.pc = "wait", !.i = 1] = [a EXCEPT !.i = 1]
    OBVIOUS
  <1>2. a \in Frames /\ a.kids = f.kids /\ a.line = f.line /\ a.pc = "wait"
    BY FrameAt DEF Labels
  <1> HIDE DEF a
  <1> QED
    BY <1>1, <1>2, FrameIndex

\* The loop goes on to the next command.
LEMMA NextFrame ==
  ASSUME NEW f \in Frames
  PROVE  LET b == [f EXCEPT !.pc = "spawn", !.i = @ + 1, !.last = f.pipe] IN
         /\ b \in Frames /\ b.kids = f.kids /\ b.line = f.line /\ b.pc = "spawn"
         /\ b.i = f.i + 1 /\ b.last = f.pipe
  <1> DEFINE a == [f EXCEPT !.pc = "spawn"]
             c == [a EXCEPT !.i = f.i + 1]
  <1>1. [f EXCEPT !.pc = "spawn", !.i = @ + 1, !.last = f.pipe] = [c EXCEPT !.last = f.pipe]
    OBVIOUS
  <1>2. a \in Frames /\ a.kids = f.kids /\ a.line = f.line /\ a.pc = "spawn" /\ a.i = f.i
    BY FrameAt DEF Labels
  <1>3. f.i + 1 \in Nat \ {0} /\ f.pipe \in Descriptors
    BY DEF Frames
  <1> HIDE DEF a
  <1>4. c \in Frames /\ c.kids = f.kids /\ c.line = f.line /\ c.pc = "spawn" /\ c.i = f.i + 1
    BY <1>2, <1>3, FrameIndex
  <1> HIDE DEF c
  <1>5. LET b == [c EXCEPT !.last = f.pipe] IN
        /\ b \in Frames /\ b.kids = c.kids /\ b.line = c.line /\ b.pc = c.pc /\ b.i = c.i
        /\ b.last = f.pipe
    BY <1>3, <1>4 DEF Frames
  <1> QED
    BY <1>1, <1>4, <1>5

\* After a child the shell holds the read end for the next command, after the last nothing.
LEMMA CloseKeeps ==
  ASSUME SashInv, NEW p \in Pids, Close(p)
  PROVE  Placed' /\ Family' /\ Heirs' /\ OneFront' /\ sh' \in [Pids -> Frames]
  <1>1. kind[p] = "shell" /\ sh[p].pc = "close" /\ kind' = kind /\ parent' = parent
    BY DEF Close, At
  <1>2. /\ sh[p] \in Frames /\ Consistent(sh[p]) /\ ends[p] = Held(sh[p])
        /\ sh[p].kids \in Seq(Pids \cup {NoPid}) /\ sh[p].i \in Nat \ {0}
        /\ Len(sh[p].line) \in Nat /\ Len(sh[p].kids) = sh[p].i /\ sh[p].i <= Len(sh[p].line)
    BY <1>1, ShellAt DEF Consistent
  <1> DEFINE a == [sh[p] EXCEPT !.pc = "wait", !.i = 1]
             b == [sh[p] EXCEPT !.pc = "spawn", !.i = @ + 1, !.last = sh[p].pipe]
             g == IF IsLast(p) THEN a ELSE b
  <1>3. /\ g \in Frames /\ g.kids = sh[p].kids /\ g.line = sh[p].line
        /\ g.pc = IF IsLast(p) THEN "wait" ELSE "spawn"
        /\ g.i = IF IsLast(p) THEN 1 ELSE sh[p].i + 1
        /\ ~IsLast(p) => g.last = sh[p].pipe
    <2>1. a \in Frames /\ a.kids = sh[p].kids /\ a.line = sh[p].line /\ a.pc = "wait" /\ a.i = 1
      BY <1>2, LastFrame
    <2>2. /\ b \in Frames /\ b.kids = sh[p].kids /\ b.line = sh[p].line /\ b.pc = "spawn"
          /\ b.i = sh[p].i + 1 /\ b.last = sh[p].pipe
      BY <1>2, NextFrame
    <2> HIDE DEF a, b
    <2> QED
      BY <2>1, <2>2
  <1>4. sh' = [sh EXCEPT ![p] = g]
    BY DEF Close
  <1> HIDE DEF g
  <1>5. Consistent(g)
    BY <1>1, <1>2, <1>3 DEF Consistent, IsLast
  <1>6. Held(g) = ends[p] \ {<<"r", sh[p].last>>, <<"w", IF IsLast(p) THEN Tty ELSE sh[p].pipe>>}
    <2>1. CASE IsLast(p)
      BY <1>1, <1>2, <1>3, <2>1 DEF Held, Inherited, IsLast
    <2>2. CASE ~IsLast(p)
      <3>1. sh[p].pipe \in Pipes /\ sh[p].pipe # sh[p].last /\ sh[p].pipe # Tty
        BY <1>1, <1>2, <2>2, SashAssumption DEF Consistent, IsLast
      <3>2. Held(g) = {<<"r", sh[p].pipe>>}
        BY <1>3, <2>2, <3>1 DEF Held, Inherited
      <3>3. ends[p] = Inherited(sh[p]) \cup Own(sh[p])
        BY <1>1, <1>2, <2>2 DEF Held, IsLast
      <3> QED
        BY <2>2, <3>1, <3>2, <3>3 DEF Inherited, Own
    <2> QED
      BY <2>1, <2>2
  <1>7. ends' = [ends EXCEPT ![p] = Held(g)]
    BY <1>6 DEF Close
  <1>8. ASSUME NEW c \in Pids, kind'[c] # "none", parent[c] = p
        PROVE  \E n \in 1..Len(g.kids) : g.kids[n] = c /\ (g.pc = "wait" => n >= g.i)
    <2>1. PICK n \in 1..Len(sh[p].kids) : sh[p].kids[n] = c
      BY <1>1, <1>8, ShellAt DEF Awaited
    <2> QED
      BY <1>2, <1>3, <2>1
  <1>9. Placed' /\ Family' /\ Heirs' /\ OneFront'
    BY <1>1, <1>3, <1>4, <1>5, <1>7, <1>8, ShellMoves
  <1>10. sh' \in [Pids -> Frames]
    BY <1>3, <1>4 DEF SashInv
  <1> QED
    BY <1>9, <1>10

\* waitpid passes over an entry of children only when the child is gone.
LEMMA WaitKeeps ==
  ASSUME SashInv, NEW p \in Pids, Wait(p)
  PROVE  Placed' /\ Family' /\ Heirs' /\ OneFront' /\ sh' \in [Pids -> Frames]
  <1>1. /\ kind[p] = "shell" /\ sh[p].pc = "wait" /\ sh[p].i <= Len(sh[p].kids)
        /\ parent' = parent /\ ends' = ends
    BY DEF Wait, At
  <1>2. /\ sh[p] \in Frames /\ Consistent(sh[p]) /\ ends[p] = Held(sh[p])
        /\ sh[p].kids \in Seq(Pids \cup {NoPid}) /\ sh[p].i \in Nat \ {0}
    BY <1>1, ShellAt
  <1> DEFINE g == [sh[p] EXCEPT !.i = @ + 1]
             k == sh[p].kids[sh[p].i]
  <1>3. g \in Frames /\ g.kids = sh[p].kids /\ g.pc = "wait" /\ g.i = sh[p].i + 1
    BY <1>1, <1>2 DEF Frames
  <1>4. sh' = [sh EXCEPT ![p] = g]
    BY DEF Wait, SashInv, Frames
  <1> HIDE DEF g
  <1>5. k \in Pids \cup {NoPid} /\ Shell \notin Children(p) /\ p # NoPid /\ NoPid \notin Pids
    BY <1>1, <1>2, SashAssumption DEF Children, SashInv, Family
  <1>6. \/ kind' = kind
        \/ \E z \in Children(p) : kind[z] = "zombie" /\ kind' = [kind EXCEPT ![z] = "none"]
    BY DEF Wait
  <1>7. \A c \in Pids : \/ kind'[c] = kind[c]
                        \/ c # Shell /\ kind[c] = "zombie" /\ kind'[c] = "none"
    BY <1>5, <1>6 DEF SashInv, TypeOK
  <1>8. k \in Children(p) => kind'[k] = "none"
    BY <1>5 DEF Wait, SashInv, TypeOK, Children
  <1>9. Consistent(g)
    BY <1>3 DEF Consistent
  <1>10. ends' = [ends EXCEPT ![p] = Held(g)]
    BY <1>1, <1>2, <1>3 DEF Held, SashInv, TypeOK
  <1>11. ASSUME NEW c \in Pids, kind'[c] # "none", parent[c] = p
         PROVE  \E n \in 1..Len(g.kids) : g.kids[n] = c /\ (g.pc = "wait" => n >= g.i)
    <2>1. kind[c] # "none" /\ c \in Children(p)
      BY <1>7, <1>11 DEF Children
    <2>2. PICK n \in 1..Len(sh[p].kids) : sh[p].kids[n] = c /\ n >= sh[p].i
      BY <1>1, <1>11, <2>1, ShellAt DEF Awaited
    <2>3. n # sh[p].i
      BY <1>8, <1>11, <2>1, <2>2
    <2> QED
      BY <1>2, <1>3, <2>2, <2>3
  <1>12. Placed' /\ Family' /\ Heirs' /\ OneFront'
    BY <1>1, <1>3, <1>4, <1>7, <1>9, <1>10, <1>11, ShellMoves
  <1>13. sh' \in [Pids -> Frames]
    BY <1>3, <1>4 DEF SashInv
  <1> QED
    BY <1>12, <1>13

\* The shell that returns has no child, and leaves the terminal to its parent.
LEMMA EofKeeps ==
  ASSUME SashInv, NEW p \in Pids, Eof(p)
  PROVE  Placed' /\ Family' /\ Heirs' /\ OneFront' /\ sh' \in [Pids -> Frames]
  <1>1. /\ kind[p] = "shell" /\ sh[p].pc = "prompt" /\ kind' = [kind EXCEPT ![p] = "zombie"]
        /\ ends' = [ends EXCEPT ![p] = {}] /\ parent' = parent /\ sh' = sh
    BY DEF Eof, At
  <1>2. sh[p].kids = <<>>
    BY <1>1, ShellAt DEF Consistent
  <1>3. \A c \in Pids : kind[c] # "none" => parent[c] # p
    BY <1>1, <1>2, ShellAt DEF Awaited
  <1>4. kind'[p] = "zombie" /\ \A q \in Pids \ {p} : kind'[q] = kind[q] /\ ends'[q] = ends[q]
    BY <1>1 DEF SashInv, TypeOK
  <1>5. Placed'
    BY <1>1, <1>4 DEF SashInv, Placed
  <1>6. Family'
    BY <1>1, <1>3, <1>4, SashAssumption DEF SashInv, Family, Awaited
  <1>7. Heirs'
    BY <1>1, <1>4 DEF SashInv, Heirs, First
  <1>8. OneFront'
    <2>1. ~Leads(p)
      BY <1>2, SashAssumption DEF Leads, First
    <2>2. \A q \in Pids \ {p} : kind[q] = "shell" => Leads(q)
      BY <1>1, <2>1 DEF SashInv, OneFront
    <2>3. ASSUME NEW q \in Pids, kind'[q] = "shell", ~Leads(q)' PROVE q = parent[p] /\ q # p
      BY <1>1, <1>4, <2>2, <2>3 DEF Leads, First
    <2> QED
      BY <2>3 DEF OneFront
  <1> QED
    BY <1>1, <1>5, <1>6, <1>7, <1>8 DEF SashInv

\* A child whose execvp fails has the first command of the line, and becomes the one shell
\* that waits for none.
LEMMA ExecFailsKeeps ==
  ASSUME SashInv, NEW c \in Pids, ExecFails(c)
  PROVE  Placed' /\ Family' /\ Heirs' /\ OneFront' /\ sh' \in [Pids -> Frames]
  <1>1. /\ kind[c] = "forked" /\ kind' = [kind EXCEPT ![c] = "shell"]
        /\ UNCHANGED <<parent, sh, ends>> /\ sh[c].line[sh[c].i] \notin Programs
    BY DEF ExecFails, Command
  <1>2. kind'[c] = "shell" /\ \A q \in Pids \ {c} : kind'[q] = kind[q]
    BY <1>1 DEF SashInv, TypeOK
  <1>3. sh[c] \in Frames /\ Consistent(sh[c]) /\ sh[c].pc = "close"
    BY <1>1 DEF SashInv, Placed
  <1>4. sh[c].i = 1
    <2>1. sh[c].i \in Nat \ {0} /\ Len(sh[c].line) \in Nat
      BY <1>3 DEF Frames
    <2> QED
      BY <1>1, <1>3, <2>1 DEF Consistent
  <1>5. Placed'
    BY <1>1, <1>2, <1>3 DEF SashInv, Placed
  <1>6. Family'
    BY <1>1, <1>2 DEF SashInv, Family, Awaited
  <1>7. First(parent[c]) = c /\ parent[c] \in Pids /\ kind[parent[c]] = "shell" /\ parent[c] # c
    <2>1. c # Shell
      BY <1>1 DEF SashInv, Family
    <2>2. parent[c] \in Pids /\ kind[parent[c]] = "shell"
      BY <1>1, <2>1 DEF SashInv, Family
    <2>3. 1 <= Len(sh[parent[c]].kids) /\ sh[parent[c]].kids[1] = c
      BY <1>1, <1>4, <2>1 DEF SashInv, Heirs
    <2> QED
      BY <1>1, <2>2, <2>3 DEF First
  <1>8. Heirs'
    BY <1>1, <1>2, <1>7 DEF SashInv, Heirs, First
  <1>9. OneFront'
    <2>1. ~Leads(parent[c])
      BY <1>1, <1>7 DEF Leads
    <2>2. Leads(parent[c])'
      BY <1>1, <1>2, <1>7 DEF Leads, First
    <2>3. \A q \in Pids : kind[q] = "shell" /\ q # parent[c] => Leads(q)
      BY <1>7, <2>1 DEF SashInv, OneFront
    <2>4. ASSUME NEW q \in Pids, kind'[q] = "shell", q # c
          PROVE  First(q)' \in Pids /\ kind'[First(q)'] = "shell" /\ parent'[First(q)'] = q
      <3>1. CASE q = parent[c]
        BY <1>1, <2>2, <3>1 DEF Leads, First
      <3>2. CASE q # parent[c]
        <4>1. kind[q] = "shell" /\ Leads(q)
          BY <1>2, <2>3, <2>4, <3>2
        <4> QED
          BY <1>1, <1>2, <4>1 DEF Leads, First
      <3> QED
        BY <3>1, <3>2
    <2> QED
      BY <2>4 DEF OneFront, Leads
  <1> QED
    BY <1>1, <1>5, <1>6, <1>8, <1>9 DEF SashInv

\* Every step of every process keeps the invariant.
LEMMA NextSash == SashInv /\ [Next]_vars => SashInv'
  <1> SUFFICES ASSUME SashInv, [Next]_vars PROVE SashInv'
    OBVIOUS
  <1>1. CASE UNCHANGED vars
    BY <1>1 DEF vars, SashInv, TypeOK, Dry, Placed, Consistent, Held, Inherited, Own, Family,
                Awaited, Heirs, First, OneFront, Leads
  <1>2. CASE Next
    <2>1. TypeOK' /\ Dry'
      BY <1>2, NextRanges DEF Ranges
    <2> PICK p \in Pids : ShellStep(p) \/ ProgramStep(p)
      BY <1>2 DEF Next
    <2> DEFINE Kept == Placed' /\ Family' /\ Heirs' /\ OneFront' /\ sh' \in [Pids -> Frames]
    <2>2. ASSUME GetLine(p) \/ Prompt(p) PROVE Kept
      BY <2>2, PromptsKeep
    <2>3. ASSUME Eof(p) PROVE Kept
      BY <2>3, EofKeeps
    <2>4. ASSUME MakePipe(p) PROVE Kept
      BY <2>4, MakePipeKeeps
    <2>5. ASSUME Fork(p) PROVE Kept
      BY <2>5, ForkKeeps
    <2>6. ASSUME ForkFails(p) PROVE Kept
      BY <2>6, ForkFailsKeeps
    <2>7. ASSUME Close(p) PROVE Kept
      BY <2>7, CloseKeeps
    <2>8. ASSUME Wait(p) PROVE Kept
      BY <2>8, WaitKeeps
    <2>9. ASSUME Exec(p) PROVE Kept
      <3>1. /\ UNCHANGED <<sh, parent>>
            /\ \A c \in Pids :
                  \/ kind'[c] = kind[c] /\ ends'[c] = ends[c]
                  \/ kind[c] \in {"forked", "program"} /\ kind'[c] \in {"program", "zombie"}
        BY <2>9 DEF Exec, SashInv, TypeOK
      <3> QED
        BY <3>1, ProgramMoves DEF SashInv
    <2>10. ASSUME ExecFails(p) PROVE Kept
      BY <2>10, ExecFailsKeeps
    <2>11. ASSUME Read(p) \/ Write(p) PROVE Kept
      <3>1. UNCHANGED <<sh, parent, kind, ends>>
        BY <2>11 DEF Read, Write
      <3> QED
        BY <3>1, ProgramMoves DEF SashInv
    <2>12. ASSUME Exit(p) PROVE Kept
      <3>1. /\ UNCHANGED <<sh, parent>>
            /\ \A c \in Pids :
                  \/ kind'[c] = kind[c] /\ ends'[c] = ends[c]
                  \/ kind[c] \in {"forked", "program"} /\ kind'[c] \in {"program", "zombie"}
        BY <2>12 DEF Exit, SashInv, TypeOK
      <3> QED
        BY <3>1, ProgramMoves DEF SashInv
    <2>13. Kept
      BY <2>2, <2>3, <2>4, <2>5, <2>6, <2>7, <2>8, <2>9, <2>10, <2>11, <2>12
         DEF ShellStep, ProgramStep
    <2> QED
      BY <2>1, <2>13 DEF SashInv
  <1> QED
    BY <1>1, <1>2

\* Nothing of a line is left when the shell prompts again, and of all the shells there are one
\* at most reads the terminal: for every set of lines, of processes and of pipes.
THEOREM CleanPrompt == Spec => []PromptIsClean
  <1>1. ASSUME SashInv PROVE PromptIsClean
    <2>1. ASSUME NEW p \in Pids, At(p, "prompt")
          PROVE  /\ kind[p] = "shell" /\ ~Leads(p) /\ ends[p] = {}
                 /\ \A c \in Pids : kind[c] # "none" => parent[c] # p
      <3>1. kind[p] = "shell" /\ sh[p].pc = "prompt" /\ sh[p].kids = <<>> /\ ends[p] = {}
        BY <1>1, <2>1, ShellAt DEF At, Consistent, Held
      <3>2. ~Leads(p)
        BY <3>1, SashAssumption DEF Leads, First
      <3>3. \A c \in Pids : kind[c] # "none" => parent[c] # p
        BY <1>1, <3>1, ShellAt DEF Awaited
      <3> QED
        BY <3>1, <3>2, <3>3
    <2>2. TypeOK
      BY <1>1 DEF SashInv
    <2>3. \A p, q \in Pids : At(p, "prompt") /\ At(q, "prompt") => p = q
      BY <1>1, <2>1 DEF SashInv, OneFront
    <2>4. At(Shell, "prompt") => ends[Shell] = {} /\ Children(Shell) = {}
      BY <2>1, SashAssumption DEF Children
    <2> QED
      BY <2>2, <2>3, <2>4 DEF PromptIsClean
  <1> QED
    BY InitSash, NextSash, <1>1, PTL DEF Spec

----------------------------------------------------------------------------
\* A set of numbers that is not empty has a first one.
LEMMA FirstNumber ==
  ASSUME NEW I, I \subseteq Nat, I # {}
  PROVE  \E m \in I : \A k \in I : m <= k
  <1>1. PICK m \in I : \A k \in I : ~(<<k, m>> \in OpToRel(<, Nat))
    BY NatLessThanWellFounded, WFMin
  <1>2. ASSUME NEW k \in I PROVE m <= k
    <2>1. k \in Nat /\ m \in Nat
      OBVIOUS
    <2>2. ~(<<k, m>> \in Nat \X Nat /\ k < m)
      BY <1>1, Zenon DEF OpToRel
    <2> QED
      BY <2>1, <2>2
  <1> QED
    BY <1>2

\* What comes through a line's first n commands, as the function of n that Through unfolds to.
Flows(line, n, f) == f = [k \in 0..n |-> IF k = 0 THEN 0 ELSE Passed(line[k], f[k - 1])]

\* There is such a function for every number of commands.
LEMMA FlowsExist == ASSUME NEW line, NEW n \in Nat PROVE \E f : Flows(line, n, f)
  <1> DEFINE I == {k \in Nat : ~ \E f : Flows(line, k, f)}
  <1>1. ASSUME I # {} PROVE FALSE
    <2>1. PICK k \in I : \A j \in I : k <= j
      <3>1. I \subseteq Nat
        OBVIOUS
      <3> HIDE DEF I
      <3> QED
        BY <1>1, <3>1, FirstNumber
    <2>2. k \in Nat /\ ~(\E f : Flows(line, k, f)) /\ (k # 0 => \E f : Flows(line, k - 1, f))
      <3>1. k \in Nat /\ ~(\E f : Flows(line, k, f))
        BY <2>1, Zenon
      <3>2. ASSUME k # 0 PROVE k - 1 \in Nat /\ k - 1 \notin I
        <4> HIDE DEF I
        <4> QED
          BY <2>1, <3>1, <3>2
      <3> QED
        BY <3>1, <3>2, Zenon
    <2> HIDE DEF I
    <2>3. CASE k = 0
      <3>1. Flows(line, 0, [j \in 0..0 |-> 0])
        BY DEF Flows
      <3> QED
        BY <2>2, <2>3, <3>1
    <2>4. CASE k # 0
      <3>1. k - 1 \in Nat /\ k \in Nat
        BY <2>2, <2>4
      <3>2. PICK g : Flows(line, k - 1, g)
        BY <2>2, <2>4, Zenon
      <3> DEFINE last == Passed(line[k], g[k - 1])
                 f == [j \in 0..k |-> IF j = k THEN last ELSE g[j]]
      <3>3. ASSUME NEW j \in 0..k
            PROVE  f[j] = IF j = 0 THEN 0 ELSE Passed(line[j], f[j - 1])
        <4>1. CASE j = k
          <5>1. f[j] = last /\ f[k - 1] = g[k - 1]
            BY <3>1, <4>1
          <5> QED
            BY <2>4, <4>1, <5>1
        <4>2. CASE j # k
          <5>1. j \in 0..(k - 1) /\ f[j] = g[j]
            BY <3>1, <4>2
          <5>2. j # 0 => f[j - 1] = g[j - 1]
            BY <3>1, <5>1
          <5>3. g[j] = IF j = 0 THEN 0 ELSE Passed(line[j], g[j - 1])
            BY <3>2, <5>1 DEF Flows
          <5> HIDE DEF f
          <5> QED
            BY <5>1, <5>2, <5>3, Zenon
        <4> QED
          BY <4>1, <4>2
      <3>4. Flows(line, k, f)
        BY <3>3 DEF Flows
      <3> QED
        BY <2>2, <3>4, Zenon
    <2> QED
      BY <2>3, <2>4
  <1> QED
    BY <1>1

\* Through, command by command; and no command lets more through than "emit" writes.
LEMMA ThroughStep ==
  ASSUME NEW line \in Seq(STRING), Items \in Nat
  PROVE  /\ Through(line, 0) = 0
         /\ \A n \in 1..Len(line) : Through(line, n) = Passed(line[n], Through(line, n - 1))
         /\ \A n \in 0..Len(line) : Through(line, n) \in 0..Items
  <1> DEFINE f == CHOOSE f : Flows(line, Len(line), f)
  <1>1. Len(line) \in Nat
    OBVIOUS
  <1>2. Flows(line, Len(line), f)
    BY <1>1, FlowsExist, Zenon
  <1>3. \A n : Through(line, n) = f[n]
    BY Zenon DEF Through, Flows
  <1> HIDE DEF f
  <1>4. f[0] = 0 /\ \A n \in 1..Len(line) : f[n] = Passed(line[n], f[n - 1])
    <2>1. \A n \in 0..Len(line) : f[n] = IF n = 0 THEN 0 ELSE Passed(line[n], f[n - 1])
      BY <1>2, Zenon DEF Flows
    <2> QED
      BY <1>1, <2>1
  <1>5. \A n \in 0..Len(line) : f[n] \in 0..Items
    <2> DEFINE I == {n \in 0..Len(line) : f[n] \notin 0..Items}
    <2>1. ASSUME I # {} PROVE FALSE
      <3>1. PICK k \in I : \A j \in I : k <= j
        <4>1. I \subseteq Nat
          BY <1>1
        <4> HIDE DEF I
        <4> QED
          BY <2>1, <4>1, FirstNumber
      <3>2. k # 0
        BY <1>4, <3>1
      <3>3. k \in 1..Len(line) /\ f[k - 1] \in 0..Items
        BY <1>1, <3>1, <3>2
      <3>4. f[k] = Passed(line[k], f[k - 1])
        BY <1>4, <3>3
      <3>5. f[k] \in 0..Items
        BY <3>3, <3>4 DEF Passed
      <3> QED
        BY <3>1, <3>5
    <2> QED
      BY <2>1
  <1> QED
    BY <1>3, <1>4, <1>5

\* The shells are a line of descendants of the first one.
Chain(m, f) ==
    /\ \A p \in Pids : kind[p] = "shell" <=> \E k \in 1..m : f[k] = p
    /\ \A k \in 1..m : IF k = 1 THEN f[k] = Shell ELSE parent[f[k]] = f[k - 1]
Lineage == \E m \in Nat : \E f \in [1..m -> Pids] : Chain(m, f)

\* The first shell keeps the terminal.  A child of it that has become one has the line its
\* parent has, and of that line the first command.
Console == in[Shell] = Tty /\ out[Shell] = Tty
Copied ==
    \A c \in Pids \ {Shell} : parent[c] = Shell =>
        /\ kind[c] = "forked" => sh[c].line = sh[Shell].line
        /\ kind[c] = "shell" => sh[Shell].line[1] \notin Programs

Setting == Lineage /\ Console /\ Copied

\* The first shell's line, the child for its n-th command, and how many there are.
Line == sh[Shell].line
Kid(n) == sh[Shell].kids[n]
Count == Len(sh[Shell].kids)
Dead(n) == kind[Kid(n)] \in {"zombie", "none"}

\* What the n-th command has read and written, and what was read of that; and whether
\* somebody still holds an end of the pipe behind it.
Wanted(name) == CASE name = "head" -> 1 [] name = "emit" -> 0 [] OTHER -> Items + 1
Got(n) == IF kind[Kid(n)] = "forked" THEN 0 ELSE Wanted(Line[n]) - quota[Kid(n)]
Put(n) == IF kind[Kid(n)] = "forked" THEN 0
          ELSE (IF Line[n] = "emit" THEN Items ELSE Got(n)) - left[Kid(n)]
Taken(n) == IF n < Count THEN Got(n + 1) ELSE 0
Open(n) == ~Dead(n) \/ n = Count \/ ~Dead(n + 1)

\* The first shell runs a line whose first command exists, and no fork has failed.
Piping == /\ kind[Shell] = "shell" /\ sh[Shell].pc # "prompt" /\ Line[1] \in Programs
          /\ \A n \in 1..Count : Kid(n) # NoPid

\* The commands run each in a process of its own, and each is given the pipe of the one before.
Stage(n) ==
    LET c == Kid(n) IN
    /\ c \in Pids \ {Shell} /\ parent[c] = Shell /\ kind[c] # "shell"
    /\ kind[c] = "none" => sh[Shell].pc = "wait"
    /\ kind[c] = "forked" => sh[c].line = Line /\ sh[c].i = n
    /\ in[c] = IF n = 1 THEN Tty ELSE out[Kid(n - 1)]
    /\ IF n = Len(Line) THEN out[c] = Tty
       ELSE out[c] \in Pipes /\ (~Dead(n) => <<"r", out[c]>> \in ends[c])

Stages ==
    /\ Line # <<>> /\ \A n \in 1..Len(Line) : Line[n] \in Programs
    /\ \A n \in 1..Count : Stage(n)
    /\ \A m, n \in 1..Count : Kid(m) = Kid(n) => m = n

\* The pipes the shell's variables speak of.
Ahead ==
    /\ sh[Shell].pc \in {"spawn", "fork"} =>
          sh[Shell].last = IF Count = 0 THEN Tty ELSE out[Kid(Count)]
    /\ sh[Shell].pc = "close" => /\ sh[Shell].last = in[Kid(Count)]
                                 /\ Count < Len(Line) => sh[Shell].pipe = out[Kid(Count)]
    /\ sh[Shell].pc = "wait" => Count = Len(Line)
    /\ sh[Shell].pc = "fork" => data[sh[Shell].pipe] = 0

\* No pipe is given out again while somebody holds it.
Apart ==
    /\ \A m, n \in 1..Count : Open(m) /\ Open(n) /\ out[Kid(m)] = out[Kid(n)] => m = n
    /\ sh[Shell].pc = "fork" => \A n \in 1..Count : Open(n) => out[Kid(n)] # sh[Shell].pipe

\* What was written and not read is in the pipe; no command writes more than the pipeline lets
\* through up to it, and it ends having written all of that.
Balance(n) ==
    /\ Got(n) \in Nat /\ Put(n) \in Nat
    /\ Got(n) <= IF n = 1 THEN 0 ELSE Put(n - 1)
    /\ Put(n) <= Through(Line, n)
    /\ Dead(n) => Put(n) = Through(Line, n)
    /\ n < Len(Line) /\ Open(n) => data[out[Kid(n)]] = Put(n) - Taken(n)
Balances == \A n \in 1..Count : Balance(n)

Printed == printed = IF Count = Len(Line) THEN Put(Count) ELSE 0

Flow == Stages /\ Ahead /\ Apart /\ Balances /\ Printed
FlowInv == Piping => Flow

----------------------------------------------------------------------------
\* A shell that has no shell for a child is the last of the line: if the first shell has none,
\* it is the only one.
LEMMA LoneShell ==
  ASSUME SashInv, Lineage, kind[Shell] = "shell", ~Leads(Shell), NEW p \in Pids, kind[p] = "shell"
  PROVE  p = Shell
  <1>1. PICK m \in Nat : \E f \in [1..m -> Pids] : Chain(m, f)
    BY DEF Lineage
  <1>2. PICK f \in [1..m -> Pids] : Chain(m, f)
    BY <1>1
  <1>3. PICK k \in 1..m : f[k] = p
    BY <1>2 DEF Chain
  <1>4. ASSUME k # 1 PROVE FALSE
    <2>1. 1 \in 1..m /\ 2 \in 1..m /\ 2 - 1 = 1
      BY <1>3, <1>4
    <2>2. f[1] = Shell /\ f[2] \in Pids /\ kind[f[2]] = "shell" /\ parent[f[2]] = Shell
      BY <1>2, <2>1 DEF Chain
    <2>3. f[2] # Shell
      BY <2>2, SashAssumption DEF SashInv, Family
    <2>4. First(Shell) = f[2]
      BY <2>2, <2>3 DEF SashInv, Heirs
    <2> QED
      BY <2>2, <2>4 DEF Leads
  <1> QED
    BY <1>2, <1>3, <1>4 DEF Chain

\* So it is while it runs a line whose first command exists.
LEMMA Alone ==
  ASSUME SashInv, Setting, Piping
  PROVE  \A p \in Pids : kind[p] = "shell" => p = Shell
  <1>1. kind[Shell] = "shell" /\ Shell \in Pids /\ parent[Shell] = NoPid /\ NoPid \notin Pids
    BY SashAssumption DEF Piping, SashInv, Family
  <1>2. ~Leads(Shell)
    BY <1>1 DEF Leads, Setting, Copied, Piping, Line
  <1> QED
    BY <1>1, <1>2, LoneShell DEF Setting

\* Every other process then is the child for one of its commands.
LEMMA Working ==
  ASSUME SashInv, Setting, Piping, NEW c \in Pids, kind[c] # "none", c # Shell
  PROVE  kind[c] # "shell" /\ \E n \in 1..Count : Kid(n) = c
  <1>1. parent[c] \in Pids /\ kind[parent[c]] = "shell" /\ Awaited(parent[c], c)
    BY DEF SashInv, Family
  <1>2. parent[c] = Shell /\ kind[c] # "shell"
    BY <1>1, Alone
  <1> QED
    BY <1>1, <1>2 DEF Awaited, Count, Kid

\* What is known of the first shell's own variables.
LEMMA ShellPlace ==
  ASSUME SashInv, Piping
  PROVE  /\ Shell \in Pids /\ sh[Shell] \in Frames /\ ends[Shell] = Held(sh[Shell])
         /\ sh[Shell].kids \in Seq(Pids \cup {NoPid}) /\ Line \in Seq(STRING)
         /\ Count \in Nat /\ Len(Line) \in Nat /\ sh[Shell].i \in Nat \ {0}
         /\ sh[Shell].pc \in {"spawn", "fork"} => sh[Shell].i = Count + 1 /\ Count < Len(Line)
         /\ sh[Shell].pc = "close" => sh[Shell].i = Count /\ Count <= Len(Line)
         /\ sh[Shell].pc = "fork" => Count + 1 < Len(Line)
         /\ sh[Shell].pc \in {"fork", "close"} /\ sh[Shell].i < Len(Line) =>
               sh[Shell].pipe \in Pipes /\ sh[Shell].pipe # sh[Shell].last
         /\ sh[Shell].pc \in {"spawn", "fork", "close", "wait"}
         /\ Items \in Nat /\ Tty \notin Pipes /\ NoPid \notin Pids /\ Capacity \in Nat \ {0}
  <1>1. Shell \in Pids /\ kind[Shell] = "shell" /\ sh[Shell].pc # "prompt"
    BY SashAssumption DEF Piping
  <1>2. /\ sh[Shell] \in Frames /\ Consistent(sh[Shell]) /\ ends[Shell] = Held(sh[Shell])
        /\ sh[Shell].kids \in Seq(Pids \cup {NoPid}) /\ sh[Shell].line \in Seq(STRING)
        /\ sh[Shell].i \in Nat \ {0}
    BY <1>1, ShellAt
  <1>3. sh[Shell].pc \in Labels
    BY <1>2 DEF Frames
  <1>4. Len(sh[Shell].kids) \in Nat /\ Len(sh[Shell].line) \in Nat
    BY <1>2
  <1> QED
    BY <1>1, <1>2, <1>3, <1>4, SashAssumption DEF Consistent, Labels, Count, Line

\* The line of shells is the same as long as the same processes are shells.
LEMMA ChainKept ==
  ASSUME SashInv, Lineage,
         \A p \in Pids : kind'[p] = "shell" <=> kind[p] = "shell",
         \A p \in Pids : kind[p] = "shell" => parent'[p] = parent[p]
  PROVE  Lineage'
  <1>1. PICK m \in Nat : \E f \in [1..m -> Pids] : Chain(m, f)
    BY DEF Lineage
  <1>2. PICK f \in [1..m -> Pids] : Chain(m, f)
    BY <1>1
  <1>3. \A k \in 1..m : f[k] \in Pids /\ kind[f[k]] = "shell"
    BY <1>2 DEF Chain
  <1>4. \A k \in 1..m : IF k = 1 THEN f[k] = Shell ELSE parent'[f[k]] = f[k - 1]
    BY <1>2, <1>3 DEF Chain
  <1>5. \A p \in Pids : kind'[p] = "shell" <=> \E k \in 1..m : f[k] = p
    BY <1>2 DEF Chain
  <1>6. Chain(m, f)'
    BY <1>4, <1>5 DEF Chain
  <1> QED
    BY <1>6 DEF Lineage

\* The shell that returns has no child: it is the last of them.
LEMMA ChainShortened == ASSUME SashInv, Lineage, NEW p \in Pids, Eof(p) PROVE Lineage'
  <1>1. kind[p] = "shell" /\ sh[p].pc = "prompt" /\ parent' = parent
        /\ kind' = [kind EXCEPT ![p] = "zombie"]
    BY DEF Eof, At
  <1>2. \A q \in Pids : kind'[q] = "shell" <=> kind[q] = "shell" /\ q # p
    BY <1>1 DEF SashInv, TypeOK
  <1>3. PICK m \in Nat : \E f \in [1..m -> Pids] : Chain(m, f)
    BY DEF Lineage
  <1>4. PICK f \in [1..m -> Pids] : Chain(m, f)
    BY <1>3
  <1>5. PICK k \in 1..m : f[k] = p
    BY <1>1, <1>4 DEF Chain
  <1>6. ASSUME NEW j \in 1..m, f[j] = p PROVE j = m
    <2>1. ASSUME j # m PROVE FALSE
      <3>1. j + 1 \in 1..m /\ j + 1 # 1 /\ (j + 1) - 1 = j
        BY <1>3, <1>6, <2>1
      <3>2. f[j + 1] \in Pids /\ kind[f[j + 1]] = "shell" /\ parent[f[j + 1]] = p
        BY <1>4, <1>6, <3>1 DEF Chain
      <3>3. sh[p].kids = <<>> /\ Awaited(p, f[j + 1])
        BY <1>1, <3>2, ShellAt DEF Consistent
      <3> QED
        BY <3>3 DEF Awaited
    <2> QED
      BY <2>1
  <1> DEFINE g == [j \in 1..(m - 1) |-> f[j]]
  <1>7. m - 1 \in Nat /\ g \in [1..(m - 1) -> Pids]
    BY <1>5
  <1>8. \A j \in 1..(m - 1) : /\ j \in 1..m /\ g[j] = f[j]
                              /\ j # 1 => j - 1 \in 1..(m - 1) /\ g[j - 1] = f[j - 1]
    BY <1>3
  <1> HIDE DEF g
  <1>9. \A q \in Pids : kind'[q] = "shell" <=> \E j \in 1..(m - 1) : g[j] = q
    <2>1. ASSUME NEW q \in Pids, kind[q] = "shell", q # p PROVE \E j \in 1..(m - 1) : g[j] = q
      <3>1. PICK j \in 1..m : f[j] = q
        BY <1>4, <2>1 DEF Chain
      <3>2. f[m] = p
        BY <1>5, <1>6
      <3>3. j \in 1..(m - 1)
        BY <1>3, <2>1, <3>1, <3>2
      <3> QED
        BY <1>8, <3>1, <3>3
    <2>2. ASSUME NEW j \in 1..(m - 1) PROVE kind[g[j]] = "shell" /\ g[j] # p
      <3>1. j # m
        BY <1>3
      <3> QED
        BY <1>4, <1>6, <1>8, <3>1 DEF Chain
    <2> QED
      BY <1>2, <2>1, <2>2
  <1>10. \A j \in 1..(m - 1) : IF j = 1 THEN g[j] = Shell ELSE parent'[g[j]] = g[j - 1]
    BY <1>1, <1>4, <1>8 DEF Chain
  <1>11. Chain(m - 1, g)'
    BY <1>9, <1>10 DEF Chain
  <1> QED
    BY <1>7, <1>11 DEF Lineage

\* The child that becomes one comes after the last: a shell before the last has another heir.
LEMMA ChainExtended == ASSUME SashInv, Lineage, NEW c \in Pids, ExecFails(c) PROVE Lineage'
  <1>1. kind[c] = "forked" /\ parent' = parent /\ sh' = sh /\ kind' = [kind EXCEPT ![c] = "shell"]
    BY DEF ExecFails
  <1>2. \A q \in Pids : kind'[q] = "shell" <=> kind[q] = "shell" \/ q = c
    BY <1>1 DEF SashInv, TypeOK
  <1>3. PICK m \in Nat : \E f \in [1..m -> Pids] : Chain(m, f)
    BY DEF Lineage
  <1>4. PICK f \in [1..m -> Pids] : Chain(m, f)
    BY <1>3
  <1>5. c # Shell /\ parent[c] \in Pids /\ kind[parent[c]] = "shell" /\ parent[Shell] = NoPid
    BY <1>1 DEF SashInv, Family
  <1>6. First(parent[c]) = c
    <2>1. Heirs' /\ kind'[c] = "shell"
      BY <1>2, ExecFailsKeeps
    <2> QED
      BY <1>1, <1>5, <2>1 DEF Heirs, First
  <1>7. PICK k \in 1..m : f[k] = parent[c]
    BY <1>4, <1>5 DEF Chain
  <1>8. k = m
    <2>1. ASSUME k # m PROVE FALSE
      <3>1. k + 1 \in 1..m /\ k + 1 # 1 /\ (k + 1) - 1 = k
        BY <1>3, <1>7, <2>1
      <3>2. f[k + 1] \in Pids /\ kind[f[k + 1]] = "shell" /\ parent[f[k + 1]] = parent[c]
        BY <1>4, <1>7, <3>1 DEF Chain
      <3>3. f[k + 1] # Shell
        BY <1>5, <3>2, SashAssumption
      <3>4. First(parent[c]) = f[k + 1]
        BY <3>2, <3>3 DEF SashInv, Heirs
      <3> QED
        BY <1>1, <1>6, <3>2, <3>4
    <2> QED
      BY <2>1
  <1> DEFINE g == [j \in 1..(m + 1) |-> IF j = m + 1 THEN c ELSE f[j]]
  <1>9. m + 1 \in Nat /\ g \in [1..(m + 1) -> Pids] /\ g[m + 1] = c /\ m # 0
    BY <1>7
  <1>10. \A j \in 1..m : /\ j \in 1..(m + 1) /\ g[j] = f[j]
                         /\ j # 1 => j - 1 \in 1..m /\ g[j - 1] = f[j - 1]
    BY <1>3
  <1> HIDE DEF g
  <1>11. \A q \in Pids : kind'[q] = "shell" <=> \E j \in 1..(m + 1) : g[j] = q
    <2>1. ASSUME NEW q \in Pids, kind'[q] = "shell" PROVE \E j \in 1..(m + 1) : g[j] = q
      <3>1. CASE q = c
        <4>1. m + 1 \in 1..(m + 1)
          BY <1>9
        <4> QED
          BY <1>9, <3>1, <4>1
      <3>2. CASE q # c
        BY <1>2, <1>4, <1>10, <2>1, <3>2 DEF Chain
      <3> QED
        BY <3>1, <3>2
    <2>2. ASSUME NEW j \in 1..(m + 1) PROVE kind'[g[j]] = "shell"
      <3>1. CASE j = m + 1
        BY <1>2, <1>9, <3>1
      <3>2. CASE j # m + 1
        <4>1. j \in 1..m
          BY <1>3, <3>2
        <4> QED
          BY <1>2, <1>4, <1>10, <4>1 DEF Chain
      <3> QED
        BY <3>1, <3>2
    <2> QED
      BY <2>1, <2>2
  <1>12. ASSUME NEW j \in 1..(m + 1)
         PROVE  IF j = 1 THEN g[j] = Shell ELSE parent'[g[j]] = g[j - 1]
    <2>1. CASE j = m + 1
      <3>1. m \in 1..m /\ j - 1 = m /\ j # 1
        BY <1>3, <1>9, <2>1
      <3>2. g[j] = c /\ g[j - 1] = f[m]
        BY <1>9, <1>10, <2>1, <3>1
      <3> QED
        BY <1>1, <1>7, <1>8, <3>1, <3>2
    <2>2. CASE j # m + 1
      <3>1. j \in 1..m
        BY <1>3, <2>2
      <3> QED
        BY <1>1, <1>4, <1>10, <3>1 DEF Chain
    <2> QED
      BY <2>1, <2>2
  <1>13. Chain(m + 1, g)'
    BY <1>11, <1>12 DEF Chain
  <1> QED
    BY <1>9, <1>13 DEF Lineage

\* The line of shells, the first one's descriptors, and the lines its children have.
LEMMA SettingKept == ASSUME SashInv, Setting, Next PROVE Setting'
  <1> PICK p \in Pids : ShellStep(p) \/ ProgramStep(p)
    BY DEF Next
  <1>0. /\ kind \in [Pids -> {"none", "shell", "forked", "program", "zombie"}]
        /\ parent \in [Pids -> Pids \cup {NoPid}] /\ sh \in [Pids -> Frames]
        /\ in \in [Pids -> Pipes \cup {Tty}] /\ out \in [Pids -> Pipes \cup {Tty}]
        /\ Shell \in Pids /\ kind[Shell] \in {"shell", "zombie"} /\ parent[Shell] = NoPid
        /\ NoPid \notin Pids
    BY SashAssumption DEF SashInv, TypeOK, Family
  <1>1. CASE GetLine(p) \/ Prompt(p)
    <2>1. kind[p] = "shell" /\ kind' = kind /\ UNCHANGED <<parent, in, out>>
      BY <1>1 DEF GetLine, Prompt, At
    <2>2. \A c \in Pids : kind[c] # "none" => parent[c] # p
      <3>1. ASSUME NEW c \in Pids, kind[c] # "none", parent[c] = p PROVE FALSE
        <4>1. PICK n \in 1..Len(sh[p].kids) : sh[p].pc = "wait" => n >= sh[p].i
          BY <2>1, <3>1, ShellAt DEF Awaited
        <4>2. sh[p].pc = "prompt" \/ (sh[p].pc = "wait" /\ sh[p].i > Len(sh[p].kids))
          BY <1>1 DEF GetLine, Prompt, At
        <4>3. /\ Len(sh[p].kids) \in Nat /\ (sh[p].pc = "prompt" => sh[p].kids = <<>>)
              /\ sh[p].i \in Nat
          BY <2>1, ShellAt DEF Consistent
        <4> QED
          BY <4>1, <4>2, <4>3
      <3> QED
        BY <3>1
    <2>3. \A c \in Pids \ {p} : sh'[c] = sh[c]
      BY <1>0, <1>1 DEF GetLine, Prompt
    <2>4. Lineage'
      BY <2>1, ChainKept DEF Setting
    <2>5. ASSUME NEW c \in Pids \ {Shell}, parent'[c] = Shell
          PROVE  /\ kind'[c] = "forked" => sh'[c].line = sh'[Shell].line
                 /\ kind'[c] = "shell" => sh'[Shell].line[1] \notin Programs
      <3>1. parent[c] = Shell /\ kind'[c] = kind[c]
        BY <2>1, <2>5
      <3>2. CASE kind[c] \in {"forked", "shell"}
        <4>1. p # Shell /\ sh'[Shell] = sh[Shell]
          BY <1>0, <2>2, <2>3, <3>1, <3>2
        <4>2. kind[c] = "forked" => sh'[c] = sh[c]
          BY <2>1, <2>3
        <4> QED
          BY <3>1, <4>1, <4>2 DEF Setting, Copied
      <3> QED
        BY <3>1, <3>2
    <2> QED
      BY <2>1, <2>4, <2>5 DEF Setting, Console, Copied
  <1>2. CASE Eof(p)
    <2>1. /\ kind[p] = "shell" /\ kind' = [kind EXCEPT ![p] = "zombie"]
          /\ UNCHANGED <<parent, in, out, sh>>
      BY <1>2 DEF Eof, At
    <2>2. Lineage'
      BY <1>2, ChainShortened DEF Setting
    <2> QED
      BY <1>0, <2>1, <2>2 DEF Setting, Console, Copied
  <1>3. CASE MakePipe(p) \/ ForkFails(p) \/ Close(p)
    <2>1. kind' = kind /\ UNCHANGED <<parent, in, out>> /\ kind[p] = "shell"
      BY <1>3 DEF MakePipe, ForkFails, MayFork, Close, At
    <2>2. \A c \in Pids : sh'[c].line = sh[c].line
      <3>1. \A c \in Pids \ {p} : sh'[c] = sh[c]
        BY <1>0, <1>3 DEF MakePipe, ForkFails, Close
      <3>2. sh'[p].line = sh[p].line
        <4>1. CASE MakePipe(p)
          BY <1>0, <4>1 DEF MakePipe, Frames
        <4>2. CASE ForkFails(p)
          BY <1>0, <4>2 DEF ForkFails, Frames
        <4>3. CASE Close(p)
          <5>1. sh'[p] = IF IsLast(p)
                         THEN [sh[p] EXCEPT !.pc = "wait", !.i = 1]
                         ELSE [sh[p] EXCEPT !.pc = "spawn", !.i = @ + 1, !.last = sh[p].pipe]
            BY <1>0, <4>3 DEF Close
          <5>2. [sh[p] EXCEPT !.pc = "wait", !.i = 1].line = sh[p].line
            BY <1>0, LastFrame
          <5>3. [sh[p] EXCEPT !.pc = "spawn", !.i = @ + 1, !.last = sh[p].pipe].line = sh[p].line
            BY <1>0, NextFrame
          <5> QED
            BY <5>1, <5>2, <5>3
        <4> QED
          BY <1>3, <4>1, <4>2, <4>3
      <3> QED
        BY <3>1, <3>2
    <2>3. Lineage'
      BY <2>1, ChainKept DEF Setting
    <2> QED
      BY <1>0, <2>1, <2>2, <2>3 DEF Setting, Console, Copied
  <1>4. CASE Fork(p)
    <2>1. PICK c \in Pids :
            /\ kind[c] = "none" /\ kind' = [kind EXCEPT ![c] = "forked"]
            /\ parent' = [parent EXCEPT ![c] = p]
            /\ in' = [in EXCEPT ![c] = DupIn(p)] /\ out' = [out EXCEPT ![c] = DupOut(p)]
            /\ sh' = [sh EXCEPT ![p].pc = "close", ![p].kids = Append(@, c),
                                ![c] = [sh[p] EXCEPT !.pc = "close", !.kids = Append(@, NoPid)]]
      BY <1>4 DEF Fork
    <2>2. kind[p] = "shell" /\ c # p /\ c # Shell
      BY <1>0, <1>4, <2>1 DEF Fork, MayFork, At
    <2>3. /\ \A d \in Pids \ {c} : sh'[d].line = sh[d].line
          /\ sh'[c].line = sh[p].line
      <3> DEFINE g(k) == [sh[p] EXCEPT !.pc = "close", !.kids = Append(@, k)]
      <3>1. g(c).line = sh[p].line /\ g(NoPid).line = sh[p].line
        BY <1>0 DEF Frames
      <3>2. sh' = [[sh EXCEPT ![p] = g(c)] EXCEPT ![c] = g(NoPid)]
        BY <1>0, <2>1, <2>2 DEF Frames
      <3> HIDE DEF g
      <3> QED
        BY <1>0, <2>2, <3>1, <3>2
    <2>4. \A d \in Pids \ {c} : kind'[d] = kind[d] /\ parent'[d] = parent[d]
                                /\ in'[d] = in[d] /\ out'[d] = out[d]
      BY <1>0, <2>1
    <2>5. kind'[c] = "forked" /\ parent'[c] = p
      BY <1>0, <2>1
    <2>6. Lineage'
      BY <2>1, <2>4, <2>5, ChainKept DEF Setting
    <2>7. Copied'
      BY <1>0, <2>2, <2>3, <2>4, <2>5 DEF Setting, Copied
    <2> QED
      BY <1>0, <2>2, <2>4, <2>6, <2>7 DEF Setting, Console
  <1>5. CASE Wait(p)
    <2>1. /\ UNCHANGED <<parent, in, out>>
          /\ kind' = kind \/ \E z \in Pids : kind[z] = "zombie" /\ kind' = [kind EXCEPT ![z] = "none"]
      BY <1>5 DEF Wait, Children
    <2>2. \A c \in Pids : kind'[c] = kind[c] \/ (kind[c] = "zombie" /\ kind'[c] = "none")
      BY <1>0, <2>1
    <2>3. \A c \in Pids : sh'[c].line = sh[c].line
      BY <1>0, <1>5 DEF Wait, Frames
    <2>4. Lineage'
      BY <2>1, <2>2, ChainKept DEF Setting
    <2>5. Copied'
      <3>1. \A c \in Pids : kind'[c] \in {"forked", "shell"} => kind'[c] = kind[c]
        BY <2>2
      <3> QED
        BY <1>0, <2>1, <2>3, <3>1 DEF Setting, Copied
    <2> QED
      BY <2>1, <2>4, <2>5 DEF Setting, Console
  <1>6. CASE Exec(p) \/ Read(p) \/ Write(p) \/ Exit(p)
    <2>1. /\ UNCHANGED <<parent, in, out, sh>>
          /\ \A c \in Pids : kind'[c] = kind[c] \/ (kind[c] \in {"forked", "program"}
                                                   /\ kind'[c] \in {"program", "zombie"})
      BY <1>0, <1>6 DEF Exec, Read, Write, Exit
    <2>2. Lineage'
      BY <2>1, ChainKept DEF Setting
    <2> QED
      BY <2>1, <2>2 DEF Setting, Console, Copied
  <1>7. CASE ExecFails(p)
    <2>1. /\ kind[p] = "forked" /\ kind' = [kind EXCEPT ![p] = "shell"]
          /\ UNCHANGED <<parent, in, out, sh>> /\ sh[p].line[sh[p].i] \notin Programs
      BY <1>7 DEF ExecFails, Command
    <2>2. Lineage'
      BY <1>7, ChainExtended DEF Setting
    <2>3. sh[p].i = 1
      <3>1. sh[p] \in Frames /\ Consistent(sh[p]) /\ sh[p].pc = "close"
        BY <2>1 DEF SashInv, Placed
      <3>2. sh[p].i \in Nat \ {0} /\ Len(sh[p].line) \in Nat
        BY <3>1 DEF Frames
      <3> QED
        BY <2>1, <3>1, <3>2 DEF Consistent
    <2>4. Copied'
      <3>1. \A c \in Pids \ {p} : kind'[c] = kind[c]
        BY <1>0, <2>1
      <3> QED
        BY <2>1, <2>3, <3>1 DEF Setting, Copied
    <2> QED
      BY <2>1, <2>2, <2>4 DEF Setting, Console
  <1> QED
    BY <1>1, <1>2, <1>3, <1>4, <1>5, <1>6, <1>7 DEF ShellStep, ProgramStep

\* What the n-th command may come to.
LEMMA Amounts ==
  ASSUME SashInv, Piping, Flow, NEW n \in 1..Count
  PROVE  /\ n \in Nat /\ n <= Len(Line) /\ Kid(n) \in Pids \ {Shell} /\ Items \in Nat
         /\ Through(Line, n) = Passed(Line[n], Through(Line, n - 1))
         /\ Through(Line, n) \in 0..Items /\ Through(Line, n - 1) \in 0..Items
         /\ n = 1 => Through(Line, n - 1) = 0
         /\ Got(n) \in Nat /\ Put(n) \in Nat /\ Got(n) <= Through(Line, n - 1)
         /\ left[Kid(n)] \in Nat /\ quota[Kid(n)] \in Nat
         /\ n # 1 => n - 1 \in 1..Count /\ Put(n - 1) \in Nat
  <1>1. /\ Count \in Nat /\ Len(Line) \in Nat /\ Count <= Len(Line) /\ Items \in Nat
        /\ Line \in Seq(STRING)
    BY ShellPlace DEF Flow, Ahead
  <1>2. n \in 1..Len(Line) /\ n \in 0..Len(Line) /\ n - 1 \in 0..Len(Line) /\ n \in Nat
    BY <1>1
  <1>3. /\ Through(Line, 0) = 0 /\ Through(Line, n) = Passed(Line[n], Through(Line, n - 1))
        /\ Through(Line, n) \in 0..Items /\ Through(Line, n - 1) \in 0..Items
    BY <1>1, <1>2, ThroughStep
  <1>4. n = 1 => n - 1 = 0
    OBVIOUS
  <1>5. n # 1 => n - 1 \in 1..Count
    BY <1>1
  <1>6. /\ Got(n) \in Nat /\ Put(n) \in Nat
        /\ Got(n) <= IF n = 1 THEN 0 ELSE Put(n - 1)
    BY DEF Flow, Balances, Balance
  <1>7. n # 1 => Put(n - 1) \in Nat /\ Put(n - 1) <= Through(Line, n - 1)
    BY <1>5 DEF Flow, Balances, Balance
  <1>8. Kid(n) \in Pids \ {Shell}
    BY DEF Flow, Stages, Stage
  <1>9. left[Kid(n)] \in Nat /\ quota[Kid(n)] \in Nat
    BY <1>1, <1>8 DEF SashInv, TypeOK
  <1>10. Got(n) <= Through(Line, n - 1)
    BY <1>3, <1>4, <1>6, <1>7
  <1> QED
    BY <1>1, <1>2, <1>3, <1>4, <1>5, <1>6, <1>7, <1>8, <1>9, <1>10

\* A program has not written all that comes through while it has lines left; and when it has
\* none left, and has read all it wants or all there is, it has written that.
LEMMA Wants ==
  ASSUME SashInv, Piping, Flow, NEW n \in 1..Count, kind[Kid(n)] = "program"
  PROVE  /\ Put(n) + left[Kid(n)] <= Through(Line, n)
         /\ left[Kid(n)] = 0 /\ quota[Kid(n)] = 0 => Put(n) = Through(Line, n)
         /\ left[Kid(n)] = 0 /\ Got(n) = Through(Line, n - 1) => Put(n) = Through(Line, n)
  <1> DEFINE t == Through(Line, n)
             u == Through(Line, n - 1)
             g == Got(n)
             w == Put(n)
             a == left[Kid(n)]
             q == quota[Kid(n)]
  <1>1. /\ t \in Nat /\ u \in Nat /\ g \in Nat /\ w \in Nat /\ a \in Nat /\ q \in Nat
        /\ t = Passed(Line[n], u) /\ g <= u /\ u <= Items /\ Items \in Nat
    BY Amounts
  <1>2. /\ g = Wanted(Line[n]) - q
        /\ w = (IF Line[n] = "emit" THEN Items ELSE g) - a
    BY DEF Got, Put
  <1> HIDE DEF t, u, g, w, a, q
  <1>3. w + a <= t /\ (a = 0 /\ q = 0 => w = t) /\ (a = 0 /\ g = u => w = t)
    <2>1. CASE Line[n] = "emit"
      BY <1>1, <1>2, <2>1 DEF Passed, Wanted
    <2>2. CASE Line[n] = "head"
      BY <1>1, <1>2, <2>2 DEF Passed, Wanted
    <2>3. CASE Line[n] \notin {"emit", "head"}
      BY <1>1, <1>2, <2>3 DEF Passed, Wanted
    <2> QED
      BY <2>1, <2>2, <2>3
  <1> QED
    BY <1>3 DEF t, u, g, w, a, q

\* A step of one child's program leaves every child at its stage.
LEMMA StagesKept ==
  ASSUME Stages, NEW n \in 1..Count, ~Dead(n), UNCHANGED <<sh, parent, in, out>>,
         \A p \in Pids \ {Kid(n)} : kind'[p] = kind[p] /\ ends'[p] = ends[p],
         kind'[Kid(n)] \in {"program", "zombie"},
         kind'[Kid(n)] = "program" => ends'[Kid(n)] = ends[Kid(n)]
  PROVE  Stages'
  <1>1. ASSUME NEW m \in 1..Count PROVE Stage(m)'
    <2>1. Stage(m) /\ Kid(m)' = Kid(m) /\ Kid(m - 1)' = Kid(m - 1) /\ Line' = Line
      BY DEF Stages, Kid, Line
    <2>2. CASE Kid(m) = Kid(n)
      <3>1. ~Dead(m)
        BY <2>2 DEF Dead
      <3> QED
        BY <2>1, <2>2, <3>1 DEF Stage, Dead
    <2>3. CASE Kid(m) # Kid(n)
      <3>1. kind'[Kid(m)] = kind[Kid(m)] /\ ends'[Kid(m)] = ends[Kid(m)]
        BY <2>1, <2>3 DEF Stage
      <3> QED
        BY <2>1, <3>1 DEF Stage, Dead
    <2> QED
      BY <2>2, <2>3
  <1>2. Count' = Count /\ Line' = Line /\ \A m : Kid(m)' = Kid(m)
    BY DEF Count, Line, Kid
  <1> QED
    BY <1>1, <1>2 DEF Stages

\* And the others' accounts as they are.
LEMMA OthersKept ==
  ASSUME Stages, NEW n \in 1..Count, UNCHANGED sh,
         \A p \in Pids \ {Kid(n)} : kind'[p] = kind[p] /\ left'[p] = left[p] /\ quota'[p] = quota[p]
  PROVE  \A m \in 1..Count \ {n} : Got(m)' = Got(m) /\ Put(m)' = Put(m) /\ Dead(m)' = Dead(m)
  <1> SUFFICES ASSUME NEW m \in 1..Count \ {n}
               PROVE  Got(m)' = Got(m) /\ Put(m)' = Put(m) /\ Dead(m)' = Dead(m)
    OBVIOUS
  <1>1. Kid(m) \in Pids \ {Kid(n)} /\ Kid(m)' = Kid(m) /\ Line' = Line
    BY DEF Stages, Stage, Kid, Line
  <1>2. /\ kind'[Kid(m)] = kind[Kid(m)] /\ left'[Kid(m)] = left[Kid(m)]
        /\ quota'[Kid(m)] = quota[Kid(m)]
    BY <1>1
  <1>3. Got(m)' = Got(m) /\ Dead(m)' = Dead(m)
    BY <1>1, <1>2 DEF Got, Dead
  <1> QED
    BY <1>1, <1>2, <1>3 DEF Put

\* The program begins: nothing read, nothing written.
LEMMA ExecFlow ==
  ASSUME SashInv, Setting, Piping, Flow, NEW c \in Pids, Exec(c)
  PROVE  Flow'
  <1>1. /\ kind[c] = "forked" /\ kind' = [kind EXCEPT ![c] = "program"]
        /\ left' = [left EXCEPT ![c] = IF Command(c) = "emit" THEN Items ELSE 0]
        /\ quota' = [quota EXCEPT ![c] = CASE Command(c) = "head" -> 1
                                           [] Command(c) = "emit" -> 0
                                           [] OTHER -> Items + 1]
        /\ UNCHANGED <<parent, in, out, ends, sh, data, printed>>
    BY DEF Exec
  <1>2. PICK n \in 1..Count : Kid(n) = c
    BY <1>1, Working, ShellPlace DEF Piping
  <1>3. Command(c) = Line[n] /\ Items \in Nat
    BY <1>1, <1>2, ShellPlace DEF Flow, Stages, Stage, Command
  <1>4. /\ kind'[c] = "program" /\ left'[c] = IF Line[n] = "emit" THEN Items ELSE 0
        /\ quota'[c] = CASE Line[n] = "head" -> 1 [] Line[n] = "emit" -> 0 [] OTHER -> Items + 1
        /\ \A p \in Pids \ {c} : kind'[p] = kind[p] /\ left'[p] = left[p] /\ quota'[p] = quota[p]
    BY <1>1, <1>3 DEF SashInv, TypeOK
  <1>5. ~Dead(n) /\ ~Dead(n)'
    BY <1>1, <1>2, <1>4 DEF Dead, Kid
  <1>6. Stages'
    BY <1>1, <1>2, <1>4, <1>5, StagesKept DEF Flow
  <1>7. /\ Count' = Count /\ Line' = Line /\ \A m : Kid(m)' = Kid(m)
    BY <1>1 DEF Count, Line, Kid
  <1>8. ASSUME NEW m \in 1..Count, m = n
        PROVE  Got(m)' = Got(m) /\ Put(m)' = Put(m) /\ Dead(m)' = Dead(m)
    <2>1. Got(m)' = 0 /\ Got(m) = 0
      BY <1>1, <1>2, <1>3, <1>4, <1>7, <1>8 DEF Got, Wanted
    <2>2. Put(m)' = 0 /\ Put(m) = 0
      BY <1>1, <1>2, <1>3, <1>4, <1>7, <1>8, <2>1 DEF Put
    <2> QED
      BY <1>1, <1>2, <1>4, <1>7, <1>8, <2>1, <2>2 DEF Dead
  <1>9. ASSUME NEW m \in 1..Count
        PROVE  Got(m)' = Got(m) /\ Put(m)' = Put(m) /\ Dead(m)' = Dead(m)
    <2>1. CASE m # n
      BY <1>1, <1>2, <1>4, <2>1, OthersKept DEF Flow
    <2> QED
      BY <1>8, <2>1
  <1>10. Count \in Nat
    BY ShellPlace
  <1>11. \A m \in 1..Count : Open(m)' = Open(m) /\ (Taken(m)' = Taken(m))
    BY <1>7, <1>9, <1>10 DEF Open, Taken
  <1>12. Ahead'
    BY <1>1, <1>7 DEF Flow, Ahead
  <1>13. Apart'
    BY <1>1, <1>7, <1>11 DEF Flow, Apart
  <1>14. Balances'
    <2> SUFFICES ASSUME NEW m \in 1..Count PROVE Balance(m)'
      BY <1>7 DEF Balances
    <2>1. Balance(m)
      BY DEF Flow, Balances
    <2>2. m # 1 => m - 1 \in 1..Count
      BY <1>10
    <2>3. m # 1 => Put(m - 1)' = Put(m - 1)
      BY <1>9, <2>2
    <2>4. Through(Line, m)' = Through(Line, m)
      BY <1>7
    <2> QED
      BY <1>1, <1>7, <1>9, <1>11, <2>1, <2>3, <2>4 DEF Balance
  <1>15. Printed'
    <2>1. Count = 0 \/ Count \in 1..Count
      BY <1>10
    <2> QED
      BY <1>1, <1>7, <1>9, <2>1, ShellPlace DEF Flow, Printed, Ahead
  <1> QED
    BY <1>6, <1>12, <1>13, <1>14, <1>15 DEF Flow

\* A program that is allowed to end has written all that comes through: the command before it
\* has ended when nobody holds a write end, and it holds itself a read end of what it writes to.
LEMMA EndsWithAll ==
  ASSUME SashInv, Setting, Piping, Flow, NEW n \in 1..Count,
         kind[Kid(n)] = "program", Finished(Kid(n))
  PROVE  Put(n) = Through(Line, n)
  <1> DEFINE c == Kid(n)
  <1>1. /\ c \in Pids /\ left[c] \in Nat /\ quota[c] \in Nat /\ ~Dead(n) /\ Stage(n)
        /\ Count \in Nat /\ n \in Nat /\ n <= Len(Line) /\ Len(Line) \in Nat /\ Tty \notin Pipes
    BY Amounts, ShellPlace DEF Flow, Stages, Dead
  <1>2. n # 1 => /\ n - 1 \in 1..Count /\ n - 1 # Len(Line)
                 /\ in[c] = out[Kid(n - 1)] /\ out[Kid(n - 1)] \in Pipes
    <2>1. ASSUME n # 1 PROVE n - 1 \in 1..Count /\ n - 1 # Len(Line) /\ in[c] = out[Kid(n - 1)]
      BY <1>1, <2>1 DEF Stage
    <2>2. ASSUME n # 1 PROVE Stage(n - 1)
      BY <2>1, <2>2 DEF Flow, Stages
    <2> QED
      BY <2>1, <2>2 DEF Stage
  <1>3. CASE left[c] = 0 /\ quota[c] = 0
    BY <1>3, Wants
  <1>4. CASE left[c] = 0 /\ in[c] = Tty
    <2>1. n = 1
      BY <1>1, <1>2, <1>4
    <2>2. Got(n) = Through(Line, n - 1)
      BY <2>1, Amounts
    <2> QED
      BY <1>4, <2>2, Wants
  <1>5. CASE left[c] = 0 /\ in[c] \in Pipes /\ data[in[c]] = 0 /\ Writers(in[c]) = {}
    <2>1. n # 1
      BY <1>1, <1>5 DEF Stage
    <2>2. PICK m \in 1..Count : m = n - 1
      BY <1>2, <2>1
    <2>3. in[c] = out[Kid(m)] /\ m # Len(Line) /\ n = m + 1 /\ m \in Nat /\ m < Len(Line)
      BY <1>1, <1>2, <2>1, <2>2
    <2>4. Dead(m)
      <3>1. kind[Kid(m)] \in {"none", "shell", "forked", "program", "zombie"} /\ Kid(m) \in Pids
        BY DEF Flow, Stages, Stage, SashInv, TypeOK
      <3>2. ~Alive(Kid(m))
        BY <1>5, <2>3, <3>1 DEF Writers
      <3> QED
        BY <3>1, <3>2 DEF Alive, Dead
    <2>5. Balance(m) /\ Open(m) /\ Taken(m) = Got(n)
      BY <1>1, <2>3 DEF Flow, Balances, Open, Taken
    <2>6. Put(m) - Got(n) = 0 /\ Put(m) = Through(Line, m)
      BY <1>5, <2>3, <2>4, <2>5 DEF Balance
    <2>7. Put(m) \in Nat /\ Got(n) \in Nat
      BY Amounts
    <2>8. Got(n) = Through(Line, n - 1)
      BY <2>2, <2>6, <2>7
    <2> QED
      BY <1>5, <2>8, Wants
  <1>6. CASE left[c] > 0 /\ out[c] \in Pipes /\ Readers(out[c]) = {}
    <2>1. <<"r", out[c]>> \in ends[c] /\ Alive(c)
      BY <1>1, <1>6 DEF Stage, Alive
    <2> QED
      BY <1>1, <1>6, <2>1 DEF Readers
  <1> QED
    BY <1>3, <1>4, <1>5, <1>6 DEF Finished

\* The program ends: a pipe may be given up, and no amount changes.
LEMMA ExitFlow ==
  ASSUME SashInv, Setting, Piping, Flow, NEW c \in Pids, Exit(c)
  PROVE  Flow'
  <1>1. /\ kind[c] = "program" /\ Finished(c) /\ kind' = [kind EXCEPT ![c] = "zombie"]
        /\ ends' = [ends EXCEPT ![c] = {}]
        /\ UNCHANGED <<parent, in, out, sh, left, quota, data, printed>>
    BY DEF Exit
  <1>2. PICK n \in 1..Count : Kid(n) = c
    BY <1>1, Working, ShellPlace DEF Piping
  <1>3. /\ kind'[c] = "zombie"
        /\ \A p \in Pids \ {c} : kind'[p] = kind[p] /\ ends'[p] = ends[p]
    BY <1>1 DEF SashInv, TypeOK
  <1>4. Stages'
    BY <1>1, <1>2, <1>3, StagesKept DEF Flow, Dead
  <1>5. Count' = Count /\ Line' = Line /\ (\A m : Kid(m)' = Kid(m)) /\ Count \in Nat
    BY <1>1, ShellPlace DEF Count, Line, Kid
  <1>6. ASSUME NEW m \in 1..Count
        PROVE  /\ Got(m)' = Got(m) /\ Put(m)' = Put(m)
               /\ Dead(m) => Dead(m)'
               /\ Dead(m)' => Dead(m) \/ m = n
    <2>1. Kid(m) \in Pids /\ (Kid(m) = c => m = n)
      BY <1>2 DEF Flow, Stages, Stage
    <2>2. CASE Kid(m) = c
      <3>1. Got(m)' = Got(m)
        BY <1>1, <1>3, <1>5, <2>2 DEF Got
      <3> QED
        BY <1>1, <1>3, <1>5, <2>1, <2>2, <3>1 DEF Put, Dead
    <2>3. CASE Kid(m) # c
      <3>1. Got(m)' = Got(m)
        BY <1>1, <1>3, <1>5, <2>1, <2>3 DEF Got
      <3> QED
        BY <1>1, <1>3, <1>5, <2>1, <2>3, <3>1 DEF Put, Dead
    <2> QED
      BY <2>2, <2>3
  <1>7. ASSUME NEW m \in 1..Count PROVE (Open(m)' => Open(m)) /\ (Taken(m)' = Taken(m))
    <2>1. m # Count => m + 1 \in 1..Count
      BY <1>5
    <2>2. ASSUME m # Count PROVE Got(m + 1)' = Got(m + 1) /\ (Dead(m + 1) => Dead(m + 1)')
      BY <1>6, <2>1, <2>2
    <2> QED
      BY <1>5, <1>6, <2>2 DEF Open, Taken
  <1>8. Ahead'
    BY <1>1, <1>5 DEF Flow, Ahead
  <1>9. Apart'
    BY <1>1, <1>5, <1>7 DEF Flow, Apart
  <1>10. Balances'
    <2> SUFFICES ASSUME NEW m \in 1..Count PROVE Balance(m)'
      BY <1>5 DEF Balances
    <2>1. Balance(m)
      BY DEF Flow, Balances
    <2>2. m # 1 => m - 1 \in 1..Count
      BY <1>5
    <2>3. m # 1 => Put(m - 1)' = Put(m - 1)
      BY <1>6, <2>2
    <2>4. Through(Line, m)' = Through(Line, m)
      BY <1>5
    <2>5. m = n => Put(m) = Through(Line, m)
      BY <1>1, <1>2, EndsWithAll
    <2> QED
      BY <1>1, <1>5, <1>6, <1>7, <2>1, <2>3, <2>4, <2>5 DEF Balance
  <1>11. Printed'
    <2>1. Count \in 1..Count
      BY <1>5
    <2>2. Put(Count)' = Put(Count)
      <3>1. PICK m \in 1..Count : m = Count
        BY <2>1
      <3>2. Kid(Count)' = Kid(m)' /\ Kid(Count) = Kid(m)
        BY <1>1, <3>1 DEF Kid, Count
      <3> QED
        BY <1>1, <1>6, <3>1, <3>2, <1>5 DEF Put, Got
    <2> QED
      BY <1>1, <1>5, <2>2 DEF Flow, Printed
  <1> QED
    BY <1>4, <1>8, <1>9, <1>10, <1>11 DEF Flow

\* A read moves a line out of the pipe behind the command before.
LEMMA ReadFlow ==
  ASSUME SashInv, Setting, Piping, Flow, NEW c \in Pids, Read(c)
  PROVE  Flow'
  <1>1. /\ kind[c] = "program" /\ left[c] = 0 /\ quota[c] > 0
        /\ in[c] \in Pipes /\ data[in[c]] > 0
        /\ data' = [data EXCEPT ![in[c]] = @ - 1]
        /\ left' = [left EXCEPT ![c] = 1] /\ quota' = [quota EXCEPT ![c] = @ - 1]
        /\ UNCHANGED <<kind, parent, in, out, ends, sh, printed>>
    BY DEF Read
  <1>2. PICK n \in 1..Count : Kid(n) = c
    BY <1>1, Working, ShellPlace DEF Piping
  <1>3. /\ Count \in Nat /\ n \in Nat /\ n <= Len(Line) /\ Len(Line) \in Nat /\ Tty \notin Pipes
        /\ Items \in Nat /\ quota[c] \in Nat /\ Got(n) \in Nat /\ Stage(n)
    BY <1>2, Amounts, ShellPlace DEF Flow, Stages
  <1>4. /\ left'[c] = 1 /\ quota'[c] = quota[c] - 1
        /\ \A p \in Pids \ {c} : left'[p] = left[p] /\ quota'[p] = quota[p]
    BY <1>1 DEF SashInv, TypeOK
  <1>5. Stages'
    BY <1>1, <1>2, StagesKept DEF Flow, Dead
  <1>6. /\ Count' = Count /\ Line' = Line /\ \A m : Kid(m)' = Kid(m) /\ (Dead(m)' = Dead(m))
    BY <1>1 DEF Count, Line, Kid, Dead
  <1>7. n # 1
    BY <1>1, <1>2, <1>3 DEF Stage
  <1>8. PICK b \in 1..Count : n = b + 1
    BY <1>3, <1>7
  <1>9. /\ b \in Nat /\ b < Len(Line) /\ Open(b) /\ in[c] = out[Kid(b)]
        /\ Balance(b) /\ Taken(b) = Got(n)
    <2>1. b \in Nat /\ b < Len(Line) /\ n # 1 /\ n - 1 = b /\ b < Count
      BY <1>3, <1>8
    <2>2. in[c] = out[Kid(b)]
      BY <1>2, <1>3, <2>1 DEF Stage
    <2>3. Open(b)
      BY <1>1, <1>2, <1>8 DEF Open, Dead
    <2>4. Balance(b) /\ Taken(b) = Got(n)
      BY <1>8, <2>1 DEF Flow, Balances, Taken
    <2> QED
      BY <2>1, <2>2, <2>3, <2>4
  <1>10. data[out[Kid(b)]] = Put(b) - Got(n) /\ Put(b) \in Nat /\ Got(n) + 1 <= Put(b)
    BY <1>1, <1>3, <1>9 DEF Balance
  <1>11. Line[n] # "emit"
    <2>1. Got(n) = Wanted(Line[n]) - quota[c]
      BY <1>1, <1>2 DEF Got
    <2> QED
      BY <1>1, <1>3, <2>1 DEF Wanted
  <1>12. ASSUME NEW m \in 1..Count
         PROVE  Got(m)' = (IF m = n THEN Got(m) + 1 ELSE Got(m)) /\ Put(m)' = Put(m)
    <2>1. Kid(m) \in Pids /\ (Kid(m) = c => m = n)
      BY <1>2 DEF Flow, Stages, Stage
    <2>2. CASE m = n
      <3>1. Got(m)' = Got(m) + 1
        <4>1. Got(m) = Wanted(Line[m]) - quota[c]
          BY <1>1, <1>2, <2>2 DEF Got
        <4>2. Got(m)' = Wanted(Line[m]) - quota'[c]
          BY <1>1, <1>2, <1>6, <2>2 DEF Got, Wanted
        <4>3. Wanted(Line[m]) \in Nat
          BY <1>3 DEF Wanted
        <4> QED
          BY <1>3, <1>4, <4>1, <4>2, <4>3
      <3> QED
        BY <1>1, <1>2, <1>3, <1>4, <1>6, <1>11, <2>2, <3>1 DEF Put
    <2>3. CASE m # n
      <3>1. Got(m)' = Got(m)
        BY <1>1, <1>4, <1>6, <2>1, <2>3 DEF Got
      <3> QED
        BY <1>1, <1>4, <1>6, <2>1, <2>3, <3>1 DEF Put
    <2> QED
      BY <2>2, <2>3
  <1>13. ASSUME NEW m \in 1..Count
         PROVE  (Open(m)' = Open(m)) /\ Taken(m)' = IF m = b THEN Taken(m) + 1 ELSE Taken(m)
    <2>1. Open(m)' = Open(m)
      BY <1>6 DEF Open
    <2>2. CASE m = Count
      BY <1>6, <1>3, <1>8, <2>1, <2>2 DEF Taken
    <2>3. CASE m # Count
      <3>1. m + 1 \in 1..Count /\ m < Count /\ (m + 1 = n <=> m = b)
        BY <1>3, <1>8, <2>3
      <3>2. Got(m + 1)' = IF m + 1 = n THEN Got(m + 1) + 1 ELSE Got(m + 1)
        BY <1>12, <3>1
      <3> QED
        BY <1>6, <2>1, <3>1, <3>2 DEF Taken
    <2> QED
      BY <2>2, <2>3
  <1>14. Ahead'
    <2>1. sh[Shell].pc = "fork" => data'[sh[Shell].pipe] = data[sh[Shell].pipe]
      <3>1. sh[Shell].pc = "fork" => sh[Shell].pipe # out[Kid(b)]
        BY <1>9 DEF Flow, Apart
      <3>2. sh[Shell].pc = "fork" => sh[Shell].pipe \in Pipes
        BY ShellPlace
      <3> QED
        BY <1>1, <1>9, <3>1, <3>2 DEF SashInv, TypeOK
    <2> QED
      BY <1>1, <1>6, <2>1 DEF Flow, Ahead
  <1>15. Apart'
    BY <1>1, <1>6, <1>13 DEF Flow, Apart
  <1>16. Balances'
    <2> SUFFICES ASSUME NEW m \in 1..Count PROVE Balance(m)'
      BY <1>6 DEF Balances
    <2>1. Balance(m) /\ Got(m) \in Nat /\ Put(m) \in Nat
      BY DEF Flow, Balances, Balance
    <2>2. m # 1 => m - 1 \in 1..Count
      BY <1>3
    <2>3. m # 1 => Put(m - 1)' = Put(m - 1)
      BY <1>12, <2>2
    <2>4. Through(Line, m)' = Through(Line, m)
      BY <1>6
    <2>5. Got(m)' \in Nat /\ Got(m)' <= IF m = 1 THEN 0 ELSE Put(m - 1)'
      <3>1. CASE m = n
        BY <1>7, <1>8, <1>10, <1>12, <2>1, <2>3, <3>1
      <3>2. CASE m # n
        BY <1>12, <2>1, <2>3, <3>2 DEF Balance
      <3> QED
        BY <3>1, <3>2
    <2>6. m < Len(Line) /\ Open(m) => data'[out[Kid(m)]] = Put(m) - Taken(m)'
      <3> SUFFICES ASSUME m < Len(Line), Open(m) PROVE data'[out[Kid(m)]] = Put(m) - Taken(m)'
        OBVIOUS
      <3>1. Stage(m) /\ m # Len(Line) /\ out[Kid(m)] \in Pipes
        <4>1. Stage(m) /\ m # Len(Line)
          BY <1>3 DEF Flow, Stages
        <4> QED
          BY <4>1 DEF Stage
      <3>2. data[out[Kid(m)]] = Put(m) - Taken(m) /\ data[out[Kid(m)]] \in Nat
        BY <2>1, <3>1, SashAssumption DEF Balance, SashInv, TypeOK
      <3>3. CASE m = b
        <4>1. data'[out[Kid(m)]] = data[out[Kid(m)]] - 1
          BY <1>1, <1>9, <3>1, <3>3 DEF SashInv, TypeOK
        <4>2. Taken(m)' = Taken(m) + 1 /\ Taken(m) \in Nat
          BY <1>3, <1>9, <1>13, <3>3
        <4> QED
          BY <2>1, <3>2, <4>1, <4>2
      <3>4. CASE m # b
        <4>1. out[Kid(m)] # out[Kid(b)]
          BY <1>9, <3>4 DEF Flow, Apart
        <4>2. data'[out[Kid(m)]] = data[out[Kid(m)]]
          BY <1>1, <1>9, <3>1, <4>1 DEF SashInv, TypeOK
        <4> QED
          BY <1>13, <3>2, <3>4, <4>2
      <3> QED
        BY <3>3, <3>4
    <2> QED
      BY <1>1, <1>6, <1>12, <1>13, <2>1, <2>4, <2>5, <2>6 DEF Balance
  <1>17. Printed'
    <2>1. Put(Count)' = Put(Count)
      <3>1. PICK m \in 1..Count : m = Count
        BY <1>3
      <3>2. Put(m)' = Put(m)
        BY <1>12
      <3> QED
        BY <1>6, <3>1, <3>2
    <2> QED
      BY <1>1, <1>6, <2>1 DEF Flow, Printed
  <1> QED
    BY <1>5, <1>14, <1>15, <1>16, <1>17 DEF Flow

\* A write puts a line into the pipe behind the command, or on the terminal.
LEMMA WriteFlow ==
  ASSUME SashInv, Setting, Piping, Flow, NEW c \in Pids, Write(c)
  PROVE  Flow'
  <1>1. /\ kind[c] = "program" /\ left[c] > 0
        /\ \/ out[c] = Tty /\ printed' = printed + 1 /\ data' = data
           \/ out[c] \in Pipes /\ data' = [data EXCEPT ![out[c]] = @ + 1] /\ printed' = printed
        /\ left' = [left EXCEPT ![c] = @ - 1]
        /\ UNCHANGED <<kind, parent, in, out, ends, sh, quota>>
    BY DEF Write
  <1>2. PICK n \in 1..Count : Kid(n) = c
    BY <1>1, Working, ShellPlace DEF Piping
  <1>3. /\ Count \in Nat /\ n \in Nat /\ n <= Len(Line) /\ Count <= Len(Line) /\ Len(Line) \in Nat
        /\ Tty \notin Pipes
        /\ Items \in Nat /\ left[c] \in Nat /\ Put(n) \in Nat /\ Got(n) \in Nat /\ Stage(n)
    <2>1. Stage(n)
      BY DEF Flow, Stages
    <2>2. Count <= Len(Line)
      BY ShellPlace DEF Flow, Ahead
    <2> QED
      BY <1>2, <2>1, <2>2, Amounts, ShellPlace
  <1>4. left'[c] = left[c] - 1 /\ \A p \in Pids \ {c} : left'[p] = left[p]
    BY <1>1 DEF SashInv, TypeOK
  <1>5. Stages'
    BY <1>1, <1>2, StagesKept DEF Flow, Dead
  <1>6. /\ Count' = Count /\ Line' = Line /\ \A m : Kid(m)' = Kid(m) /\ (Dead(m)' = Dead(m))
    BY <1>1 DEF Count, Line, Kid, Dead
  <1>7. ~Dead(n) /\ Open(n)
    BY <1>1, <1>2 DEF Dead, Open
  <1>8. Put(n) + 1 <= Through(Line, n)
    <2>1. Put(n) + left[c] <= Through(Line, n) /\ Through(Line, n) \in 0..Items
      BY <1>1, <1>2, Wants, Amounts
    <2> QED
      BY <1>1, <1>3, <2>1
  <1>9. ASSUME NEW m \in 1..Count
        PROVE  (Put(m)' = IF m = n THEN Put(m) + 1 ELSE Put(m)) /\ Got(m)' = Got(m)
    <2>1. Kid(m) \in Pids /\ (Kid(m) = c => m = n)
      BY <1>2 DEF Flow, Stages, Stage
    <2>2. Got(m)' = Got(m)
      BY <1>1, <1>6 DEF Got, Wanted
    <2>3. CASE m = n
      <3>1. Put(m) = (IF Line[m] = "emit" THEN Items ELSE Got(m)) - left[c]
        BY <1>1, <1>2, <2>3 DEF Put
      <3>2. Put(m)' = (IF Line[m] = "emit" THEN Items ELSE Got(m)) - left'[c]
        BY <1>1, <1>2, <1>6, <2>2, <2>3 DEF Put
      <3>3. Got(m) \in Nat
        BY <1>3, <2>3
      <3> QED
        BY <1>3, <1>4, <2>2, <2>3, <3>1, <3>2, <3>3
    <2>4. CASE m # n
      BY <1>1, <1>4, <1>6, <2>1, <2>2, <2>4 DEF Put
    <2> QED
      BY <2>2, <2>3, <2>4
  <1>10. ASSUME NEW m \in 1..Count PROVE (Open(m)' = Open(m)) /\ Taken(m)' = Taken(m)
    <2>1. Open(m)' = Open(m)
      BY <1>6 DEF Open
    <2>2. CASE m = Count
      BY <1>3, <1>6, <2>1, <2>2 DEF Taken
    <2>3. CASE m # Count
      <3>1. m + 1 \in 1..Count /\ m < Count
        BY <1>3, <2>3
      <3>2. Got(m + 1)' = Got(m + 1)
        BY <1>9, <3>1
      <3> QED
        BY <1>6, <2>1, <3>1, <3>2 DEF Taken
    <2> QED
      BY <2>2, <2>3
  <1>11. ASSUME NEW m \in 1..Count, m < Len(Line)
         PROVE  out[Kid(m)] \in Pipes /\ (Open(m) /\ m # n => out[Kid(m)] # out[c])
    <2>1. Stage(m) /\ m # Len(Line)
      BY <1>3, <1>11 DEF Flow, Stages
    <2> QED
      BY <1>2, <1>7, <2>1 DEF Stage, Flow, Apart
  <1>12. IF n = Len(Line) THEN out[c] = Tty /\ n = Count ELSE n < Len(Line) /\ out[c] \in Pipes
    BY <1>2, <1>3 DEF Stage
  <1>13. Ahead'
    <2>1. sh[Shell].pc = "fork" => data'[sh[Shell].pipe] = data[sh[Shell].pipe]
      <3>1. sh[Shell].pc = "fork" => sh[Shell].pipe # out[c]
        BY <1>2, <1>7 DEF Flow, Apart
      <3>2. sh[Shell].pc = "fork" => sh[Shell].pipe \in Pipes
        BY ShellPlace
      <3> QED
        BY <1>1, <3>1, <3>2 DEF SashInv, TypeOK
    <2> QED
      BY <1>1, <1>6, <2>1 DEF Flow, Ahead
  <1>14. Apart'
    BY <1>1, <1>6, <1>10 DEF Flow, Apart
  <1>15. Balances'
    <2> SUFFICES ASSUME NEW m \in 1..Count PROVE Balance(m)'
      BY <1>6 DEF Balances
    <2>1. Balance(m) /\ Got(m) \in Nat /\ Put(m) \in Nat
      BY DEF Flow, Balances, Balance
    <2>2. m # 1 => m - 1 \in 1..Count /\ Put(m - 1) \in Nat
      BY Amounts
    <2>3. m # 1 => Put(m - 1)' \in Nat /\ Put(m - 1)' >= Put(m - 1)
      BY <1>9, <2>2
    <2>4. Through(Line, m)' = Through(Line, m)
      BY <1>6
    <2>5. Put(m)' \in Nat /\ Put(m)' <= Through(Line, m)
      <3>1. CASE m = n
        BY <1>8, <1>9, <2>1, <3>1
      <3>2. CASE m # n
        BY <1>9, <2>1, <3>2 DEF Balance
      <3> QED
        BY <3>1, <3>2
    <2>6. Dead(m)' => Put(m)' = Through(Line, m)
      <3>1. Dead(m)' => Dead(m) /\ m # n
        BY <1>6, <1>7
      <3> QED
        BY <1>9, <2>1, <3>1 DEF Balance
    <2>7. m < Len(Line) /\ Open(m) => data'[out[Kid(m)]] = Put(m)' - Taken(m)
      <3> SUFFICES ASSUME m < Len(Line), Open(m) PROVE data'[out[Kid(m)]] = Put(m)' - Taken(m)
        OBVIOUS
      <3>1. /\ data[out[Kid(m)]] = Put(m) - Taken(m) /\ data[out[Kid(m)]] \in Nat
            /\ data \in [Pipes -> Nat]
        BY <1>11, <2>1, SashAssumption DEF Balance, SashInv, TypeOK
      <3>2. CASE m = n
        <4>1. data'[out[Kid(m)]] = data[out[Kid(m)]] + 1
          BY <1>1, <1>2, <1>3, <1>11, <1>12, <3>1, <3>2
        <4>2. Taken(m) \in Int
          <5>1. CASE m = Count
            BY <1>3, <5>1 DEF Taken
          <5>2. CASE m # Count
            <6>1. m + 1 \in 1..Count
              BY <1>3, <5>2
            <6>2. Got(m + 1) \in Nat
              BY <6>1 DEF Flow, Balances, Balance
            <6> QED
              BY <1>3, <5>2, <6>2 DEF Taken
          <5> QED
            BY <5>1, <5>2
        <4> QED
          BY <1>9, <2>1, <3>1, <3>2, <4>1, <4>2
      <3>3. CASE m # n
        <4>1. data'[out[Kid(m)]] = data[out[Kid(m)]]
          BY <1>1, <1>11, <3>1, <3>3
        <4> QED
          BY <1>9, <3>1, <3>3, <4>1
      <3> QED
        BY <3>2, <3>3
    <2>8. Got(m)' \in Nat /\ Got(m)' <= IF m = 1 THEN 0 ELSE Put(m - 1)'
      BY <1>9, <2>1, <2>2, <2>3 DEF Balance
    <2> QED
      BY <1>1, <1>6, <1>10, <2>4, <2>5, <2>6, <2>7, <2>8 DEF Balance
  <1>16. Printed'
    <2>1. Put(Count)' = IF Count = n THEN Put(Count) + 1 ELSE Put(Count)
      <3>1. PICK m \in 1..Count : m = Count
        BY <1>3
      <3>2. Put(m)' = IF m = n THEN Put(m) + 1 ELSE Put(m)
        BY <1>9
      <3> QED
        BY <1>6, <3>1, <3>2
    <2>2. CASE n = Len(Line)
      BY <1>1, <1>3, <1>6, <1>12, <2>1, <2>2 DEF Flow, Printed
    <2>3. CASE n # Len(Line)
      <3>1. printed' = printed
        BY <1>1, <1>3, <1>12, <2>3
      <3> QED
        BY <1>3, <1>6, <1>12, <2>1, <2>3, <3>1 DEF Flow, Printed
    <2> QED
      BY <2>2, <2>3
  <1> QED
    BY <1>5, <1>13, <1>14, <1>15, <1>16 DEF Flow

\* A pipe in use has a reader or a writer.
LEMMA InUse ==
  ASSUME SashInv, Piping, Flow, NEW n \in 1..Count, Open(n), n < Len(Line),
         sh[Shell].pc = "spawn"
  PROVE  Readers(out[Kid(n)]) # {} \/ Writers(out[Kid(n)]) # {}
  <1>1. /\ Count \in Nat /\ Len(Line) \in Nat /\ Stage(n) /\ out[Kid(n)] \in Pipes
        /\ Tty \notin Pipes
    <2>1. /\ Count \in Nat /\ Len(Line) \in Nat /\ Stage(n) /\ Tty \notin Pipes /\ n # Len(Line)
      BY ShellPlace DEF Flow, Stages
    <2> QED
      BY <2>1 DEF Stage
  <1>2. ASSUME NEW m \in 1..Count, ~Dead(m) PROVE Kid(m) \in Pids /\ Alive(Kid(m))
    <2>1. kind[Kid(m)] \in {"none", "shell", "forked", "program", "zombie"} /\ Kid(m) \in Pids
      BY DEF Flow, Stages, Stage, SashInv, TypeOK
    <2> QED
      BY <1>2, <2>1 DEF Dead, Alive
  <1>3. CASE ~Dead(n)
    BY <1>2, <1>3 DEF Writers
  <1>4. CASE n = Count
    <2>1. sh[Shell].last = out[Kid(n)]
      BY <1>4 DEF Flow, Ahead
    <2>2. ends[Shell] = {<<"r", out[Kid(n)]>>}
      BY <1>1, <2>1, ShellPlace DEF Held, Inherited
    <2>3. Shell \in Pids /\ Alive(Shell)
      BY ShellPlace DEF Piping, Alive
    <2> QED
      BY <2>2, <2>3 DEF Readers
  <1>5. CASE n # Count /\ ~Dead(n + 1)
    <2>1. n + 1 \in 1..Count /\ n + 1 # 1 /\ (n + 1) - 1 = n
      BY <1>1, <1>5
    <2>2. in[Kid(n + 1)] = out[Kid(n)]
      <3>1. Stage(n + 1)
        BY <2>1 DEF Flow, Stages
      <3> QED
        BY <2>1, <3>1 DEF Stage
    <2>3. Kid(n + 1) \in Pids /\ Alive(Kid(n + 1))
      BY <1>2, <1>5, <2>1
    <2> QED
      BY <2>2, <2>3 DEF Readers
  <1> QED
    BY <1>3, <1>4, <1>5 DEF Open

\* The new pipe is in nobody's use, and empty.
LEMMA MakePipeFlow ==
  ASSUME SashInv, Piping, Flow, MakePipe(Shell)
  PROVE  Flow'
  <1>1. /\ sh[Shell].pc = "spawn" /\ UNCHANGED <<kind, parent, in, out, left, quota, printed>>
        /\ Shell \in Pids /\ Tty \notin Pipes
    BY ShellPlace DEF MakePipe, At
  <1>2. PICK q \in Pipes : /\ Readers(q) = {} /\ Writers(q) = {}
                           /\ ends' = [ends EXCEPT ![Shell] = @ \cup {<<"r", q>>, <<"w", q>>}]
                           /\ data' = [data EXCEPT ![q] = 0]
                           /\ sh' = [sh EXCEPT ![Shell].pc = "fork", ![Shell].pipe = q]
    BY DEF MakePipe
  <1>3. /\ sh'[Shell].pc = "fork" /\ sh'[Shell].pipe = q /\ sh'[Shell].line = sh[Shell].line
        /\ sh'[Shell].last = sh[Shell].last /\ sh'[Shell].kids = sh[Shell].kids
        /\ \A c \in Pids \ {Shell} : sh'[c] = sh[c] /\ ends'[c] = ends[c]
        /\ data'[q] = 0 /\ \A r \in Pipes \ {q} : data'[r] = data[r]
    BY <1>1, <1>2 DEF SashInv, TypeOK, Frames
  <1>4. /\ Line' = Line /\ Count' = Count /\ Count \in Nat /\ Len(Line) \in Nat
        /\ Count < Len(Line) /\ \A m : Kid(m)' = Kid(m)
    BY <1>1, <1>3, ShellPlace DEF Line, Count, Kid
  <1>5. \A m : (Dead(m)' = Dead(m)) /\ Got(m)' = Got(m) /\ Put(m)' = Put(m)
    BY <1>1, <1>4 DEF Dead, Got, Put, Wanted
  <1>6. \A m : (Open(m)' = Open(m)) /\ Taken(m)' = Taken(m)
    BY <1>4, <1>5 DEF Open, Taken
  <1>7. ASSUME NEW m \in 1..Count PROVE out[Kid(m)] \in Pipes /\ (Open(m) => out[Kid(m)] # q)
    <2>1. m < Len(Line) /\ Stage(m)
      BY <1>4 DEF Flow, Stages
    <2> QED
      BY <1>1, <1>2, <2>1, InUse DEF Stage
  <1>8. Stages'
    <2>1. ASSUME NEW m \in 1..Count PROVE Stage(m)'
      <3>1. Stage(m)
        BY DEF Flow, Stages
      <3> QED
        BY <1>1, <1>3, <1>4, <1>5, <3>1 DEF Stage
    <2> QED
      BY <1>4, <2>1 DEF Flow, Stages
  <1>9. Ahead'
    BY <1>1, <1>3, <1>4 DEF Flow, Ahead
  <1>10. Apart'
    BY <1>1, <1>3, <1>4, <1>6, <1>7 DEF Flow, Apart
  <1>11. Balances'
    <2> SUFFICES ASSUME NEW m \in 1..Count PROVE Balance(m)'
      BY <1>4 DEF Balances
    <2>1. Balance(m)
      BY DEF Flow, Balances
    <2>2. Through(Line, m)' = Through(Line, m) /\ Put(m - 1)' = Put(m - 1)
      BY <1>4, <1>5
    <2> QED
      BY <1>1, <1>3, <1>4, <1>5, <1>6, <1>7, <2>1, <2>2 DEF Balance
  <1>12. Printed'
    BY <1>1, <1>4 DEF Flow, Printed
  <1> QED
    BY <1>8, <1>9, <1>10, <1>11, <1>12 DEF Flow

\* After a fork the shell lets go of the ends that are its child's.
LEMMA CloseFlow ==
  ASSUME SashInv, Piping, Flow, Close(Shell)
  PROVE  Flow'
  <1>1. /\ sh[Shell].pc = "close" /\ Shell \in Pids
        /\ UNCHANGED <<kind, parent, in, out, left, quota, data, printed>>
        /\ sh[Shell] \in Frames /\ sh[Shell].i = Count /\ Count \in Nat \ {0}
    BY ShellPlace DEF Close, At
  <1>2. /\ \A c \in Pids \ {Shell} : sh'[c] = sh[c] /\ ends'[c] = ends[c]
        /\ sh'[Shell] = IF IsLast(Shell)
                        THEN [sh[Shell] EXCEPT !.pc = "wait", !.i = 1]
                        ELSE [sh[Shell] EXCEPT !.pc = "spawn", !.i = @ + 1, !.last = sh[Shell].pipe]
    BY <1>1 DEF Close, SashInv, TypeOK
  <1>3. /\ sh'[Shell].line = sh[Shell].line /\ sh'[Shell].kids = sh[Shell].kids
        /\ IF Count = Len(Line) THEN sh'[Shell].pc = "wait"
           ELSE sh'[Shell].pc = "spawn" /\ sh'[Shell].last = sh[Shell].pipe
    <2>1. IsLast(Shell) <=> Count = Len(Line)
      BY <1>1 DEF IsLast, Line
    <2>2. CASE IsLast(Shell)
      BY <1>1, <1>2, <2>1, <2>2, LastFrame
    <2>3. CASE ~IsLast(Shell)
      BY <1>1, <1>2, <2>1, <2>3, NextFrame
    <2> QED
      BY <2>2, <2>3
  <1>4. /\ Line' = Line /\ Count' = Count /\ Len(Line) \in Nat /\ Count <= Len(Line)
        /\ \A m : Kid(m)' = Kid(m)
    BY <1>1, <1>3, ShellPlace DEF Line, Count, Kid
  <1>5. \A m : (Dead(m)' = Dead(m)) /\ Got(m)' = Got(m) /\ Put(m)' = Put(m)
    BY <1>1, <1>4 DEF Dead, Got, Put, Wanted
  <1>6. \A m : (Open(m)' = Open(m)) /\ Taken(m)' = Taken(m)
    BY <1>4, <1>5 DEF Open, Taken
  <1>7. Stages'
    <2>1. ASSUME NEW m \in 1..Count PROVE Stage(m)'
      <3>1. Stage(m)
        BY DEF Flow, Stages
      <3> QED
        BY <1>1, <1>2, <1>3, <1>4, <1>5, <3>1 DEF Stage
    <2> QED
      BY <1>4, <2>1 DEF Flow, Stages
  <1>8. Ahead'
    BY <1>1, <1>3, <1>4 DEF Flow, Ahead
  <1>9. Apart'
    BY <1>1, <1>3, <1>4, <1>6 DEF Flow, Apart
  <1>10. Balances'
    <2> SUFFICES ASSUME NEW m \in 1..Count PROVE Balance(m)'
      BY <1>4 DEF Balances
    <2>1. Balance(m)
      BY DEF Flow, Balances
    <2>2. Through(Line, m)' = Through(Line, m) /\ Put(m - 1)' = Put(m - 1)
      BY <1>4, <1>5
    <2> QED
      BY <1>1, <1>4, <1>5, <1>6, <2>1, <2>2 DEF Balance
  <1>11. Printed'
    BY <1>1, <1>4, <1>5 DEF Flow, Printed
  <1> QED
    BY <1>7, <1>8, <1>9, <1>10, <1>11 DEF Flow

\* A child that is waited for has ended before.
LEMMA WaitFlow ==
  ASSUME SashInv, Piping, Flow, Wait(Shell)
  PROVE  Flow'
  <1>1. /\ sh[Shell].pc = "wait" /\ Shell \in Pids /\ sh[Shell] \in Frames
        /\ UNCHANGED <<parent, in, out, ends, left, quota, data, printed>>
        /\ kind' = kind \/ \E z \in Pids : kind[z] = "zombie" /\ kind' = [kind EXCEPT ![z] = "none"]
        /\ sh' = [sh EXCEPT ![Shell].i = @ + 1]
    BY ShellPlace DEF Wait, At, Children
  <1>2. \A c \in Pids : kind'[c] = kind[c] \/ (kind[c] = "zombie" /\ kind'[c] = "none")
    BY <1>1 DEF SashInv, TypeOK
  <1>3. /\ \A c \in Pids \ {Shell} : sh'[c] = sh[c]
        /\ sh'[Shell].line = sh[Shell].line /\ sh'[Shell].kids = sh[Shell].kids
        /\ sh'[Shell].pc = "wait" /\ sh'[Shell].last = sh[Shell].last
    BY <1>1 DEF SashInv, Frames
  <1>4. /\ Line' = Line /\ Count' = Count /\ Count \in Nat /\ Len(Line) \in Nat
        /\ \A m : Kid(m)' = Kid(m)
    BY <1>3, ShellPlace DEF Line, Count, Kid
  <1>5. ASSUME NEW m \in 1..Count
        PROVE  /\ Kid(m) \in Pids /\ (Dead(m)' = Dead(m))
               /\ kind'[Kid(m)] = "forked" <=> kind[Kid(m)] = "forked"
    <2>1. Kid(m) \in Pids /\ Kid(m)' = Kid(m)
      BY <1>4 DEF Flow, Stages, Stage
    <2>2. kind'[Kid(m)] = kind[Kid(m)] \/ (kind[Kid(m)] = "zombie" /\ kind'[Kid(m)] = "none")
      BY <1>2, <2>1
    <2> QED
      BY <2>1, <2>2 DEF Dead
  <1>6. ASSUME NEW m \in 1..Count PROVE Got(m)' = Got(m) /\ Put(m)' = Put(m)
    <2>1. Got(m)' = Got(m)
      BY <1>1, <1>4, <1>5 DEF Got, Wanted
    <2> QED
      BY <1>1, <1>4, <1>5, <2>1 DEF Put
  <1>7. ASSUME NEW m \in 1..Count PROVE (Open(m)' = Open(m)) /\ Taken(m)' = Taken(m)
    <2>1. m # Count => m + 1 \in 1..Count
      BY <1>4
    <2>2. m # Count => Got(m + 1)' = Got(m + 1) /\ (Dead(m + 1)' = Dead(m + 1))
      BY <1>5, <1>6, <2>1
    <2> QED
      BY <1>4, <1>5, <2>2 DEF Open, Taken
  <1>8. Stages'
    <2>1. ASSUME NEW m \in 1..Count PROVE Stage(m)'
      <3>1. Stage(m) /\ Kid(m - 1)' = Kid(m - 1)
        BY <1>4 DEF Flow, Stages
      <3>2. kind'[Kid(m)] # "shell"
        BY <1>2, <3>1 DEF Stage
      <3> QED
        BY <1>1, <1>3, <1>4, <1>5, <3>1, <3>2 DEF Stage
    <2> QED
      BY <1>4, <2>1 DEF Flow, Stages
  <1>9. Ahead'
    BY <1>1, <1>3, <1>4 DEF Flow, Ahead
  <1>10. Apart'
    BY <1>1, <1>3, <1>4, <1>7 DEF Flow, Apart
  <1>11. Balances'
    <2> SUFFICES ASSUME NEW m \in 1..Count PROVE Balance(m)'
      BY <1>4 DEF Balances
    <2>1. Balance(m)
      BY DEF Flow, Balances
    <2>2. m # 1 => m - 1 \in 1..Count
      BY <1>4
    <2>3. Through(Line, m)' = Through(Line, m) /\ (m # 1 => Put(m - 1)' = Put(m - 1))
      BY <1>4, <1>6, <2>2
    <2> QED
      BY <1>1, <1>4, <1>5, <1>6, <1>7, <2>1, <2>3 DEF Balance
  <1>12. Printed'
    <2>1. Count = 0 \/ Count \in 1..Count
      BY <1>4
    <2>2. Count \in 1..Count => Put(Count)' = Put(Count)
      <3>1. SUFFICES ASSUME NEW m \in 1..Count, m = Count PROVE Put(Count)' = Put(Count)
        OBVIOUS
      <3>2. Kid(Count)' = Kid(m)' /\ Kid(Count) = Kid(m)
        BY <1>4, <3>1 DEF Kid, Count
      <3> QED
        BY <1>1, <1>4, <1>5, <1>6, <3>1, <3>2 DEF Put, Got
    <2>3. Count # 0
      <3>1. Len(Line) # 0
        BY ShellPlace DEF Flow, Stages
      <3> QED
        BY <1>1, <3>1 DEF Flow, Ahead
    <2> QED
      BY <1>1, <1>4, <2>1, <2>2, <2>3 DEF Flow, Printed
  <1> QED
    BY <1>8, <1>9, <1>10, <1>11, <1>12 DEF Flow

\* What the child gets, with the ends of pipes its parent has at that place.
LEMMA ForkGives ==
  ASSUME SashInv, Setting, Piping, Flow, Fork(Shell)
  PROVE  \E c \in Pids \ {Shell} :
           /\ kind[c] = "none" /\ \A n \in 1..Count : Kid(n) # c
           /\ kind' = [kind EXCEPT ![c] = "forked"]
           /\ parent' = [parent EXCEPT ![c] = Shell]
           /\ in' = [in EXCEPT ![c] = IF Count = 0 THEN Tty ELSE out[Kid(Count)]]
           /\ out' = [out EXCEPT ![c] = IF Count + 1 = Len(Line) THEN Tty ELSE sh[Shell].pipe]
           /\ ends' = [ends EXCEPT ![c] = ends[Shell]]
           /\ sh'[Shell].pc = "close" /\ sh'[Shell].last = sh[Shell].last
           /\ sh'[Shell].pipe = sh[Shell].pipe /\ sh'[Shell].line = Line
           /\ sh'[Shell].kids = Append(sh[Shell].kids, c)
           /\ sh'[c].line = Line /\ sh'[c].i = Count + 1
           /\ \A d \in Pids \ {Shell, c} : sh'[d] = sh[d]
  <1>1. /\ Shell \in Pids /\ sh[Shell] \in Frames /\ sh[Shell].pc \in {"spawn", "fork"}
        /\ kind[Shell] = "shell" /\ sh[Shell].i = Count + 1 /\ Count \in Nat /\ Tty \notin Pipes
        /\ Len(Line) \in Nat /\ sh \in [Pids -> Frames] /\ Count < Len(Line)
    BY ShellPlace DEF Fork, MayFork, At, Piping, SashInv
  <1>2. PICK c \in Pids :
          /\ kind[c] = "none" /\ kind' = [kind EXCEPT ![c] = "forked"]
          /\ parent' = [parent EXCEPT ![c] = Shell]
          /\ in' = [in EXCEPT ![c] = DupIn(Shell)] /\ out' = [out EXCEPT ![c] = DupOut(Shell)]
          /\ ends' = [ends EXCEPT ![c] = ends[Shell]]
          /\ sh' = [sh EXCEPT ![Shell].pc = "close", ![Shell].kids = Append(@, c),
                              ![c] = [sh[Shell] EXCEPT !.pc = "close", !.kids = Append(@, NoPid)]]
    BY DEF Fork
  <1>3. c # Shell
    BY <1>1, <1>2
  <1>4. ASSUME NEW n \in 1..Count PROVE Kid(n) # c
    <2>1. Stage(n)
      BY DEF Flow, Stages
    <2> QED
      BY <1>1, <1>2, <2>1 DEF Stage
  <1>5. DupIn(Shell) = IF Count = 0 THEN Tty ELSE out[Kid(Count)]
    <2>1. sh[Shell].last = IF Count = 0 THEN Tty ELSE out[Kid(Count)]
      BY <1>1 DEF Flow, Ahead
    <2>2. CASE Count = 0
      BY <2>1, <2>2 DEF DupIn, Setting, Console
    <2>3. CASE Count # 0
      <3>1. Count \in 1..Count /\ Count # Len(Line)
        BY <1>1, <2>3
      <3>2. Stage(Count)
        BY <3>1 DEF Flow, Stages
      <3>3. out[Kid(Count)] # Tty
        BY <1>1, <3>1, <3>2 DEF Stage
      <3> QED
        BY <2>1, <2>3, <3>3 DEF DupIn
    <2> QED
      BY <2>2, <2>3
  <1>6. DupOut(Shell) = IF Count + 1 = Len(Line) THEN Tty ELSE sh[Shell].pipe
    BY <1>1 DEF DupOut, IsLast, Line, Setting, Console
  <1>7. /\ sh'[Shell].pc = "close" /\ sh'[Shell].last = sh[Shell].last
        /\ sh'[Shell].pipe = sh[Shell].pipe /\ sh'[Shell].line = Line
        /\ sh'[Shell].kids = Append(sh[Shell].kids, c)
        /\ sh'[c].line = Line /\ sh'[c].i = Count + 1
        /\ \A d \in Pids \ {Shell, c} : sh'[d] = sh[d]
    <2> DEFINE g(k) == [sh[Shell] EXCEPT !.pc = "close", !.kids = Append(@, k)]
    <2>1. /\ g(c).pc = "close" /\ g(c).last = sh[Shell].last /\ g(c).pipe = sh[Shell].pipe
          /\ g(c).line = Line /\ g(c).kids = Append(sh[Shell].kids, c)
          /\ g(NoPid).line = Line /\ g(NoPid).i = Count + 1
      BY <1>1 DEF Frames, Line
    <2>2. sh' = [[sh EXCEPT ![Shell] = g(c)] EXCEPT ![c] = g(NoPid)]
      BY <1>1, <1>2, <1>3 DEF Frames
    <2> HIDE DEF g
    <2> QED
      BY <1>1, <1>3, <2>1, <2>2
  <1> QED
    BY <1>2, <1>3, <1>4, <1>5, <1>6, <1>7

\* The new child has done nothing yet, and stands between the last one's pipe and the new one.
LEMMA ForkFlow ==
  ASSUME SashInv, Setting, Piping, Flow, Fork(Shell)
  PROVE  Flow'
  <1>1. PICK c \in Pids \ {Shell} :
           /\ kind[c] = "none" /\ \A n \in 1..Count : Kid(n) # c
           /\ kind' = [kind EXCEPT ![c] = "forked"]
           /\ parent' = [parent EXCEPT ![c] = Shell]
           /\ in' = [in EXCEPT ![c] = IF Count = 0 THEN Tty ELSE out[Kid(Count)]]
           /\ out' = [out EXCEPT ![c] = IF Count + 1 = Len(Line) THEN Tty ELSE sh[Shell].pipe]
           /\ ends' = [ends EXCEPT ![c] = ends[Shell]]
           /\ sh'[Shell].pc = "close" /\ sh'[Shell].last = sh[Shell].last
           /\ sh'[Shell].pipe = sh[Shell].pipe /\ sh'[Shell].line = Line
           /\ sh'[Shell].kids = Append(sh[Shell].kids, c)
           /\ sh'[c].line = Line /\ sh'[c].i = Count + 1
           /\ \A d \in Pids \ {Shell, c} : sh'[d] = sh[d]
    BY ForkGives
  <1>2. /\ sh[Shell].pc \in {"spawn", "fork"} /\ Count \in Nat /\ Len(Line) \in Nat
        /\ sh[Shell].kids \in Seq(Pids \cup {NoPid}) /\ Count < Len(Line) /\ Tty \notin Pipes
        /\ Shell \in Pids /\ (Count + 1 # Len(Line) => sh[Shell].pc = "fork")
        /\ UNCHANGED <<left, quota, data, printed>> /\ sh[Shell].i = Count + 1 /\ Items \in Nat
    BY ShellPlace DEF Fork, MayFork, At, IsLast, Line
  <1>3. /\ kind'[c] = "forked" /\ parent'[c] = Shell
        /\ in'[c] = (IF Count = 0 THEN Tty ELSE out[Kid(Count)])
        /\ out'[c] = (IF Count + 1 = Len(Line) THEN Tty ELSE sh[Shell].pipe)
        /\ ends'[c] = ends[Shell]
        /\ \A d \in Pids \ {c} : /\ kind'[d] = kind[d] /\ parent'[d] = parent[d]
                                 /\ in'[d] = in[d] /\ out'[d] = out[d] /\ ends'[d] = ends[d]
    BY <1>1 DEF SashInv, TypeOK
  <1>4. /\ Line' = Line /\ Count' = Count + 1 /\ sh'[Shell].kids[Count + 1] = c
        /\ \A n \in 1..Count : Kid(n)' = Kid(n)
    <2>1. /\ Len(sh'[Shell].kids) = Len(sh[Shell].kids) + 1
          /\ sh'[Shell].kids[Len(sh[Shell].kids) + 1] = c
          /\ \A n \in 1..Len(sh[Shell].kids) : sh'[Shell].kids[n] = sh[Shell].kids[n]
      BY <1>1, <1>2, AppendProperties
    <2> QED
      BY <1>1, <2>1 DEF Line, Count, Kid
  <1>5. PICK k \in 1..(Count + 1) : k = Count + 1
    BY <1>2
  <1>6. Kid(k)' = c /\ k \in Nat /\ k - 1 = Count /\ k \notin 1..Count /\ k <= Len(Line)
    BY <1>2, <1>4, <1>5 DEF Kid
  <1>7. ASSUME NEW n \in 1..Count
        PROVE  /\ Kid(n) \in Pids \ {c} /\ Kid(n)' = Kid(n) /\ Stage(n) /\ (Dead(n)' = Dead(n))
               /\ Got(n)' = Got(n) /\ Put(n)' = Put(n) /\ out[Kid(n)] \in Pipes /\ n < Len(Line)
               /\ n # k /\ n \in Nat
    <2>1. /\ Stage(n) /\ Kid(n)' = Kid(n) /\ n # Len(Line) /\ n < Len(Line) /\ Kid(n) # c
          /\ n # k /\ n \in Nat
      BY <1>1, <1>2, <1>4, <1>6 DEF Flow, Stages
    <2>2. Kid(n) \in Pids \ {c} /\ out[Kid(n)] \in Pipes
      BY <2>1 DEF Stage
    <2>3. kind'[Kid(n)] = kind[Kid(n)]
      BY <1>3, <2>2
    <2>4. (Dead(n)' = Dead(n)) /\ Got(n)' = Got(n)
      BY <1>2, <1>4, <2>1, <2>3 DEF Dead, Got, Wanted
    <2>5. Put(n)' = Put(n)
      BY <1>2, <1>4, <2>1, <2>3, <2>4 DEF Put
    <2> QED
      BY <2>1, <2>2, <2>4, <2>5
  <1>8. ~Dead(k)' /\ Got(k)' = 0 /\ Put(k)' = 0
    <2>1. kind'[Kid(k)'] = "forked"
      BY <1>3, <1>6
    <2> QED
      BY <2>1 DEF Dead, Got, Put
  <1>9. ASSUME NEW n \in 1..Count PROVE (Open(n)' => Open(n)) /\ Taken(n)' = Taken(n)
    <2>1. CASE n = Count
      <3>1. Open(n)
        BY <2>1 DEF Open
      <3>2. Taken(n) = 0
        BY <1>2, <2>1 DEF Taken
      <3>3. n + 1 = k /\ n < Count'
        BY <1>4, <1>5, <1>2, <2>1
      <3>4. Got(n + 1)' = 0
        <4>1. kind'[Kid(n + 1)'] = "forked"
          BY <1>3, <1>4, <2>1 DEF Kid
        <4> QED
          BY <4>1 DEF Got
      <3> QED
        BY <3>1, <3>2, <3>3, <3>4 DEF Taken
    <2>2. CASE n # Count
      <3>1. n + 1 \in 1..Count /\ n < Count
        BY <1>2, <2>2
      <3>2. (Dead(n + 1)' = Dead(n + 1)) /\ Got(n + 1)' = Got(n + 1)
        BY <1>7, <3>1
      <3>3. Taken(n)' = Taken(n)
        BY <1>2, <1>4, <3>1, <3>2 DEF Taken
      <3>4. Open(n)' => Open(n)
        BY <1>2, <1>4, <1>7, <3>1, <3>2 DEF Open
      <3> QED
        BY <3>3, <3>4
    <2> QED
      BY <2>1, <2>2
  <1>10. Stages'
    <2>1. ASSUME NEW n \in 1..Count PROVE Stage(n)'
      <3>1. /\ parent'[Kid(n)] = parent[Kid(n)] /\ kind'[Kid(n)] = kind[Kid(n)]
            /\ in'[Kid(n)] = in[Kid(n)] /\ out'[Kid(n)] = out[Kid(n)]
            /\ ends'[Kid(n)] = ends[Kid(n)] /\ sh'[Kid(n)] = sh[Kid(n)]
            /\ kind[Kid(n)] # "none" /\ Kid(n) # Shell
        BY <1>1, <1>2, <1>3, <1>7 DEF Stage
      <3>2. n # 1 => out'[Kid(n - 1)'] = out[Kid(n - 1)]
        <4> SUFFICES ASSUME n # 1 PROVE out'[Kid(n - 1)'] = out[Kid(n - 1)]
          OBVIOUS
        <4>1. n - 1 \in 1..Count
          BY <1>2
        <4>2. Kid(n - 1)' = Kid(n - 1) /\ Kid(n - 1) \in Pids \ {c}
          BY <1>7, <4>1
        <4> QED
          BY <1>3, <4>2
      <3>3. /\ Kid(n)' \in Pids \ {Shell} /\ parent'[Kid(n)'] = Shell
            /\ kind'[Kid(n)'] \notin {"shell", "none"}
        BY <1>7, <3>1 DEF Stage
      <3>4. kind'[Kid(n)'] = "forked" => sh'[Kid(n)'].line = Line' /\ sh'[Kid(n)'].i = n
        <4>1. kind[Kid(n)] = "forked" => sh[Kid(n)].line = Line /\ sh[Kid(n)].i = n
          BY <1>7 DEF Stage
        <4>2. Line' = Line /\ Kid(n)' = Kid(n)
          BY <1>4, <1>7
        <4> QED
          BY <3>1, <4>1, <4>2
      <3>5. in'[Kid(n)'] = IF n = 1 THEN Tty ELSE out'[Kid(n - 1)']
        BY <1>7, <3>1, <3>2 DEF Stage
      <3>6. /\ n # Len(Line)' /\ out'[Kid(n)'] \in Pipes
            /\ (~Dead(n)' => <<"r", out'[Kid(n)']>> \in ends'[Kid(n)'])
        <4>1. n # Len(Line) /\ (~Dead(n) => <<"r", out[Kid(n)]>> \in ends[Kid(n)])
          BY <1>2, <1>7 DEF Stage
        <4>2. Line' = Line /\ Kid(n)' = Kid(n) /\ (Dead(n)' = Dead(n)) /\ out[Kid(n)] \in Pipes
          BY <1>4, <1>7
        <4> QED
          BY <3>1, <4>1, <4>2
      <3> QED
        BY <3>3, <3>4, <3>5, <3>6 DEF Stage
    <2>2. Stage(k)'
      <3>1. in'[c] = IF k = 1 THEN Tty ELSE out'[Kid(k - 1)']
        <4>1. CASE k = 1
          BY <1>2, <1>3, <1>5, <4>1
        <4>2. CASE k # 1
          <5>1. k - 1 \in 1..Count /\ Count # 0
            BY <1>2, <1>5, <4>2
          <5>2. Kid(k - 1)' = Kid(k - 1) /\ Kid(k - 1) \in Pids \ {c}
            BY <1>7, <5>1
          <5>3. Kid(k - 1) = Kid(Count)
            BY <1>6
          <5> QED
            BY <1>3, <4>2, <5>1, <5>2, <5>3
        <4> QED
          BY <4>1, <4>2
      <3>2. k # Len(Line) => out'[c] \in Pipes /\ <<"r", out'[c]>> \in ends'[c]
        <4> SUFFICES ASSUME k # Len(Line) PROVE out'[c] \in Pipes /\ <<"r", out'[c]>> \in ends'[c]
          OBVIOUS
        <4>1. out'[c] = sh[Shell].pipe /\ sh[Shell].pc = "fork" /\ Count + 1 < Len(Line)
          BY <1>2, <1>3, <1>5
        <4>2. ends[Shell] = Inherited(sh[Shell]) \cup Own(sh[Shell]) /\ sh[Shell].pipe \in Pipes
          BY <1>2, <4>1, ShellPlace DEF Held, Line
        <4> QED
          BY <1>3, <4>1, <4>2 DEF Own
      <3>3. k = Len(Line) => out'[c] = Tty
        BY <1>3, <1>5
      <3>4. sh'[c].line = Line /\ sh'[c].i = k
        BY <1>1, <1>5
      <3> QED
        BY <1>1, <1>3, <1>4, <1>6, <3>1, <3>2, <3>3, <3>4 DEF Stage
    <2>3. \A n \in 1..(Count + 1) : n \in 1..Count \/ n = k
      BY <1>2, <1>5
    <2>4. ASSUME NEW m \in 1..(Count + 1), NEW n \in 1..(Count + 1), Kid(m)' = Kid(n)' PROVE m = n
      <3>1. CASE m \in 1..Count /\ n \in 1..Count
        BY <1>7, <2>4, <3>1 DEF Flow, Stages
      <3>2. CASE m = k /\ n \in 1..Count
        <4>1. Kid(m)' = c
          BY <1>4, <1>5, <3>2 DEF Kid
        <4> QED
          BY <1>7, <2>4, <3>2, <4>1
      <3>3. CASE n = k /\ m \in 1..Count
        <4>1. Kid(n)' = c
          BY <1>4, <1>5, <3>3 DEF Kid
        <4> QED
          BY <1>7, <2>4, <3>3, <4>1
      <3> QED
        BY <2>3, <3>1, <3>2, <3>3
    <2>5. ASSUME NEW n \in 1..(Count + 1) PROVE Stage(n)'
      <3>1. CASE n = k
        BY <2>2, <3>1
      <3> QED
        BY <2>1, <2>3, <3>1
    <2> QED
      BY <1>4, <2>4, <2>5 DEF Flow, Stages
  <1>11. Ahead'
    <2>1. sh'[Shell].last = in'[c]
      BY <1>1, <1>2, <1>3 DEF Flow, Ahead
    <2>2. Kid(Count)' = c
      BY <1>4 DEF Kid
    <2> QED
      BY <1>1, <1>2, <1>3, <1>4, <2>1, <2>2 DEF Ahead
  <1>12. \A n \in 1..Count : out'[Kid(n)'] = out[Kid(n)]
    BY <1>3, <1>7
  <1>13. Apart'
    <2>1. ASSUME NEW n \in 1..Count, Open(n) PROVE out[Kid(n)] # out'[c]
      <3>1. CASE Count + 1 = Len(Line)
        BY <1>2, <1>3, <1>7, <3>1
      <3>2. CASE Count + 1 # Len(Line)
        BY <1>2, <1>3, <2>1, <3>2 DEF Flow, Apart
      <3> QED
        BY <3>1, <3>2
    <2>2. ASSUME NEW m \in 1..(Count + 1), NEW n \in 1..(Count + 1),
                 Open(m)', Open(n)', out'[Kid(m)'] = out'[Kid(n)']
          PROVE  m = n
      <3>1. CASE m \in 1..Count /\ n \in 1..Count
        BY <1>9, <1>12, <2>2, <3>1 DEF Flow, Apart
      <3>2. CASE m = k /\ n \in 1..Count
        <4>1. Kid(m)' = c
          BY <1>4, <1>5, <3>2 DEF Kid
        <4> QED
          BY <1>9, <1>12, <2>1, <2>2, <3>2, <4>1
      <3>3. CASE n = k /\ m \in 1..Count
        <4>1. Kid(n)' = c
          BY <1>4, <1>5, <3>3 DEF Kid
        <4> QED
          BY <1>9, <1>12, <2>1, <2>2, <3>3, <4>1
      <3> QED
        BY <1>2, <1>5, <3>1, <3>2, <3>3
    <2> QED
      BY <1>1, <1>4, <2>2 DEF Apart
  <1>14. Balances'
    <2>1. ASSUME NEW n \in 1..Count PROVE Balance(n)'
      <3>1. Balance(n) /\ Through(Line, n)' = Through(Line, n)
        BY <1>4 DEF Flow, Balances
      <3>2. n # 1 => Put(n - 1)' = Put(n - 1)
        <4>1. n # 1 => n - 1 \in 1..Count
          BY <1>2
        <4> QED
          BY <1>7, <4>1
      <3>3. Got(n)' = Got(n) /\ Put(n)' = Put(n) /\ (Dead(n)' = Dead(n))
        BY <1>7
      <3> QED
        BY <1>2, <1>4, <1>9, <1>12, <3>1, <3>2, <3>3 DEF Balance
    <2>2. Balance(k)'
      <3>1. Through(Line, k)' = Through(Line, k) /\ Through(Line, k) \in Nat
        <4>1. Line \in Seq(STRING) /\ k \in 0..Len(Line)
          BY <1>2, <1>6, ShellPlace
        <4> QED
          BY <1>2, <1>4, <4>1, ThroughStep
      <3>2. k # 1 => Put(k - 1)' \in Nat
        <4> SUFFICES ASSUME k # 1 PROVE Put(k - 1)' \in Nat
          OBVIOUS
        <4>1. k - 1 \in 1..Count
          BY <1>2, <1>5
        <4>2. Put(k - 1)' = Put(k - 1) /\ Put(k - 1) \in Nat
          BY <1>7, <4>1 DEF Flow, Balances, Balance
        <4> QED
          BY <4>2
      <3>3. Taken(k)' = 0
        BY <1>4, <1>5, <1>2 DEF Taken
      <3>4. k < Len(Line) => data'[out'[Kid(k)']] = 0
        BY <1>2, <1>3, <1>5, <1>6 DEF Flow, Ahead
      <3> QED
        BY <1>4, <1>8, <3>1, <3>2, <3>3, <3>4 DEF Balance
    <2>3. ASSUME NEW n \in 1..(Count + 1) PROVE Balance(n)'
      <3>1. CASE n = k
        BY <2>2, <3>1
      <3>2. CASE n # k
        <4>1. n \in 1..Count
          BY <1>2, <1>5, <3>2
        <4> QED
          BY <2>1, <4>1
      <3> QED
        BY <3>1, <3>2
    <2> QED
      BY <1>4, <2>3 DEF Balances
  <1>15. Printed'
    <2>1. printed = 0
      BY <1>2 DEF Flow, Printed
    <2>2. Put(Count)' = 0
      <3>1. Kid(Count)' = c
        BY <1>1, <1>2, AppendProperties DEF Kid, Count
      <3> QED
        BY <1>3, <3>1 DEF Put
    <2> QED
      BY <1>2, <2>1, <2>2 DEF Printed
  <1> QED
    BY <1>10, <1>11, <1>13, <1>14, <1>15 DEF Flow

\* A line typed at the first shell: nothing has been written for it.
LEMMA GetLineFlow ==
  ASSUME SashInv, GetLine(Shell), Piping'
  PROVE  Flow'
  <1>1. Shell \in Pids /\ Tty \notin Pipes
    BY SashAssumption
  <1>2. PICK l \in Lines :
           sh' = [sh EXCEPT ![Shell] = [Idle EXCEPT !.pc = "spawn", !.line = Deconstructed(l)]]
    BY DEF GetLine
  <1>3. /\ sh'[Shell].pc = "spawn" /\ sh'[Shell].kids = <<>> /\ sh'[Shell].last = Tty
        /\ sh'[Shell].line = Deconstructed(l) /\ printed' = 0
    BY <1>1, <1>2 DEF SashInv, Idle, GetLine
  <1>4. PICK words \in Seq(STRING) :
           /\ words = Deconstructed(l) /\ words # <<>>
           /\ \A n \in 2..Len(words) : words[n] \in Programs
    BY SashAssumption
  <1>5. Line' = words /\ Count' = 0 /\ Len(words) \in Nat \ {0}
    BY <1>3, <1>4 DEF Line, Count
  <1>6. words[1] \in Programs
    BY <1>5 DEF Piping
  <1>7. Stages'
    BY <1>4, <1>5, <1>6 DEF Stages
  <1>8. Ahead' /\ Printed'
    BY <1>3, <1>5 DEF Ahead, Printed
  <1>9. Apart' /\ Balances'
    BY <1>3, <1>5 DEF Apart, Balances
  <1> QED
    BY <1>7, <1>8, <1>9 DEF Flow

\* Whatever the step, if the line is still one whose every fork succeeded.
LEMMA FlowKept == ASSUME SashInv, Setting, FlowInv, Next PROVE FlowInv'
  <1> SUFFICES ASSUME Piping' PROVE Flow'
    BY DEF FlowInv
  <1> PICK p \in Pids : ShellStep(p) \/ ProgramStep(p)
    BY DEF Next
  <1>1. /\ Shell \in Pids /\ NoPid \notin Pids /\ sh \in [Pids -> Frames]
        /\ kind \in [Pids -> {"none", "shell", "forked", "program", "zombie"}]
    BY SashAssumption DEF SashInv, TypeOK
  <1>2. CASE ~(kind[p] = "shell" /\ p = Shell) /\ sh'[Shell] = sh[Shell] /\ kind[Shell] = "shell"
    <2>1. Piping
      BY <1>2 DEF Piping, Line, Count, Kid
    <2>2. kind[p] # "shell"
      BY <1>2, <2>1, Alone
    <2>3. ProgramStep(p)
      BY <2>2 DEF ShellStep, GetLine, Eof, MakePipe, Fork, ForkFails, MayFork, Close, Wait,
                  Prompt, At
    <2>4. ~ExecFails(p)
      <3>1. ASSUME ExecFails(p) PROVE FALSE
        <4>1. kind[p] = "forked" /\ Command(p) \notin Programs /\ p # Shell
          BY <1>2, <3>1 DEF ExecFails
        <4>2. PICK n \in 1..Count : Kid(n) = p
          BY <2>1, <4>1, Working
        <4>3. Flow /\ Stage(n)
          BY <2>1 DEF FlowInv, Flow, Stages
        <4>4. Command(p) = Line[n] /\ n \in 1..Len(Line)
          BY <2>1, <4>1, <4>2, <4>3, Amounts, ShellPlace DEF Stage, Command
        <4> QED
          BY <4>1, <4>3, <4>4 DEF Flow, Stages
      <3> QED
        BY <3>1
    <2> QED
      BY <2>1, <2>3, <2>4, ExecFlow, ReadFlow, WriteFlow, ExitFlow DEF ProgramStep, FlowInv
  <1>3. CASE kind[p] = "shell" /\ p = Shell
    <2>1. ShellStep(Shell)
      BY <1>3 DEF ProgramStep, Exec, ExecFails, Read, Write, Exit
    <2>2. CASE GetLine(Shell)
      BY <2>2, GetLineFlow
    <2>3. CASE Eof(Shell)
      BY <1>1, <2>3 DEF Eof, Piping
    <2>4. CASE MakePipe(Shell)
      <3>1. /\ sh'[Shell].line = sh[Shell].line /\ sh'[Shell].kids = sh[Shell].kids
            /\ sh[Shell].pc = "spawn"
        BY <1>1, <2>4 DEF MakePipe, Frames, At
      <3>2. Piping
        BY <1>3, <3>1 DEF Piping, Line, Count, Kid
      <3> QED
        BY <2>4, <3>2, MakePipeFlow DEF FlowInv
    <2>5. CASE Fork(Shell)
      <3>1. PICK c \in Pids :
              /\ kind[c] = "none"
              /\ sh' = [sh EXCEPT ![Shell].pc = "close", ![Shell].kids = Append(@, c),
                                  ![c] = [sh[Shell] EXCEPT !.pc = "close", !.kids = Append(@, NoPid)]]
        BY <2>5 DEF Fork
      <3>2. /\ c # Shell /\ sh[Shell].pc \in {"spawn", "fork"}
            /\ sh[Shell].kids \in Seq(Pids \cup {NoPid})
        BY <1>1, <1>3, <2>5, <3>1 DEF Fork, MayFork, At, Frames
      <3>3. sh'[Shell].line = sh[Shell].line /\ sh'[Shell].kids = Append(sh[Shell].kids, c)
        <4> DEFINE g == [sh[Shell] EXCEPT !.pc = "close", !.kids = Append(@, c)]
                   h == [sh[Shell] EXCEPT !.pc = "close", !.kids = Append(@, NoPid)]
        <4>1. g.line = sh[Shell].line /\ g.kids = Append(sh[Shell].kids, c)
          BY <1>1 DEF Frames
        <4>2. sh' = [[sh EXCEPT ![Shell] = g] EXCEPT ![c] = h]
          BY <1>1, <3>1, <3>2 DEF Frames
        <4> HIDE DEF g, h
        <4> QED
          BY <1>1, <3>2, <4>1, <4>2
      <3>4. Piping
        <4>1. \A n \in 1..Len(sh[Shell].kids) : /\ sh'[Shell].kids[n] = sh[Shell].kids[n]
                                                /\ n \in 1..Len(sh'[Shell].kids)
          BY <3>2, <3>3
        <4> QED
          BY <1>3, <3>2, <3>3, <4>1 DEF Piping, Line, Count, Kid
      <3> QED
        BY <2>5, <3>4, ForkFlow DEF FlowInv
    <2>6. CASE ForkFails(Shell)
      <3>1. /\ sh'[Shell].kids = Append(sh[Shell].kids, NoPid)
            /\ sh[Shell].kids \in Seq(Pids \cup {NoPid})
        BY <1>1, <2>6 DEF ForkFails, Frames
      <3>2. PICK n \in 1..Len(sh'[Shell].kids) : sh'[Shell].kids[n] = NoPid
        BY <3>1
      <3> QED
        BY <3>2 DEF Piping, Count, Kid
    <2>7. CASE Close(Shell)
      <3>1. sh'[Shell] = IF IsLast(Shell)
                         THEN [sh[Shell] EXCEPT !.pc = "wait", !.i = 1]
                         ELSE [sh[Shell] EXCEPT !.pc = "spawn", !.i = @ + 1, !.last = sh[Shell].pipe]
        BY <1>1, <2>7 DEF Close
      <3>2. sh'[Shell].line = sh[Shell].line /\ sh'[Shell].kids = sh[Shell].kids
        <4>1. CASE IsLast(Shell)
          BY <1>1, <3>1, <4>1, LastFrame
        <4>2. CASE ~IsLast(Shell)
          BY <1>1, <3>1, <4>2, NextFrame
        <4> QED
          BY <4>1, <4>2
      <3>3. Piping
        BY <1>3, <2>7, <3>2 DEF Piping, Line, Count, Kid, Close, At
      <3> QED
        BY <2>7, <3>3, CloseFlow DEF FlowInv
    <2>8. CASE Wait(Shell)
      <3>1. /\ sh'[Shell].line = sh[Shell].line /\ sh'[Shell].kids = sh[Shell].kids
            /\ sh[Shell].pc = "wait"
        BY <1>1, <2>8 DEF Wait, Frames, At
      <3>2. Piping
        BY <1>3, <3>1 DEF Piping, Line, Count, Kid
      <3> QED
        BY <2>8, <3>2, WaitFlow DEF FlowInv
    <2>9. CASE Prompt(Shell)
      BY <1>1, <2>9 DEF Prompt, Idle, Piping
    <2> QED
      BY <2>1, <2>2, <2>3, <2>4, <2>5, <2>6, <2>7, <2>8, <2>9 DEF ShellStep
  <1>4. sh'[Shell] = sh[Shell] \/ p = Shell
    <2>1. ASSUME p # Shell PROVE sh'[Shell] = sh[Shell]
      <3>1. CASE Fork(p)
        <4>1. PICK c \in Pids :
                /\ kind[c] = "none"
                /\ sh' = [sh EXCEPT ![p].pc = "close", ![p].kids = Append(@, c),
                                    ![c] = [sh[p] EXCEPT !.pc = "close", !.kids = Append(@, NoPid)]]
          BY <3>1 DEF Fork
        <4>2. c # Shell
          BY <4>1 DEF SashInv, Family
        <4> QED
          BY <1>1, <2>1, <4>1, <4>2
      <3>2. CASE ProgramStep(p)
        BY <3>2 DEF ProgramStep, Exec, ExecFails, Read, Write, Exit
      <3>3. CASE ShellStep(p) /\ ~Fork(p)
        BY <1>1, <2>1, <3>3 DEF ShellStep, GetLine, Eof, MakePipe, ForkFails, Close, Wait, Prompt
      <3> QED
        BY <3>1, <3>2, <3>3
    <2> QED
      BY <2>1
  <1>5. kind[Shell] = "shell"
    <2>1. kind[Shell] \in {"shell", "zombie"} /\ kind'[Shell] = "shell"
      BY DEF SashInv, Family, Piping
    <2>2. ASSUME kind[Shell] = "zombie" PROVE FALSE
      <3>1. CASE Wait(p)
        BY <1>1, <2>1, <2>2, <3>1 DEF Wait
      <3>2. CASE ~Wait(p)
        BY <1>1, <2>1, <2>2, <3>2 DEF ShellStep, GetLine, Eof, MakePipe, Fork, ForkFails, Close,
                                      Prompt,
                ProgramStep, Exec, ExecFails, Read, Write, Exit
      <3> QED
        BY <3>1, <3>2
    <2> QED
      BY <2>1, <2>2
  <1>6. p = Shell => kind[p] = "shell"
    BY <1>5
  <1> QED
    BY <1>2, <1>3, <1>4, <1>5, <1>6

PipeInv == SashInv /\ Setting /\ FlowInv

\* The first shell at its prompt: the only one, and no line under way.
LEMMA InitPipe == Init => PipeInv
  <1> SUFFICES ASSUME Init PROVE PipeInv
    OBVIOUS
  <1>1. Shell \in Pids /\ NoPid \notin Pids
    BY SashAssumption
  <1>2. Lineage
    <2> DEFINE f == [k \in 1..1 |-> Shell]
    <2>1. f \in [1..1 -> Pids] /\ \A k \in 1..1 : f[k] = Shell
      BY <1>1
    <2>2. 1 \in 1..1
      OBVIOUS
    <2>3. Chain(1, f)
      BY <1>1, <2>1, <2>2 DEF Chain, Init
    <2> HIDE DEF f
    <2> QED
      BY <2>1, <2>3 DEF Lineage
  <1>3. Console /\ Copied
    BY <1>1 DEF Console, Copied, Init
  <1>4. ~Piping
    BY <1>1 DEF Piping, Init, Idle
  <1> QED
    BY <1>2, <1>3, <1>4, InitSash DEF PipeInv, Setting, FlowInv

\* Every step keeps it.
LEMMA NextPipe == PipeInv /\ [Next]_vars => PipeInv'
  <1> SUFFICES ASSUME PipeInv, [Next]_vars PROVE PipeInv'
    OBVIOUS
  <1>1. SashInv'
    BY NextSash DEF PipeInv
  <1>2. CASE Next
    BY <1>1, <1>2, SettingKept, FlowKept DEF PipeInv
  <1>3. CASE UNCHANGED vars
    <2> USE <1>3 DEF vars
    <2>1. Setting'
      BY ChainKept DEF PipeInv, Setting, Console, Copied
    <2>2. Line' = Line /\ Count' = Count /\ \A n : Kid(n)' = Kid(n)
      BY DEF Line, Count, Kid
    <2>3. \A n : (Dead(n)' = Dead(n)) /\ Got(n)' = Got(n) /\ Put(n)' = Put(n)
      BY <2>2 DEF Dead, Got, Put, Wanted
    <2>4. \A n : (Open(n)' = Open(n)) /\ Taken(n)' = Taken(n)
      BY <2>2, <2>3 DEF Open, Taken
    <2>5. \A n : (Stage(n)' = Stage(n)) /\ (Balance(n)' = Balance(n))
      BY <2>2, <2>3, <2>4 DEF Stage, Balance
    <2>6. FlowInv'
      BY <2>2, <2>3, <2>4, <2>5
         DEF PipeInv, FlowInv, Piping, Flow, Stages, Ahead, Apart, Balances, Printed
    <2> QED
      BY <1>1, <2>1, <2>6 DEF PipeInv
  <1> QED
    BY <1>2, <1>3

\* When the first shell has waited for the last child, the terminal has what the pipeline lets
\* through, no line less and none more: for every set of lines, of processes and of pipes,
\* whatever a pipe holds and however the children are scheduled.
THEOREM NothingIsLost == Spec => []PipedThrough
  <1>1. ASSUME PipeInv PROVE PipedThrough
    <2> SUFFICES ASSUME At(Shell, "wait"), sh[Shell].i > Len(sh[Shell].kids),
                        sh[Shell].line[1] \in Programs,
                        \A n \in DOMAIN sh[Shell].kids : sh[Shell].kids[n] # NoPid
                 PROVE  printed = Through(sh[Shell].line, Len(sh[Shell].line))
      BY DEF PipedThrough
    <2>1. SashInv /\ kind[Shell] = "shell" /\ sh[Shell].pc = "wait" /\ Shell \in Pids
      BY <1>1, SashAssumption DEF PipeInv, At
    <2>2. sh[Shell].kids \in Seq(Pids \cup {NoPid})
      BY <2>1, ShellAt
    <2>3. Piping
      BY <2>1, <2>2 DEF Piping, Line, Count, Kid
    <2>4. Flow /\ Count = Len(Line) /\ Count \in Nat /\ sh[Shell].i \in Nat
      BY <1>1, <2>1, <2>3, ShellPlace DEF PipeInv, FlowInv, Flow, Ahead
    <2>5. Count \in 1..Count
      BY <2>4, <2>3, <2>1, ShellPlace DEF Flow, Stages
    <2>6. Stage(Count) /\ Balance(Count)
      BY <2>4, <2>5 DEF Flow, Stages, Balances
    <2>7. kind[Kid(Count)] = "none"
      <3>1. ASSUME kind[Kid(Count)] # "none" PROVE FALSE
        <4>1. Kid(Count) \in Pids /\ parent[Kid(Count)] = Shell
          BY <2>6 DEF Stage
        <4>2. Awaited(Shell, Kid(Count))
          BY <2>1, <3>1, <4>1, ShellAt
        <4>3. PICK n \in 1..Len(sh[Shell].kids) : n >= sh[Shell].i
          BY <2>1, <4>2 DEF Awaited
        <4> QED
          BY <2>2, <2>4, <4>3 DEF Count
      <3> QED
        BY <3>1
    <2>8. Put(Count) = Through(Line, Count)
      BY <2>6, <2>7 DEF Balance, Dead
    <2> QED
      BY <2>4, <2>8 DEF Flow, Printed, Line
  <1> QED
    BY InitPipe, NextPipe, <1>1, PTL DEF Spec
=============================================================================
