------------------------- MODULE RockPaperScissors -------------------------
(***************************************************************************)
(* ed-lesson-9/rock-paper-scissors.c: parent and child greet each other    *)
(* and play round after round over two pipes.  Strings and ints travel     *)
(* without a length: a read asks for the bytes of the record it expects,   *)
(* and gets the first bytes there are, at most as many.  A write is one    *)
(* record at once (none is longer than PIPE_BUF).                          *)
(***************************************************************************)
EXTENDS Integers, Sequences, FiniteSetsExt

Players == {"parent", "child"}
Other(p) == IF p = "parent" THEN "child" ELSE "parent"

VARIABLES
    at,                 \* where each process stands
    bytes,              \* the bytes in each player's pipe, by who writes it
    selection,          \* each player's own choice
    selection_2,        \* the other's, as read
    verdict             \* what each has printed last

vars == <<at, bytes, selection, selection_2, verdict>>

\* "Online", "Game time!" and an int, as sizeof counts them; a byte knows its record.
Size(kind) == CASE kind = "online" -> 7 [] kind = "game" -> 11 [] kind = "int" -> 4
Record(kind, v) == [k \in 1..Size(kind) |-> [kind |-> kind, value |-> v, at |-> k]]
Hands == 0..2             \* rock, paper, scissors
Unknown == 3                \* an int put together from other bytes than one int's

Init ==
    /\ at = [parent |-> "fork", child |-> "none"]
    /\ bytes = [p \in Players |-> <<>>]
    /\ selection = [p \in Players |-> 0]
    /\ selection_2 = [p \in Players |-> 0]
    /\ verdict = [p \in Players |-> "none"]

Goes(p, from, to) == at[p] = from /\ at' = [at EXCEPT ![p] = to]
Write(p, kind, v) == bytes' = [bytes EXCEPT ![p] = @ \o Record(kind, v)]

\* read(n) on the other's pipe: it blocks while there is nothing.
Got(p, n) == SubSeq(bytes[Other(p)], 1, Min({n, Len(bytes[Other(p)])}))
Read(p, n) ==
    /\ bytes[Other(p)] # <<>>
    /\ bytes' = [bytes EXCEPT ![Other(p)] = SubSeq(@, n + 1, Len(@))]
ReadInt(p) == IF Got(p, Size("int")) = Record("int", bytes[Other(p)][1].value)
              THEN bytes[Other(p)][1].value ELSE Unknown

----------------------------------------------------------------------------
\* Variants of the definitions below, each with one plausible slip.

\* The invitation is read as if it were as long as the greeting.
ChildInvitedShort ==
    /\ Goes("child", "play",
            IF Got("child", Size("online")) = Record("game", 0) THEN "choose" ELSE "play")
    /\ Read("child", Size("online"))
    /\ UNCHANGED <<selection, selection_2, verdict>>

\* The greater choice wins, scissors against rock too.
VerdictGreater(mine, theirs) ==
    IF mine = theirs THEN "draw" ELSE IF mine > theirs THEN "won" ELSE "lost"

----------------------------------------------------------------------------
Fork ==
    /\ at["parent"] = "fork"
    /\ at' \in {[parent |-> "online", child |-> "online"], [parent |-> "ended", child |-> "none"]}
    /\ UNCHANGED <<bytes, selection, selection_2, verdict>>

ParentOnline ==
    /\ Goes("parent", "online", "greeted")
    /\ Write("parent", "online", 0)
    /\ UNCHANGED <<selection, selection_2, verdict>>

\* The child's greeting is read, whatever it is.
ParentGreeted ==
    /\ Goes("parent", "greeted", "play")
    /\ Read("parent", Size("online"))
    /\ UNCHANGED <<selection, selection_2, verdict>>

ParentInvite ==
    /\ Goes("parent", "play", "choose")
    /\ Write("parent", "game", 0)
    /\ UNCHANGED <<selection, selection_2, verdict>>

\* The child answers the greeting if it is the one expected.
ChildOnline ==
    /\ Goes("child", "online",
            IF Got("child", Size("online")) = Record("online", 0) THEN "greet" ELSE "play")
    /\ Read("child", Size("online"))
    /\ UNCHANGED <<selection, selection_2, verdict>>

ChildGreet ==
    /\ Goes("child", "greet", "play")
    /\ Write("child", "online", 0)
    /\ UNCHANGED <<selection, selection_2, verdict>>

\* It plays if it is invited, and reads on if it has read anything else.
ChildInvited ==
    /\ Goes("child", "play",
            IF Got("child", Size("game")) = Record("game", 0) THEN "choose" ELSE "play")
    /\ Read("child", Size("game"))
    /\ UNCHANGED <<selection, selection_2, verdict>>

Choose(p) ==
    /\ Goes(p, "choose", "answer")
    /\ \E s \in Hands :
          selection' = [selection EXCEPT ![p] = s] /\ Write(p, "int", s)
    /\ UNCHANGED <<selection_2, verdict>>

\* Rock beats scissors; otherwise the greater choice wins.
Verdict(mine, theirs) ==
    IF mine = theirs THEN "draw"
    ELSE IF {mine, theirs} = {0, 2} THEN IF mine = 0 THEN "won" ELSE "lost"
    ELSE IF mine > theirs THEN "won" ELSE "lost"

Answer(p) ==
    /\ Goes(p, "answer", "play")
    /\ Read(p, Size("int"))
    /\ selection_2' = [selection_2 EXCEPT ![p] = ReadInt(p)]
    /\ verdict' = [verdict EXCEPT ![p] = Verdict(selection[p], ReadInt(p))]
    /\ UNCHANGED selection

Parent ==
    \/ Fork \/ ParentOnline \/ ParentGreeted \/ ParentInvite
    \/ Choose("parent") \/ Answer("parent")
Child == ChildOnline \/ ChildGreet \/ ChildInvited \/ Choose("child") \/ Answer("child")

Next == Parent \/ Child

----------------------------------------------------------------------------
Beats == {<<0, 2>>, <<1, 0>>, <<2, 1>>}

\* No read ever takes bytes of two records or part of one, so that when both have played a
\* round their verdicts are the game's, and each is the reverse of the other's.
FairGame ==
    /\ \A p \in Players : bytes[p] = <<>> \/ bytes[p][1].at = 1
    /\ at["parent"] = "play" /\ at["child"] = "play" /\ verdict["parent"] # "none" =>
          \A p \in Players :
              LET pair == <<selection[p], selection[Other(p)]>>
              IN  /\ verdict[p] = "won" <=> pair \in Beats
                  /\ verdict[p] = "draw" <=> pair[1] = pair[2]
                  /\ selection_2[p] = pair[2]
============================================================================
