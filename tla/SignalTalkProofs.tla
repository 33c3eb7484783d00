-------------------------- MODULE SignalTalkProofs --------------------------
(***************************************************************************)
(* The conversation of SignalTalk.tla for every number of rounds: as long  *)
(* as the user keeps out of it, one bit per process is enough.             *)
(***************************************************************************)
EXTENDS SignalTalk, TLAPS

\* Where the parent may be before its first kill, and from then on.
Opening == {"block", "fork", "identify", "unblock", "greet", "load", "store", "reblock"}
Talking == {"notify", "loop", "suspend", "wait", "exit"}

\* A signal is taken inside sigsuspend only, but for the parent's opening.
Masked ==
    /\ pc["parent"] \in {"fork", "identify", "unblock"} \cup Talking => blocked["parent"]
    /\ pc["child"] # "unborn" => blocked["child"]
    /\ pc["parent"] # "unborn"

\* Until the parent's first kill there is no signal, and one line at most.
Opened ==
    pc["parent"] \in Opening =>
        /\ ~pending["parent"] /\ ~pending["child"]
        /\ counter["child"] = 0
        /\ counter["parent"] = IF pc["parent"] = "reblock" THEN 1 ELSE 0
        /\ pc["parent"] = "store" => loaded = 0
        /\ Len(log) = IF pc["parent"] \in {"load", "store", "reblock"} THEN 1 ELSE 0
        /\ IF pc["parent"] \in {"block", "fork"}
           THEN pc["child"] = "unborn"
           ELSE pc["child"] \in {"identify", "loop", "suspend"}

\* From then on one of them is ahead or they are even, and the next line is the other's
\* alone: it has no more than one signal, and who has spoken has none.
Turns ==
    pc["parent"] \in Talking =>
        /\ Len(log) = counter["parent"] + counter["child"]
        /\ \/ /\ counter["parent"] = counter["child"] + 1
              /\ pc["child"] \in {"identify", "loop", "suspend", "exit"}
              /\ ~pending["parent"]
              /\ pc["parent"] = "notify" => ~pending["child"]
           \/ /\ counter["parent"] = counter["child"]
              /\ pc["parent"] \in {"loop", "suspend"}
              /\ pc["child"] \in {"notify", "loop", "suspend", "exit"}
              /\ ~pending["child"]
              /\ pc["child"] = "notify" => ~pending["parent"]

\* Who waits for a signal has a line left; who has left the loop has none.
LinesLeft ==
    /\ pc["parent"] = "suspend" => counter["parent"] <= Rounds
    /\ pc["child"] = "suspend" => counter["child"] <= Rounds - 1
    /\ pc["parent"] \in {"wait", "exit"} => counter["parent"] > Rounds
    /\ pc["child"] = "unborn" => pc["parent"] \in {"block", "fork"}

Spoken == \A n \in 1 .. Len(log) : log[n] = Line(n)

Quiet == Masked /\ Opened /\ Turns /\ LinesLeft /\ Spoken

IInv == TypeOK /\ (ctrlC = 0 => Quiet)

\* The parent says the odd lines and the child the even ones.
LEMMA LinesInTurn ==
    \A k \in Nat : Line(2 * k + 1) = <<"parent", k>> /\ Line(2 * k + 2) = <<"child", k>>
  <1> SUFFICES ASSUME NEW k \in Nat
               PROVE  Line(2 * k + 1) = <<"parent", k>> /\ Line(2 * k + 2) = <<"child", k>>
    OBVIOUS
  <1>1. (2 * k + 1) % 2 = 1 /\ (2 * k + 2) % 2 = 0
    OBVIOUS
  <1>2. (2 * k + 1 - 1) \div 2 = k /\ (2 * k + 2 - 1) \div 2 = k
    OBVIOUS
  <1>3. QED
    BY <1>1, <1>2 DEF Line

\* One process, and not a word said.
LEMMA InitIInv == Init => IInv
  <1> SUFFICES ASSUME Init PROVE IInv
    OBVIOUS
  <1>1. TypeOK
    BY TalkAssumption DEF Init, TypeOK, Lines, Procs
  <1>2. Quiet
    BY TalkAssumption DEF Init, Quiet, Masked, Opened, Turns, LinesLeft, Spoken, Opening, Talking, Procs
  <1>3. QED
    BY <1>1, <1>2 DEF IInv

\* Steps in which nobody speaks, counts or signals.
LEMMA SilentIInv ==
    ASSUME IInv, BlockFirst \/ ParentIdentify \/ Unblock \/ Reblock \/ ChildIdentify \/ ParentWait
    PROVE  IInv'
  <1> USE TalkAssumption DEF IInv, TypeOK, Procs, BlockFirst, ParentIdentify, Unblock, Reblock, ChildIdentify, ParentWait, Goto
  <1>1. TypeOK'
    <2>1. CASE BlockFirst
      BY <2>1 DEF Lines
    <2>2. CASE ParentIdentify
      BY <2>2 DEF Lines
    <2>3. CASE Unblock
      BY <2>3 DEF Lines
    <2>4. CASE Reblock
      BY <2>4 DEF Lines
    <2>5. CASE ChildIdentify
      BY <2>5 DEF Lines
    <2>6. CASE ParentWait
      BY <2>6 DEF Lines
    <2>7. QED
      BY <2>1, <2>2, <2>3, <2>4, <2>5, <2>6
  <1>2. SUFFICES ASSUME ctrlC = 0, Quiet PROVE Quiet'
    BY <1>1
  <1>3. Masked'
    BY <1>2 DEF Quiet, Masked, Talking
  <1>4. Opened'
    BY <1>2 DEF Quiet, Masked, Opened, Turns, Opening, Talking
  <1>5. Turns'
    <2>1. CASE BlockFirst
      BY <1>2, <2>1 DEF Quiet, Opened, Turns, Opening, Talking
    <2>2. CASE ParentIdentify
      BY <1>2, <2>2 DEF Quiet, Opened, Turns, Opening, Talking
    <2>3. CASE Unblock
      BY <1>2, <2>3 DEF Quiet, Opened, Turns, Opening, Talking
    <2>4. CASE Reblock
      BY <1>2, <2>4 DEF Quiet, Opened, Turns, Opening, Talking
    <2>5. CASE ChildIdentify
      BY <1>2, <2>5 DEF Quiet, Opened, Turns, Opening, Talking
    <2>6. CASE ParentWait
      BY <1>2, <2>6 DEF Quiet, Opened, Turns, Opening, Talking
    <2>7. QED
      BY <2>1, <2>2, <2>3, <2>4, <2>5, <2>6
  <1>6. LinesLeft'
    BY <1>2 DEF Quiet, Opened, Turns, LinesLeft, Opening, Talking, Lines
  <1>7. Spoken'
    BY <1>2 DEF Quiet, Spoken, Line
  <1>8. QED
    BY <1>3, <1>4, <1>5, <1>6, <1>7 DEF Quiet

\* The child is born with SIGINT blocked.
LEMMA ForkIInv ==
    ASSUME IInv, Fork
    PROVE  IInv'
  <1> USE TalkAssumption DEF IInv, TypeOK, Procs, Fork, Goto
  <1>1. TypeOK'
    BY DEF Lines, Quiet, Opened, Turns, LinesLeft, Opening, Talking
  <1>2. SUFFICES ASSUME ctrlC = 0, Quiet PROVE Quiet'
    BY <1>1
  <1>3. Masked'
    BY <1>2 DEF Quiet, Masked, Talking
  <1>4. Opened'
    BY <1>2 DEF Quiet, Masked, Opened, Turns, Opening, Talking
  <1>5. Turns'
    BY <1>2 DEF Quiet, Masked, Opened, Turns, LinesLeft, Opening, Talking
  <1>6. LinesLeft'
    BY <1>2 DEF Quiet, Opened, Turns, LinesLeft, Opening, Talking, Lines
  <1>7. Spoken'
    BY <1>2 DEF Quiet, Spoken, Line
  <1>8. QED
    BY <1>3, <1>4, <1>5, <1>6, <1>7 DEF Quiet

\* The parent's first line.
LEMMA GreetIInv ==
    ASSUME IInv, Greet
    PROVE  IInv'
  <1> USE TalkAssumption DEF IInv, TypeOK, Procs, Greet, Goto
  <1>1. TypeOK'
    BY DEF Lines, Quiet, Opened, Turns, LinesLeft, Opening, Talking
  <1>2. SUFFICES ASSUME ctrlC = 0, Quiet PROVE Quiet'
    BY <1>1
  <1>3. Masked'
    BY <1>2 DEF Quiet, Masked, Talking
  <1>4. Opened'
    BY <1>2 DEF Quiet, Masked, Opened, Turns, Opening, Talking
  <1>5. Turns'
    BY <1>2 DEF Quiet, Masked, Opened, Turns, LinesLeft, Opening, Talking
  <1>6. LinesLeft'
    BY <1>2 DEF Quiet, Opened, Turns, LinesLeft, Opening, Talking, Lines
  <1>7. Spoken'
    <2>1. Len(log) = 0
      BY <1>2 DEF Quiet, Opened, Opening
    <2>2. Len(log') = 1 /\ log'[1] = <<"parent", 0>>
      BY <2>1
    <2>3. QED
      BY <2>2 DEF Spoken, Line
  <1>8. QED
    BY <1>3, <1>4, <1>5, <1>6, <1>7 DEF Quiet

\* The first line is counted; no handler runs in between.
LEMMA CountIInv ==
    ASSUME IInv, CountLoad \/ CountStore
    PROVE  IInv'
  <1> USE TalkAssumption DEF IInv, TypeOK, Procs, CountLoad, CountStore, Goto
  <1>1. TypeOK'
    BY DEF Lines, Quiet, Opened, Turns, LinesLeft, Opening, Talking
  <1>2. SUFFICES ASSUME ctrlC = 0, Quiet PROVE Quiet'
    BY <1>1
  <1>3. Masked'
    BY <1>2 DEF Quiet, Masked, Talking
  <1>4. Opened'
    BY <1>2 DEF Quiet, Masked, Opened, Turns, Opening, Talking
  <1>5. Turns'
    BY <1>2 DEF Quiet, Masked, Opened, Turns, LinesLeft, Opening, Talking
  <1>6. LinesLeft'
    BY <1>2 DEF Quiet, Opened, Turns, LinesLeft, Opening, Talking, Lines
  <1>7. Spoken'
    BY <1>2 DEF Quiet, Spoken, Line
  <1>8. QED
    BY <1>3, <1>4, <1>5, <1>6, <1>7 DEF Quiet

\* The loop goes on while there is a line left.
LEMMA LoopTestIInv ==
    ASSUME IInv, NEW p \in Procs, LoopTest(p)
    PROVE  IInv'
  <1> USE TalkAssumption DEF IInv, TypeOK, Procs, LoopTest, Lines, Goto
  <1>1. TypeOK'
    BY DEF Lines, Quiet, Opened, Turns, LinesLeft, Opening, Talking
  <1>2. SUFFICES ASSUME ctrlC = 0, Quiet PROVE Quiet'
    BY <1>1
  <1>3. Masked'
    BY <1>2 DEF Quiet, Masked, Talking
  <1>4. Opened'
    BY <1>2 DEF Quiet, Masked, Opened, Turns, Opening, Talking
  <1>5. Turns'
    BY <1>2 DEF Quiet, Masked, Opened, Turns, LinesLeft, Opening, Talking
  <1>6. LinesLeft'
    BY <1>2 DEF Quiet, Opened, Turns, LinesLeft, Opening, Talking, Lines
  <1>7. Spoken'
    BY <1>2 DEF Quiet, Spoken, Line
  <1>8. QED
    BY <1>3, <1>4, <1>5, <1>6, <1>7 DEF Quiet

\* The one whose turn it is says its next line.
LEMMA SuspendIInv ==
    ASSUME IInv, NEW p \in Procs, Suspend(p)
    PROVE  IInv'
  <1> USE TalkAssumption DEF IInv, TypeOK, Procs, Suspend, Handler, Speaker, Goto
  <1>1. TypeOK'
    BY DEF Lines, Quiet, Opened, Turns, LinesLeft, Opening, Talking
  <1>2. SUFFICES ASSUME ctrlC = 0, Quiet PROVE Quiet'
    BY <1>1
  <1>3. Masked'
    BY <1>2 DEF Quiet, Masked, Talking
  <1>4. Opened'
    BY <1>2 DEF Quiet, Masked, Opened, Turns, Opening, Talking
  <1>5. Turns'
    BY <1>2 DEF Quiet, Masked, Opened, Turns, LinesLeft, Opening, Talking
  <1>6. LinesLeft'
    BY <1>2 DEF Quiet, Opened, Turns, LinesLeft, Opening, Talking, Lines
  <1>7. Spoken'
    <2>1. counter["parent"] \in Nat /\ counter["child"] \in Nat
      OBVIOUS
    <2>2. <<Speaker(p), counter[p]>> = Line(Len(log) + 1)
      <3>1. CASE p = "parent"
        <4>1. Len(log) + 1 = 2 * counter["parent"] + 1
          BY <1>2, <2>1, <3>1 DEF Quiet, Turns, Talking
        <4>2. QED
          BY <1>2, <2>1, <3>1, <4>1, LinesInTurn DEF Quiet, Masked, Opened, Opening
      <3>2. CASE p = "child"
        <4>1. Len(log) + 1 = 2 * counter["child"] + 2
          <5>1. pc["parent"] \in Talking
            BY <1>2, <3>2 DEF Quiet, Masked, Opened, Opening, Talking
          <5>2. Len(log) = counter["parent"] + counter["child"]
            BY <1>2, <5>1 DEF Quiet, Turns
          <5>3. counter["parent"] = counter["child"] + 1
            BY <1>2, <3>2, <5>1 DEF Quiet, Turns
          <5>4. QED
            BY <2>1, <5>2, <5>3
        <4>2. QED
          BY <2>1, <3>2, <4>1, LinesInTurn
      <3>3. QED
        BY <3>1, <3>2
    <2>3. log' = Append(log, <<Speaker(p), counter[p]>>)
      OBVIOUS
    <2>4. ASSUME NEW n \in 1..Len(log') PROVE log'[n] = Line(n)
      <3>1. CASE n = Len(log) + 1
        <4>1. log'[Len(log) + 1] = <<Speaker(p), counter[p]>>
          BY <2>3
        <4>2. QED
          BY <2>2, <3>1, <4>1
      <3>2. CASE n \in 1..Len(log)
        BY <1>2, <2>3, <3>2 DEF Quiet, Spoken
      <3>3. Len(log') = Len(log) + 1
        BY <2>3
      <3>4. QED
        BY <3>1, <3>2, <3>3
    <2>5. QED
      BY <2>4 DEF Spoken
  <1>8. QED
    BY <1>3, <1>4, <1>5, <1>6, <1>7 DEF Quiet

\* The signal hands the turn over.
LEMMA NotifyIInv ==
    ASSUME IInv, NEW p \in Procs, Notify(p)
    PROVE  IInv'
  <1> USE TalkAssumption DEF IInv, TypeOK, Procs, Notify, Kill, Alive, Peer, Goto
  <1>1. TypeOK'
    BY DEF Lines, Quiet, Opened, Turns, LinesLeft, Opening, Talking
  <1>2. SUFFICES ASSUME ctrlC = 0, Quiet PROVE Quiet'
    BY <1>1
  <1>3. Masked'
    BY <1>2 DEF Quiet, Masked, Talking
  <1>4. Opened'
    BY <1>2 DEF Quiet, Masked, Opened, Turns, Opening, Talking
  <1>5. Turns'
    BY <1>2 DEF Quiet, Masked, Opened, Turns, LinesLeft, Opening, Talking
  <1>6. LinesLeft'
    BY <1>2 DEF Quiet, Opened, Turns, LinesLeft, Opening, Talking, Lines
  <1>7. Spoken'
    BY <1>2 DEF Quiet, Spoken, Line
  <1>8. QED
    BY <1>3, <1>4, <1>5, <1>6, <1>7 DEF Quiet

\* Nothing interrupts a process outside sigsuspend.
LEMMA InterruptIInv ==
    ASSUME IInv, NEW p \in Procs, Interrupt(p)
    PROVE  IInv'
  <1> USE TalkAssumption DEF IInv, TypeOK, Procs, Interrupt, Handler, Speaker, Alive
  <1>1. ctrlC # 0
    BY DEF Quiet, Masked, Opened, Opening, Talking
  <1>2. TypeOK'
    BY <1>1
  <1>3. QED
    BY <1>1, <1>2

\* Ctrl-C ends what is claimed.
LEMMA CtrlCIInv == ASSUME IInv, CtrlC PROVE IInv'
  <1> USE TalkAssumption DEF IInv, TypeOK, CtrlC, Alive
  <1>1. TypeOK' /\ ctrlC' # 0
    OBVIOUS
  <1>2. QED
    BY <1>1

\* Every step of either process, and of the user, keeps the invariant.
LEMMA NextIInv == IInv /\ [Next]_vars => IInv'
  <1> SUFFICES ASSUME IInv, [Next]_vars PROVE IInv'
    OBVIOUS
  <1>1. CASE Parent
    BY <1>1, SilentIInv, ForkIInv, GreetIInv, CountIInv, LoopTestIInv, SuspendIInv, NotifyIInv,
       InterruptIInv DEF Parent, Procs
  <1>2. CASE Child
    BY <1>2, SilentIInv, LoopTestIInv, SuspendIInv, NotifyIInv, InterruptIInv DEF Child, Procs
  <1>3. CASE CtrlC
    BY <1>3, CtrlCIInv
  <1>4. CASE UNCHANGED vars
    BY <1>4 DEF vars, IInv, TypeOK, Quiet, Masked, Opened, Turns, LinesLeft, Spoken
  <1>5. QED
    BY <1>1, <1>2, <1>3, <1>4 DEF Next, Over

\* While the user keeps out of it, what is on stdout is the conversation of the arrays as
\* far as it has come: no line is skipped, repeated or out of turn, for every length.
THEOREM Conversation == Spec => []Dialogue
  <1>1. IInv => Dialogue
    BY DEF IInv, Quiet, Spoken, Dialogue
  <1>2. QED
    BY InitIInv, NextIInv, <1>1, PTL DEF Spec

----------------------------------------------------------------------------
\* With a user at the terminal.

\* Signals on their way to the parent's opening: pending there, pending for the child, or
\* about to be passed on by it.
Bit(b) == IF b THEN 1 ELSE 0
OnTheWay == Bit(pending["parent"]) + Bit(pending["child"]) + Bit(pc["child"] = "notify")

\* Until the parent has its first line counted every signal comes from a Ctrl-C, and a Ctrl-C
\* is worth two at most: its own, and the one the child passes on.
Counted ==
    pc["parent"] \in Opening =>
        counter["parent"] + OnTheWay <= 2 * ctrlC + Bit(pc["parent"] = "reblock")

\* The child has steps of its own, and what is loaded is not ahead of what is stored.
Placed ==
    /\ pc["child"] \in {"unborn", "identify", "loop", "suspend", "notify", "exit"}
    /\ pc["child"] = "unborn" => pc["parent"] \in {"block", "fork"} /\ ~pending["child"]
    /\ pc["parent"] = "store" => loaded <= counter["parent"]
    /\ \A p \in Procs : pc[p] = "suspend" => counter[p] < Lines(p)

Bounded == IInv /\ Masked /\ Counted /\ Placed

\* No signal has been sent yet.
LEMMA InitBounded == Init => Bounded
  BY InitIInv, TalkAssumption
     DEF Init, Bounded, Masked, Counted, Placed, OnTheWay, Bit, Procs, Lines, Opening, Talking

\* Every step keeps the balance of signals.
LEMMA NextBounded == Bounded /\ [Next]_vars => Bounded'
  <1> SUFFICES ASSUME Bounded, [Next]_vars PROVE Bounded'
    OBVIOUS
  <1>1. IInv'
    BY NextIInv DEF Bounded
  <1> DEFINE Kept == Masked' /\ Counted' /\ Placed'
  <1>2. ASSUME BlockFirst PROVE Kept
    BY <1>2, TalkAssumption
       DEF BlockFirst, Goto, Bounded, IInv, TypeOK, Masked, Counted, Placed, OnTheWay,
           Bit, Procs, Lines, Opening, Talking
  <1>3. ASSUME Fork PROVE Kept
    BY <1>3, TalkAssumption
       DEF Fork, Goto, Bounded, IInv, TypeOK, Masked, Counted, Placed, OnTheWay,
           Bit, Procs, Lines, Opening, Talking
  <1>4. ASSUME ParentIdentify PROVE Kept
    BY <1>4, TalkAssumption
       DEF ParentIdentify, Goto, Bounded, IInv, TypeOK, Masked, Counted, Placed, OnTheWay,
           Bit, Procs, Lines, Opening, Talking
  <1>5. ASSUME Unblock PROVE Kept
    BY <1>5, TalkAssumption
       DEF Unblock, Goto, Bounded, IInv, TypeOK, Masked, Counted, Placed, OnTheWay,
           Bit, Procs, Lines, Opening, Talking
  <1>6. ASSUME Greet PROVE Kept
    BY <1>6, TalkAssumption
       DEF Greet, Goto, Bounded, IInv, TypeOK, Masked, Counted, Placed, OnTheWay,
           Bit, Procs, Lines, Opening, Talking
  <1>7. ASSUME CountLoad PROVE Kept
    BY <1>7, TalkAssumption
       DEF CountLoad, Goto, Bounded, IInv, TypeOK, Masked, Counted, Placed, OnTheWay,
           Bit, Procs, Lines, Opening, Talking
  <1>8. ASSUME CountStore PROVE Kept
    BY <1>8, TalkAssumption
       DEF CountStore, Goto, Bounded, IInv, TypeOK, Masked, Counted, Placed, OnTheWay,
           Bit, Procs, Lines, Opening, Talking
  <1>9. ASSUME Reblock PROVE Kept
    BY <1>9, TalkAssumption
       DEF Reblock, Goto, Bounded, IInv, TypeOK, Masked, Counted, Placed, OnTheWay,
           Bit, Procs, Lines, Opening, Talking
  <1>10. ASSUME ParentWait PROVE Kept
    BY <1>10, TalkAssumption
       DEF ParentWait, Goto, Bounded, IInv, TypeOK, Masked, Counted, Placed, OnTheWay,
           Bit, Procs, Lines, Opening, Talking
  <1>11. ASSUME ChildIdentify PROVE Kept
    BY <1>11, TalkAssumption
       DEF ChildIdentify, Goto, Bounded, IInv, TypeOK, Masked, Counted, Placed, OnTheWay,
           Bit, Procs, Lines, Opening, Talking
  <1>12. ASSUME CtrlC PROVE Kept
    BY <1>12, TalkAssumption
       DEF CtrlC, Goto, Alive, Bounded, IInv, TypeOK, Masked, Counted, Placed, OnTheWay,
           Bit, Procs, Lines, Opening, Talking
  <1>13. ASSUME NEW p \in Procs, LoopTest(p) PROVE Kept
    <2>1. CASE p = "parent"
      BY <1>13, <2>1, TalkAssumption
         DEF LoopTest, Goto, Bounded, IInv, TypeOK, Masked, Counted, Placed, OnTheWay,
           Bit, Procs, Lines, Opening, Talking
    <2>2. CASE p = "child"
      BY <1>13, <2>2, TalkAssumption
         DEF LoopTest, Goto, Bounded, IInv, TypeOK, Masked, Counted, Placed, OnTheWay,
           Bit, Procs, Lines, Opening, Talking
    <2>3. QED
      BY <2>1, <2>2 DEF Procs
  <1>14. ASSUME NEW p \in Procs, Suspend(p) PROVE Kept
    <2>1. CASE p = "parent"
      BY <1>14, <2>1, TalkAssumption
         DEF Suspend, Goto, Handler, Bounded, IInv, TypeOK, Masked, Counted, Placed, OnTheWay,
           Bit, Procs, Lines, Opening, Talking
    <2>2. CASE p = "child"
      BY <1>14, <2>2, TalkAssumption
         DEF Suspend, Goto, Handler, Bounded, IInv, TypeOK, Masked, Counted, Placed, OnTheWay,
           Bit, Procs, Lines, Opening, Talking
    <2>3. QED
      BY <2>1, <2>2 DEF Procs
  <1>15. ASSUME NEW p \in Procs, Notify(p) PROVE Kept
    <2>1. CASE p = "parent"
      BY <1>15, <2>1, TalkAssumption
         DEF Notify, Goto, Kill, Alive, Peer, Bounded, IInv, TypeOK, Masked, Counted, Placed, OnTheWay,
           Bit, Procs, Lines, Opening, Talking
    <2>2. CASE p = "child"
      BY <1>15, <2>2, TalkAssumption
         DEF Notify, Goto, Kill, Alive, Peer, Bounded, IInv, TypeOK, Masked, Counted, Placed, OnTheWay,
           Bit, Procs, Lines, Opening, Talking
    <2>3. QED
      BY <2>1, <2>2 DEF Procs
  <1>16. ASSUME NEW p \in Procs, Interrupt(p) PROVE Kept
    <2>1. CASE p = "parent"
      BY <1>16, <2>1, TalkAssumption
         DEF Interrupt, Goto, Handler, Alive, Bounded, IInv, TypeOK, Masked, Counted, Placed, OnTheWay,
           Bit, Procs, Lines, Opening, Talking
    <2>2. CASE p = "child"
      BY <1>16, <2>2, TalkAssumption
         DEF Interrupt, Goto, Handler, Alive, Bounded, IInv, TypeOK, Masked, Counted, Placed, OnTheWay,
           Bit, Procs, Lines, Opening, Talking
    <2>3. QED
      BY <2>1, <2>2 DEF Procs
  <1>17. ASSUME UNCHANGED vars PROVE Kept
    BY <1>17 DEF vars, Bounded, IInv, TypeOK, Masked, Counted, Placed, OnTheWay,
           Bit, Procs, Lines, Opening, Talking
  <1>18. Kept
    BY <1>2, <1>3, <1>4, <1>5, <1>6, <1>7, <1>8, <1>9, <1>10, <1>11, <1>12, <1>13, <1>14, <1>15, <1>16, <1>17
       DEF Next, Parent, Child, Over, Procs
  <1>19. QED
    BY <1>1, <1>18 DEF Bounded

\* No handler indexes past its lines while there are two of them for every Ctrl-C, for
\* every length of the conversation.
THEOREM WithinItsLines == Spec => []IndexInBounds
  <1>1. ASSUME Bounded, 2 * ctrlC <= Rounds, NEW p \in Procs, CanHandle(p)
        PROVE  counter[p] < Lines(Speaker(p))
    <2>1. CASE pc[p] = "suspend"
      BY <1>1, <2>1 DEF Bounded, Placed, Speaker, Procs
    <2>2. CASE pc[p] # "suspend"
      <3>1. p = "parent" /\ pc[p] \in Opening /\ pending[p] /\ ~blocked[p]
        BY <1>1, <2>2 DEF Bounded, IInv, TypeOK, Masked, CanHandle, Alive, Procs, Opening, Talking
      <3>2. counter[p] + 1 <= 2 * ctrlC + Bit(pc[p] = "reblock")
        BY <1>1, <3>1 DEF Bounded, IInv, TypeOK, Counted, OnTheWay, Bit, Procs
      <3>3. pc[p] \notin {"fork", "identify", "unblock"}
        BY <1>1, <3>1 DEF Bounded, Masked
      <3> QED
        BY <1>1, <3>1, <3>2, <3>3, TalkAssumption
           DEF Bounded, IInv, TypeOK, Speaker, Lines, Bit, Procs, Opening
    <2> QED
      BY <2>1, <2>2
  <1>2. Bounded => IndexInBounds
    BY <1>1 DEF Bounded, IInv, IndexInBounds
  <1>3. QED
    BY InitBounded, NextBounded, <1>2, PTL DEF Spec
=============================================================================
