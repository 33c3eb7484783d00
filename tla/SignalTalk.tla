----------------------------- MODULE SignalTalk -----------------------------
(***************************************************************************)
(* ed-lesson-8/child-parent.c: a parent and its child hold a conversation  *)
(* in which SIGINT is the only message.  Each keeps SIGINT blocked except  *)
(* inside sigsuspend, says its next line in the signal handler, and sends  *)
(* SIGINT back.  A pending signal is one bit: a second one sent before the *)
(* first is handled is lost.                                               *)
(***************************************************************************)
EXTENDS Integers, Sequences

CONSTANTS
    Rounds,       \* lines the child says: child_messages has Rounds entries and
                  \* parent_messages has Rounds + 1 (2 and 3 in the code)
    MaxCtrlC      \* bound: how often the user's Ctrl-C reaches both processes

ASSUME TalkAssumption ==
    /\ Rounds \in Nat \ {0}
    /\ MaxCtrlC \in Nat

Procs == {"parent", "child"}
Peer(p) == IF p = "parent" THEN "child" ELSE "parent"

\* The entries of the array a speaker's lines come from.
Lines(speaker) == IF speaker = "parent" THEN Rounds + 1 ELSE Rounds

VARIABLES
    pc,           \* each process's program counter
    blocked,      \* is SIGINT in its signal mask
    pending,      \* its SIGINT pending bit
    counter,      \* its copy of stop_counter
    loaded,       \* the value line 90's counter++ has read and not yet stored
    log,          \* history: the lines on stdout, as <<speaker, index>>
    ctrlC         \* how many Ctrl-C so far

vars == <<pc, blocked, pending, counter, loaded, log, ctrlC>>

\* One process, its handler installed (line 46) and nothing blocked yet.
Init ==
    /\ pc = [parent |-> "block", child |-> "unborn"]
    /\ blocked = [p \in Procs |-> FALSE]
    /\ pending = [p \in Procs |-> FALSE]
    /\ counter = [p \in Procs |-> 0]
    /\ loaded = 0
    /\ log = <<>>
    /\ ctrlC = 0

Goto(p, label) == pc' = [pc EXCEPT ![p] = label]
Alive(p) == pc[p] \notin {"unborn", "exit"}

\* Whose lines the handler says: the global `parent` is 0 until line 83.
Speaker(p) ==
    IF p = "parent" /\ pc[p] \notin {"block", "fork", "identify"} THEN "parent" ELSE "child"

\* kill(pid, SIGINT): sets the bit of a live process (a zombie ignores it).
Kill(p) == pending' = [pending EXCEPT ![p] = @ \/ Alive(p)]

----------------------------------------------------------------------------
\* Variants of the actions below, each with one plausible slip.  The first is
\* the bug the comment at lines 120-123 tells of.

\* The child unblocks SIGINT as soon as it knows who it is.
ChildIdentifyUnblocks ==
    /\ pc["child"] = "identify"
    /\ Goto("child", "loop")
    /\ blocked' = [blocked EXCEPT !["child"] = FALSE]
    /\ UNCHANGED <<pending, counter, loaded, log, ctrlC>>

\* The handler says its line and does not count it.
HandlerUncounted(p) ==
    /\ log' = Append(log, <<Speaker(p), counter[p]>>)
    /\ counter' = counter
    /\ pending' = [pending EXCEPT ![p] = FALSE]

\* The loop bound of the child is off by one.
LoopTestLate(p) ==
    /\ pc[p] = "loop"
    /\ Goto(p, IF counter[p] <= Lines(p) THEN "suspend"
               ELSE IF p = "parent" THEN "wait" ELSE "exit")
    /\ UNCHANGED <<blocked, pending, counter, loaded, log, ctrlC>>

\* sig_handler: one line of the array at stop_counter, then stop_counter++.
Handler(p) ==
    /\ log' = Append(log, <<Speaker(p), counter[p]>>)
    /\ counter' = [counter EXCEPT ![p] = @ + 1]
    /\ pending' = [pending EXCEPT ![p] = FALSE]

----------------------------------------------------------------------------
\* Before the fork, and the parent up to its loop.

BlockFirst ==
    /\ pc["parent"] = "block"
    /\ Goto("parent", "fork")
    /\ blocked' = [blocked EXCEPT !["parent"] = TRUE]
    /\ UNCHANGED <<pending, counter, loaded, log, ctrlC>>

\* The child inherits the mask and the globals, and no pending signal.
Fork ==
    /\ pc["parent"] = "fork"
    /\ pc' = [p \in Procs |-> "identify"]
    /\ blocked' = [blocked EXCEPT !["child"] = blocked["parent"]]
    /\ counter' = [counter EXCEPT !["child"] = counter["parent"]]
    /\ UNCHANGED <<pending, loaded, log, ctrlC>>

ParentIdentify ==
    /\ pc["parent"] = "identify"
    /\ Goto("parent", "unblock")
    /\ UNCHANGED <<blocked, pending, counter, loaded, log, ctrlC>>

Unblock ==
    /\ pc["parent"] = "unblock"
    /\ Goto("parent", "greet")
    /\ blocked' = [blocked EXCEPT !["parent"] = FALSE]
    /\ UNCHANGED <<pending, counter, loaded, log, ctrlC>>

Greet ==
    /\ pc["parent"] = "greet"
    /\ log' = Append(log, <<"parent", 0>>)
    /\ Goto("parent", "load")
    /\ UNCHANGED <<blocked, pending, counter, loaded, ctrlC>>

\* Line 90, stop_counter++: sig_atomic_t makes the load and the store atomic, not
\* the two together.
CountLoad ==
    /\ pc["parent"] = "load"
    /\ loaded' = counter["parent"]
    /\ Goto("parent", "store")
    /\ UNCHANGED <<blocked, pending, counter, log, ctrlC>>

CountStore ==
    /\ pc["parent"] = "store"
    /\ counter' = [counter EXCEPT !["parent"] = loaded + 1]
    /\ Goto("parent", "reblock")
    /\ UNCHANGED <<blocked, pending, loaded, log, ctrlC>>

Reblock ==
    /\ pc["parent"] = "reblock"
    /\ Goto("parent", "notify")
    /\ blocked' = [blocked EXCEPT !["parent"] = TRUE]
    /\ UNCHANGED <<pending, counter, loaded, log, ctrlC>>

----------------------------------------------------------------------------
\* The child's start, and the loop both run.

ChildIdentify ==
    /\ pc["child"] = "identify"
    /\ Goto("child", "loop")
    /\ UNCHANGED <<blocked, pending, counter, loaded, log, ctrlC>>

LoopTest(p) ==
    /\ pc[p] = "loop"
    /\ Goto(p, IF counter[p] <= Lines(p) - 1 THEN "suspend"
               ELSE IF p = "parent" THEN "wait" ELSE "exit")
    /\ UNCHANGED <<blocked, pending, counter, loaded, log, ctrlC>>

\* sigsuspend: waits with an empty mask; the handler runs, and the old mask is back
\* when it returns.
Suspend(p) ==
    /\ pc[p] = "suspend"
    /\ pending[p]
    /\ Handler(p)
    /\ Goto(p, "notify")
    /\ UNCHANGED <<blocked, loaded, ctrlC>>

\* Lines 102, 107 and 128: kill(ppid_to_notify, SIGINT).
Notify(p) ==
    /\ pc[p] = "notify"
    /\ Kill(Peer(p))
    /\ Goto(p, "loop")
    /\ UNCHANGED <<blocked, counter, loaded, log, ctrlC>>

ParentWait ==
    /\ pc["parent"] = "wait"
    /\ pc["child"] = "exit"
    /\ Goto("parent", "exit")
    /\ UNCHANGED <<blocked, pending, counter, loaded, log, ctrlC>>

----------------------------------------------------------------------------
\* A signal that is pending and not blocked interrupts the process where it is.
Interrupt(p) ==
    /\ pending[p] /\ ~blocked[p]
    /\ Alive(p) /\ pc[p] # "suspend"
    /\ Handler(p)
    /\ UNCHANGED <<pc, blocked, loaded, ctrlC>>

\* The terminal sends SIGINT to the whole foreground process group.
CtrlC ==
    /\ ctrlC < MaxCtrlC
    /\ ctrlC' = ctrlC + 1
    /\ pending' = [p \in Procs |-> pending[p] \/ Alive(p)]
    /\ UNCHANGED <<pc, blocked, counter, loaded, log>>

Parent ==
    \/ BlockFirst \/ Fork \/ ParentIdentify \/ Unblock \/ Greet
    \/ CountLoad \/ CountStore \/ Reblock \/ ParentWait
    \/ LoopTest("parent") \/ Suspend("parent") \/ Notify("parent") \/ Interrupt("parent")

Child ==
    \/ ChildIdentify
    \/ LoopTest("child") \/ Suspend("child") \/ Notify("child") \/ Interrupt("child")

Over == pc["parent"] = "exit" /\ UNCHANGED vars

Next == Parent \/ Child \/ CtrlC \/ Over

Spec == Init /\ [][Next]_vars

\* Both processes are scheduled, and a deliverable signal is delivered.
FairSpec == Spec /\ WF_vars(Parent) /\ WF_vars(Child)

----------------------------------------------------------------------------

\* Every variable stays in its range.
TypeOK ==
    /\ pc \in [Procs -> {"unborn", "block", "fork", "identify", "unblock", "greet", "load",
                         "store", "reblock", "notify", "loop", "suspend", "wait", "exit"}]
    /\ blocked \in [Procs -> BOOLEAN]
    /\ pending \in [Procs -> BOOLEAN]
    /\ counter \in [Procs -> Nat]
    /\ ctrlC = 0 => \A p \in Procs : counter[p] <= Lines(p)
    /\ loaded \in Nat
    /\ log \in Seq(Procs \X Nat)
    /\ ctrlC \in 0 .. MaxCtrlC

CanHandle(p) == Alive(p) /\ pending[p] /\ (pc[p] = "suspend" \/ ~blocked[p])

\* When the handler can run, stop_counter indexes a line that exists (lines 28-32), as long
\* as there are two lines for every Ctrl-C: one can make a process count twice.
IndexInBounds ==
    /\ TypeOK
    /\ 2 * ctrlC <= Rounds => \A p \in Procs : CanHandle(p) => counter[p] < Lines(Speaker(p))

\* Unless the user interferes, the conversation on stdout is the one the arrays spell:
\* lines alternate, start with the parent's first, and none is skipped, repeated or out
\* of turn.
Line(i) == <<IF i % 2 = 1 THEN "parent" ELSE "child", (i - 1) \div 2>>

Dialogue == ctrlC = 0 => \A i \in 1 .. Len(log) : log[i] = Line(i)

\* Both processes end, with every line said, unless the user interferes.
Completed == <>(ctrlC > 0 \/ (pc["parent"] = "exit" /\ Len(log) = 2 * Rounds + 1))
============================================================================
