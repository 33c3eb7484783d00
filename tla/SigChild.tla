------------------------------ MODULE SigChild ------------------------------
(***************************************************************************)
(* ed-lesson-8/sigchild.c: a parent forks its children in a loop, and a    *)
(* SIGCHLD handler reaps the one child its siginfo names.  SIGCHLD is a    *)
(* single pending bit (with the siginfo of the signal that set it), and it *)
(* is blocked while its handler runs: of the children that end meanwhile   *)
(* only the first is remembered.                                           *)
(***************************************************************************)
EXTENDS Integers, FiniteSets

CONSTANT NChildren                     \* 3 in the code

SigChildAssumption == NChildren \in Nat \ {0}

Children == 1 .. NChildren
Nobody == 0                            \* no child: never a pid the handler waits for

VARIABLES
    child,       \* each child: "unborn", "running", "zombie" or "reaped"
    i,           \* how many children the parent's loop has forked
    parent,      \* the parent's pc: "fork", "pause" or, when fork fails, "exit"
    handler,     \* the child the running handler's siginfo names, or Nobody
    pending,     \* the child the pending SIGCHLD's siginfo names, or Nobody
    merged       \* history: children that ended while a SIGCHLD was pending

vars == <<child, i, parent, handler, pending, merged>>

Init ==
    /\ child = [c \in Children |-> "unborn"]
    /\ i = 0
    /\ parent = "fork"
    /\ handler = Nobody
    /\ pending = Nobody
    /\ merged = {}

Ended(c) == child[c] \in {"zombie", "reaped"}

----------------------------------------------------------------------------
\* Variants of the actions below, each with one plausible slip.

\* The handler reaps with waitpid(-1): whichever child has ended, not the one named.
ReapAny ==
    /\ handler # Nobody
    /\ \E c \in Children :
          /\ child[c] = "zombie"
          /\ child' = [child EXCEPT ![c] = "reaped"]
    /\ handler' = Nobody
    /\ UNCHANGED <<i, parent, pending, merged>>

\* The handler prints, and forgets to reap.
ReapForgotten ==
    /\ handler # Nobody
    /\ handler' = Nobody
    /\ UNCHANGED <<child, i, parent, pending, merged>>

\* SIGCHLD reported for children that only stop, too (no SA_NOCLDSTOP).
StopReported(c) ==
    /\ child[c] = "running"
    /\ pending = Nobody
    /\ pending' = c
    /\ UNCHANGED <<child, i, parent, handler, merged>>

EndOrStop(c) ==
    \/ StopReported(c)
    \/ /\ child[c] = "running"
       /\ child' = [child EXCEPT ![c] = "zombie"]
       /\ pending' = IF pending = Nobody THEN c ELSE pending
       /\ merged' = IF pending = Nobody THEN merged ELSE merged \cup {c}
       /\ UNCHANGED <<i, parent, handler>>

----------------------------------------------------------------------------
\* The parent: it runs only while the handler does not.

Fork ==
    /\ parent = "fork"
    /\ handler = Nobody
    /\ IF i < NChildren
       THEN /\ child' = [child EXCEPT ![i + 1] = "running"]
            /\ i' = i + 1
            /\ parent' = parent
       ELSE child' = child /\ i' = i /\ parent' = "pause"
    /\ UNCHANGED <<handler, pending, merged>>

\* fork fails: the parent exits, whatever it has already started.
ForkFails ==
    /\ parent = "fork"
    /\ handler = Nobody
    /\ i < NChildren
    /\ parent' = "exit"
    /\ UNCHANGED <<child, i, handler, pending, merged>>

\* SIGCHLD is delivered between two instructions of the parent, or out of pause().
Deliver ==
    /\ parent # "exit"
    /\ handler = Nobody
    /\ pending # Nobody
    /\ handler' = pending
    /\ pending' = Nobody
    /\ UNCHANGED <<child, i, parent, merged>>

\* handler(): prints, then waitpid(info->si_pid, NULL, 0).  The wait would block for a
\* child that has not ended.
Reap ==
    /\ handler # Nobody
    /\ Ended(handler)
    /\ child' = [child EXCEPT ![handler] = "reaped"]
    /\ handler' = Nobody
    /\ UNCHANGED <<i, parent, pending, merged>>

\* A child sleeps, then aborts or exits; the kernel raises SIGCHLD, and drops it when
\* one is already pending.
End(c) ==
    /\ child[c] = "running"
    /\ child' = [child EXCEPT ![c] = "zombie"]
    /\ pending' = IF pending = Nobody THEN c ELSE pending
    /\ merged' = IF pending = Nobody THEN merged ELSE merged \cup {c}
    /\ UNCHANGED <<i, parent, handler>>

----------------------------------------------------------------------------
Parent == Fork \/ Deliver \/ Reap

\* pause() for ever, with nothing left to signal it; or the parent is gone.
Idle ==
    /\ \/ parent = "exit"
       \/ /\ parent = "pause" /\ handler = Nobody /\ pending = Nobody
          /\ \A c \in Children : child[c] # "running"
    /\ UNCHANGED vars

Next == Parent \/ ForkFails \/ (\E c \in Children : End(c)) \/ Idle

Spec == Init /\ [][Next]_vars

\* The parent is scheduled, a deliverable signal is delivered, every child's sleep ends.
FairSpec == Spec /\ WF_vars(Parent) /\ \A c \in Children : WF_vars(End(c))

----------------------------------------------------------------------------

\* Every variable stays in its range.
TypeOK ==
    /\ child \in [Children -> {"unborn", "running", "zombie", "reaped"}]
    /\ i \in 0 .. NChildren
    /\ parent \in {"fork", "pause", "exit"}
    /\ handler \in Children \cup {Nobody}
    /\ pending \in Children \cup {Nobody}
    /\ merged \subseteq Children

\* The handler's waitpid has no WNOHANG.  It never blocks, and never meets a child
\* already reaped: the child it names, and the one the pending signal names, are
\* zombies, two different ones, and neither is among the forgotten.
NamesAZombie ==
    /\ TypeOK
    /\ handler # Nobody => child[handler] = "zombie" /\ handler \notin merged
    /\ pending # Nobody => child[pending] = "zombie" /\ pending \notin merged
    /\ handler # Nobody => handler # pending

\* Exact account of the ended children: each is reaped, about to be (named by the
\* handler or by the pending signal), or was merged into another's signal.
Accounted ==
    {c \in Children : child[c] = "zombie"} = merged \cup ({handler, pending} \ {Nobody})

\* A child whose signal was merged away is never reaped: nothing in this program
\* looks for it again.
MergedStayZombies ==
    [][\A c \in merged : child'[c] = "zombie"]_vars

\* Every child whose signal was not merged is reaped, if the parent lives.
ReapedUnlessMerged ==
    [](parent # "exit") =>
        <>[](\A c \in Children : child[c] = "reaped" \/ c \in merged)
============================================================================
