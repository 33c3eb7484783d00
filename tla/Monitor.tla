------------------------------ MODULE Monitor ------------------------------
(***************************************************************************)
(* ed-lesson-9/monitor.c: the parent gives each child a pipe, waits with   *)
(* epoll for what they say, and answers every read with SIGUSR1, which is  *)
(* to release the child from its pause() loop.  The pipes are registered   *)
(* level-triggered, and a child's exit closes the one write end of its     *)
(* pipe, so a child that has gone is reported again and again.             *)
(***************************************************************************)
EXTENDS Integers, FiniteSets, SequencesExt

CONSTANT NChildren                      \* N_CHILDREN

ASSUME MonitorAssumption == NChildren \in Nat \ {0}

Children == 1 .. NChildren

VARIABLES
    parent,       \* the parent's pc
    i,            \* its loop index while forking and while reaping
    events,       \* what the last epoll_wait filled in: the ready children, in slots
    j,            \* the slot being handled
    notified,     \* the array `notified`, indexed by slot
    child,        \* each child's pc
    got,          \* each child's got_sigusr1
    pending,      \* its pending SIGUSR1
    inPipe        \* is its message in the pipe, unread

vars == <<parent, i, events, j, notified, child, got, pending, inPipe>>

parentVars == <<parent, i, events, j, notified>>
childVars == <<child, got, pending, inPipe>>

Init ==
    /\ parent = "fork"
    /\ i = 1
    /\ events = <<>>
    /\ j = 1
    /\ notified = [s \in 1 .. NChildren |-> FALSE]
    /\ child = [c \in Children |-> "unborn"]
    /\ got = [c \in Children |-> FALSE]
    /\ pending = [c \in Children |-> FALSE]
    /\ inPipe = [c \in Children |-> FALSE]

At(c, label) == child[c] = label
Goto(c, label) == child' = [child EXCEPT ![c] = label]

Gone(c) == child[c] \in {"exited", "killed"}

\* What epoll reports: a message to read, or the hang-up of a pipe nobody can write.
Ready(c) == inPipe[c] \/ Gone(c)
ReadySet == {c \in Children : Ready(c)}

\* The parent has read the child's message.
Heard(c) == child[c] \notin {"unborn", "install", "say"} /\ ~inPipe[c]

----------------------------------------------------------------------------
\* Variants of the actions below, each with one plausible slip.

\* The child says hello while its handler is not installed yet.
SayEarly(c) ==
    /\ At(c, "install")
    /\ inPipe' = [inPipe EXCEPT ![c] = TRUE]
    /\ UNCHANGED <<parentVars, child, got, pending>>

\* The loop asks whether the first slot, not every slot, was ever filled.
LoopTestAny ==
    /\ parent = "test"
    /\ parent' = IF notified[1] THEN "reap" ELSE "wait"
    /\ i' = 1
    /\ UNCHANGED <<childVars, events, j, notified>>

\* epoll is not asked about hang-ups.
EpollIgnoresHangUp ==
    /\ parent = "wait"
    /\ {c \in Children : inPipe[c]} # {}
    /\ events' \in SetToSeqs({c \in Children : inPipe[c]})
    /\ j' = 1
    /\ parent' = "read"
    /\ UNCHANGED <<childVars, i, notified>>

----------------------------------------------------------------------------
\* The parent: pipe and fork each child, then set up epoll.

Fork ==
    /\ parent = "fork"
    /\ i <= NChildren
    /\ child' = [child EXCEPT ![i] = "install"]
    /\ i' = i + 1
    /\ UNCHANGED <<parent, events, j, notified, got, pending, inPipe>>

SetUp ==
    /\ parent = "fork"
    /\ i = NChildren + 1
    /\ parent' = "wait"
    /\ UNCHANGED <<childVars, i, events, j, notified>>

\* pipe, fork or epoll_create1 fails: exit(1), and the children are on their own.
SetUpFails ==
    /\ parent = "fork"
    /\ parent' = "failed"
    /\ UNCHANGED <<childVars, i, events, j, notified>>

----------------------------------------------------------------------------
\* The epoll loop.

\* epoll_wait blocks until something is ready and fills the slots in any order.
EpollWait ==
    /\ parent = "wait"
    /\ ReadySet # {}
    /\ events' \in SetToSeqs(ReadySet)
    /\ j' = 1
    /\ parent' = "read"
    /\ UNCHANGED <<childVars, i, notified>>

\* read(): takes the message, or returns 0 at end of file.  It would block on an empty
\* pipe whose child lives.
Read ==
    /\ parent = "read"
    /\ Ready(events[j])
    /\ inPipe' = [inPipe EXCEPT ![events[j]] = FALSE]
    /\ parent' = "signal"
    /\ UNCHANGED <<i, events, j, notified, child, got, pending>>

\* kill(): sets the pending bit of a live child; a zombie takes no notice.  The slot,
\* not the child, is marked.
Signal ==
    /\ parent = "signal"
    /\ pending' = [pending EXCEPT ![events[j]] = ~Gone(events[j])]
    /\ notified' = [notified EXCEPT ![j] = TRUE]
    /\ parent' = IF j < Len(events) THEN "read" ELSE "test"
    /\ j' = j + 1
    /\ UNCHANGED <<i, events, child, got, inPipe>>

LoopTest ==
    /\ parent = "test"
    /\ parent' = IF \A s \in 1 .. NChildren : notified[s] THEN "reap" ELSE "wait"
    /\ i' = 1
    /\ UNCHANGED <<childVars, events, j, notified>>

\* waitpid for each child in turn, then return.
Reap ==
    /\ parent = "reap"
    /\ Gone(i)
    /\ i' = i + 1
    /\ parent' = IF i < NChildren THEN "reap" ELSE "done"
    /\ UNCHANGED <<childVars, events, j, notified>>

----------------------------------------------------------------------------
\* A child.

Install(c) ==
    /\ At(c, "install")
    /\ Goto(c, "say")
    /\ UNCHANGED <<parentVars, got, pending, inPipe>>

Say(c) ==
    /\ At(c, "say")
    /\ inPipe' = [inPipe EXCEPT ![c] = TRUE]
    /\ Goto(c, "check")
    /\ UNCHANGED <<parentVars, got, pending>>

\* `while (!got_sigusr1)` ...
Check(c) ==
    /\ At(c, "check")
    /\ Goto(c, IF got[c] THEN "exited" ELSE "toPause")
    /\ UNCHANGED <<parentVars, got, pending, inPipe>>

\* ... `pause()`: the test is over, and the sleep begins.
Pause(c) ==
    /\ At(c, "toPause")
    /\ Goto(c, "paused")
    /\ UNCHANGED <<parentVars, got, pending, inPipe>>

\* The signal reaches the child: its default action before the handler is installed;
\* afterwards the handler sets the flag, and ends a pause() that has begun.
Deliver(c) ==
    /\ pending[c]
    /\ ~Gone(c) /\ ~At(c, "unborn")
    /\ pending' = [pending EXCEPT ![c] = FALSE]
    /\ IF At(c, "install")
       THEN Goto(c, "killed") /\ got' = got
       ELSE /\ got' = [got EXCEPT ![c] = TRUE]
            /\ Goto(c, IF At(c, "paused") THEN "check" ELSE child[c])
    /\ UNCHANGED <<parentVars, inPipe>>

----------------------------------------------------------------------------
Child(c) == Install(c) \/ Say(c) \/ Check(c) \/ Pause(c) \/ Deliver(c)
Parent == Fork \/ SetUp \/ EpollWait \/ Read \/ Signal \/ LoopTest \/ Reap

\* A signal came between a child's test and its pause(): it sleeps with the flag set,
\* and no signal is on its way.
Overslept(c) == At(c, "paused") /\ got[c] /\ ~pending[c]

\* Where the program may rest: it is over, or the parent waits for such a child (in
\* epoll_wait, when all of them sleep).
Over ==
    /\ \/ parent \in {"done", "failed"}
       \/ parent = "reap" /\ Overslept(i)
       \/ parent = "wait" /\ \A c \in Children : Overslept(c)
    /\ UNCHANGED vars

Next == Parent \/ SetUpFails \/ (\E c \in Children : Child(c)) \/ Over

Spec == Init /\ [][Next]_vars

\* Parent and children are scheduled; signals are delivered.
FairSpec == Spec /\ WF_vars(Parent) /\ \A c \in Children : WF_vars(Child(c))

----------------------------------------------------------------------------

\* Every variable stays in its range.
TypeOK ==
    /\ parent \in {"fork", "wait", "read", "signal", "test", "reap", "done", "failed"}
    /\ i \in 1 .. NChildren + 1
    /\ events \in Seq(Children) /\ Len(events) <= NChildren
    /\ j \in 1 .. NChildren + 1
    /\ notified \in [1 .. NChildren -> BOOLEAN]
    /\ child \in [Children -> {"unborn", "install", "say", "check", "toPause", "paused",
                               "exited", "killed"}]
    /\ got \in [Children -> BOOLEAN]
    /\ pending \in [Children -> BOOLEAN]
    /\ inPipe \in [Children -> BOOLEAN]

\* The hello doubles as "my handler is installed": no SIGUSR1 ever meets a child that
\* would die of it.  And a live child "is signalled exactly once" (line 80), although one
\* that has gone is reported, and signalled, in every later round.
SignalledSafely ==
    /\ TypeOK
    /\ \A c \in Children :
          /\ ~At(c, "killed")
          /\ At(c, "install") => ~pending[c]
          /\ pending[c] => ~got[c]

\* A child leaves only after the parent has taken its message, so nothing said is lost.
\* And although the array `notified` is indexed by epoll's slots and says nothing about a
\* particular child, the loop cannot end before every child was heard and signalled.
EndsInformed ==
    /\ \A c \in Children : got[c] \/ Gone(c) => Heard(c)
    /\ parent \in {"reap", "done"} => \A c \in Children : Heard(c) /\ (pending[c] \/ got[c])

\* If no child oversleeps, and set-up succeeds, the program ends.
EndsUnlessOverslept ==
    [](parent # "failed" /\ \A c \in Children : ~Overslept(c)) => <>(parent = "done")
============================================================================
