------------------------------- MODULE KillMe -------------------------------
(***************************************************************************)
(* ed-lesson-6/kill_me.c: a program that ends when Ctrl-C, Ctrl-Z and      *)
(* Ctrl-\ come in this order.  One handler serves the three signals, and   *)
(* sigaction was given an empty mask: while it runs for one signal, either *)
(* of the other two can interrupt it, between any two of its reads and     *)
(* writes of step.                                                         *)
(***************************************************************************)
EXTENDS Integers, Sequences, FiniteSets

Signals == {"INT", "TSTP", "QUIT"}
SIGNALS == <<"INT", "TSTP", "QUIT">>

\* enum steps, from 1 as the sequences are
First == 1
Third == 3

VARIABLES
    step,
    frames,             \* the handlers under way, the running one last
    pending,            \* signals held back while their own handler runs
    said,               \* the message written last: 0 (aborted) or the stage
    exited,
    nested,             \* whether a handler was ever interrupted
    recent              \* while none was: the last six signals, to state the properties

vars == <<step, frames, pending, said, exited, nested, recent>>

Init ==
    /\ step = First
    /\ frames = <<>> /\ pending = {}
    /\ said = 0 /\ exited = FALSE
    /\ nested = FALSE /\ recent = <<>>

\* One handler: its signal, where it stands, the case it took, whether the signal fits.
Frame(s) == [sig |-> s, pc |-> "switch", case |-> First, fits |-> FALSE]

Blocked == {frames[i].sig : i \in DOMAIN frames}
Top == frames[Len(frames)]
SetTop(f) == [frames EXCEPT ![Len(frames)] = f]
Pop == SubSeq(frames, 1, Len(frames) - 1)
Remember(s) == LET all == Append(recent, s) IN IF Len(all) > 6 THEN Tail(all) ELSE all

At(pc) == ~exited /\ frames # <<>> /\ Top.pc = pc

----------------------------------------------------------------------------
\* Variants of the definitions below, each with one plausible slip.

\* No break after the first case: the second aborts what it began.
AssignFallsThrough ==
    /\ At("assign")
    /\ step' = IF Top.fits /\ Top.case > First /\ Top.case < Third THEN Top.case + 1 ELSE First
    /\ exited' = (Top.fits /\ Top.case = Third)
    /\ frames' = Pop
    /\ UNCHANGED <<pending, said, nested, recent>>

----------------------------------------------------------------------------
\* The user presses a key: the handler starts on top of what runs, unless it is the
\* handler of this very signal.
Deliver(s) ==
    /\ frames' = Append(frames, Frame(s))
    /\ nested' = (nested \/ frames # <<>>)
    /\ recent' = IF nested \/ frames # <<>> THEN <<>> ELSE Remember(s)

Arrive(s) ==
    /\ ~exited
    /\ IF s \in Blocked
       THEN pending' = pending \cup {s} /\ UNCHANGED <<frames, nested, recent>>
       ELSE Deliver(s) /\ UNCHANGED pending
    /\ UNCHANGED <<step, said, exited>>

\* A signal held back is delivered once its handler has returned.
DeliverPending(s) ==
    /\ ~exited /\ s \in pending \ Blocked
    /\ pending' = pending \ {s}
    /\ Deliver(s)
    /\ UNCHANGED <<step, said, exited>>

\* switch (step): the first read.
Switch ==
    /\ At("switch")
    /\ frames' = SetTop([Top EXCEPT !.case = step, !.pc = "compare"])
    /\ UNCHANGED <<step, pending, said, exited, nested, recent>>

\* signo == SIGNALS[step]: the second read, of a volatile.
Compare ==
    /\ At("compare")
    /\ frames' = SetTop([Top EXCEPT !.fits = (Top.sig = SIGNALS[step]), !.pc = "write"])
    /\ UNCHANGED <<step, pending, said, exited, nested, recent>>

\* write: the stage's message, or the wrong one.
Say ==
    /\ At("write")
    /\ said' = IF Top.fits THEN Top.case ELSE 0
    /\ frames' = SetTop([Top EXCEPT !.pc = "assign"])
    /\ UNCHANGED <<step, pending, exited, nested, recent>>

\* step = ..., or _exit(0); and the return from the handler.
Assign ==
    /\ At("assign")
    /\ step' = IF ~Top.fits THEN First ELSE IF Top.case = Third THEN step ELSE Top.case + 1
    /\ exited' = (Top.fits /\ Top.case = Third)
    /\ frames' = Pop
    /\ UNCHANGED <<pending, said, nested, recent>>

Handler == Switch \/ Compare \/ Say \/ Assign

Next ==
    \/ \E s \in Signals : Arrive(s) \/ DeliverPending(s)
    \/ Handler

Spec == Init /\ [][Next]_vars

----------------------------------------------------------------------------
\* Every variable stays in its range; at most three handlers are under way.
TypeOK ==
    /\ step \in First..Third
    /\ Len(frames) <= 3
    /\ \A i \in DOMAIN frames : frames[i] \in
          [sig : Signals, pc : {"switch", "compare", "write", "assign"},
           case : First..Third, fits : BOOLEAN]
    /\ pending \subseteq Signals
    /\ said \in 0..Third
    /\ exited \in BOOLEAN /\ nested \in BOOLEAN
    /\ recent \in Seq(Signals) /\ Len(recent) <= 6

LastSix(s) == Len(recent) = 6 /\ recent = s \o s
LastThree(s) == Len(recent) >= 3 /\ SubSeq(recent, Len(recent) - 2, Len(recent)) = s

\* As long as no handler is interrupted, the program ends only when the last three
\* signals were the sequence; and whatever came before, the sequence pressed twice ends it
\* (a wrong signal starts over, and is not itself taken for a first).
SequenceEnds ==
    /\ TypeOK
    /\ exited /\ ~nested => LastThree(SIGNALS)
    /\ ~nested /\ frames = <<>> /\ LastSix(SIGNALS) => exited
============================================================================
