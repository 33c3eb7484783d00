---------------------------- MODULE MCProcesses ----------------------------
(***************************************************************************)
(* The programs of several processes or handlers that are small enough to  *)
(* share a run: the toll, the game, the traders and kill_me.  One of them  *)
(* is chosen at the start and runs alone.                                  *)
(***************************************************************************)
EXTENDS Traders

CONSTANTS Lanes, MsgLen, BufSize, PipeCap, MaxCars, l1, l2
TwoLanes == {l1, l2}

VARIABLES
    program,
    at, bytes, selection, selection_2, verdict,
    sent, pipe, buf, len, logged, events, cut, overrun,
    step, frames, pending, said, exited, nested, recent

Rps == INSTANCE RockPaperScissors
EToll == INSTANCE EToll
KillMe == INSTANCE KillMe

game == <<at, bytes, selection, selection_2, verdict>>
toll == <<sent, pipe, buf, len, logged, events, cut, overrun>>
kill_me == <<step, frames, pending, said, exited, nested, recent>>
Programs == {"toll", "game", "traders", "kill_me"}

ProcInit ==
    /\ program \in Programs
    /\ Init /\ Rps!Init /\ EToll!Init /\ KillMe!Init

\* A step of one program leaves the others' variables alone.
Toll(A) == program = "toll" /\ A /\ UNCHANGED <<program, vars, game, kill_me>>
Game(A) == program = "game" /\ A /\ UNCHANGED <<program, vars, toll, kill_me>>
Trade(A) == program = "traders" /\ A /\ UNCHANGED <<program, toll, game, kill_me>>
Kill(A) == program = "kill_me" /\ A /\ UNCHANGED <<program, vars, toll, game>>

ProcNext == Toll(EToll!Next) \/ Game(Rps!Next) \/ Trade(Next) \/ Kill(KillMe!Next)

allvars == <<program, vars, toll, game, kill_me>>

\* Every process is scheduled; nothing is assumed of cars or keys.
ProcSpec ==
    /\ ProcInit /\ [][ProcNext]_allvars
    /\ WF_allvars(Toll(EToll!Booth))
    /\ WF_allvars(Game(Rps!Parent)) /\ WF_allvars(Game(Rps!Child))
    /\ WF_allvars(Trade(Updater)) /\ WF_allvars(Trade(Publisher))

ASSUME MCProcessesAssumption == EToll!ETollAssumption

----------------------------------------------------------------------------
ExactUnlessCut == EToll!ExactUnlessCut
LoggedUnlessCut == EToll!LoggedUnlessCut
FairGame == Rps!FairGame
SequenceEnds == KillMe!SequenceEnds

\* Both players choose and judge for ever, if there are two: no read waits for a record that
\* was already taken.  And every price is printed in the end, the late ones too: the updater
\* sets the flag again.
GoesOn ==
    /\ \A p \in Rps!Players :
          /\ at["child"] \in {"online", "play"} ~> at[p] = "answer"
          /\ at[p] = "answer" ~> at[p] = "play"
    /\ \A s \in Stocks : s \in unprinted ~> s \notin unprinted
============================================================================
