---------------------------- MODULE MCSequential ----------------------------
(***************************************************************************)
(* The programs of one thread that read lines: the till, the simulated     *)
(* shell and the delegator.  One of them is chosen at the start and runs   *)
(* alone.                                                                  *)
(***************************************************************************)
EXTENDS Ordered, SequencesExt

CONSTANTS
    Goods, MaxCustomers, MaxLines,
    Letters, CliBuf, MaxTyped, MaxShells,
    FileLines, MaxInstructions

\* Three words, with and without the last result; a name that is none; one, two, no words.
DelegatorLines ==
    {<<"ADD", "1", "2">>, <<"SUB", "1", "%">>, <<"MUL", "%", "2">>, <<"DIV", "%", "2">>,
     <<"DIV", "2", "%">>, <<"NOP", "2", "1">>, <<"SUB", "%">>, <<"ADD">>, <<>>}

VARIABLES
    program,
    at, line, purchase, number, customers, report, log,
    pc, tty, typing, buf, text, argv, shells, typed,
    file, index, loop, begin, words, value, state, lines

Market == INSTANCE Market
Bash == INSTANCE BashSimulator
Delegator == INSTANCE TinyDelegator WITH Lines <- FileLines, i <- loop, prev <- begin

till == <<at, line, purchase, number, customers, report, log>>
shell == <<pc, tty, typing, buf, text, argv, shells, typed>>
delegator == <<file, index, loop, begin, words, value, state, lines>>

SeqInit ==
    /\ program \in {"till", "shell", "delegator"}
    /\ Market!Init /\ Bash!Init /\ Delegator!Init

\* A step of one program leaves the others' variables alone.
AtTill(A) == program = "till" /\ A /\ UNCHANGED <<program, shell, delegator>>
InShell(A) == program = "shell" /\ A /\ UNCHANGED <<program, till, delegator>>
Delegate(A) == program = "delegator" /\ A /\ UNCHANGED <<program, till, shell>>

SeqNext ==
    \/ AtTill(Market!Next)
    \/ InShell(Bash!Next)
    \/ Delegate(Delegator!Next)

seqVars == <<program, till, shell, delegator>>

SeqSpec == SeqInit /\ [][SeqNext]_seqVars

\* The till goes on with the line it has; nothing is assumed of users.
SeqFairSpec == SeqSpec /\ WF_seqVars(AtTill(Market!Till))

\* What the theorems assume of the constants.
ASSUME MCSequentialAssumption ==
    Market!MarketAssumption /\ Bash!BashAssumption /\ Delegator!DelegatorAssumption

ReportComplete == Market!ReportComplete
PromptsOn == Market!PromptsOn
ArgsAreWords == Bash!ArgsAreWords
Delegated == Delegator!Delegated
============================================================================
