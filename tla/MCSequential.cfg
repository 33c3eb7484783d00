\* Two customers of two lines; a terminal read in pieces of two bytes, with lines of up to
\* three pieces; files of up to three lines and a bit.
SPECIFICATION SeqFairSpec
CONSTANTS
    Goods = {"bread", "milk"}
    MaxCustomers = 2
    MaxLines = 2
    Letters = {"a", "x"}
    CliBuf = 2
    MaxTyped = 5
    MaxShells = 2
    FileLines <- DelegatorLines
    MaxInstructions = 3
INVARIANTS ReportComplete ArgsAreWords Delegated
PROPERTIES PromptsOn
\* The end of the day, of the file or of the shell ends the program.
CHECK_DEADLOCK FALSE
