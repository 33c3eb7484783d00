------------------------------ MODULE Traders ------------------------------
(***************************************************************************)
(* ed-lesson-9/traders.c: a child stores prices into shared memory and     *)
(* sets `updated`; the parent polls the flag, prints every stock and       *)
(* clears it.  Nothing keeps the two apart.  Prices are left out: what     *)
(* counts is whether the last one stored was printed.                      *)
(***************************************************************************)
EXTENDS Integers, FiniteSets

CONSTANT MaxStocks          \* MAX_STOCKS

ASSUME TradersAssumption == MaxStocks \in Nat \ {0}

Stocks == 1..MaxStocks

VARIABLES
    updater,            \* the child: "none", "store", "flag"
    publisher,          \* the parent: "fork", "test", "print", "clear", "ended"
    cur,                \* the next stock to print
    updated,            \* the flag
    unprinted,          \* the stocks whose price has not been printed since it was stored
    late                \* history: those stored while a publication was past them

vars == <<updater, publisher, cur, updated, unprinted, late>>

Init ==
    /\ updater = "none" /\ publisher = "fork"
    /\ cur = 1 /\ updated = FALSE
    /\ unprinted = {} /\ late = {}

----------------------------------------------------------------------------
\* A variant with one plausible slip: the loop ends before the last stock.
PublishAllButLast ==
    /\ publisher = "print"
    /\ unprinted' = unprinted \ {cur} /\ late' = late \ {cur}
    /\ IF cur < MaxStocks - 1 THEN cur' = cur + 1 /\ UNCHANGED publisher
                              ELSE cur' = 1 /\ publisher' = "clear"
    /\ UNCHANGED <<updater, updated>>

----------------------------------------------------------------------------
Fork ==
    /\ publisher = "fork"
    /\ \/ publisher' = "test" /\ updater' = "store"
       \/ publisher' = "ended" /\ UNCHANGED updater
    /\ UNCHANGED <<cur, updated, unprinted, late>>

\* stocks_updater: a price, then the flag.
Store(s) ==
    /\ updater = "store"
    /\ unprinted' = unprinted \cup {s}
    /\ late' = IF publisher = "clear" \/ (publisher = "print" /\ cur > s)
               THEN late \cup {s} ELSE late \ {s}
    /\ updater' = "flag"
    /\ UNCHANGED <<publisher, cur, updated>>

Flag ==
    /\ updater = "flag"
    /\ updated' = TRUE
    /\ updater' = "store"
    /\ UNCHANGED <<publisher, cur, unprinted, late>>

\* main: the flag is polled.
Poll ==
    /\ publisher = "test"
    /\ publisher' = IF updated THEN "print" ELSE "test"
    /\ UNCHANGED <<updater, cur, updated, unprinted, late>>

\* stocks_publish: one stock is read and printed.
PublishOne ==
    /\ publisher = "print"
    /\ unprinted' = unprinted \ {cur} /\ late' = late \ {cur}
    /\ IF cur < MaxStocks THEN cur' = cur + 1 /\ UNCHANGED publisher
                          ELSE cur' = 1 /\ publisher' = "clear"
    /\ UNCHANGED <<updater, updated>>

Clear ==
    /\ publisher = "clear"
    /\ updated' = FALSE
    /\ publisher' = "test"
    /\ UNCHANGED <<updater, cur, unprinted, late>>

Updater == (\E s \in Stocks : Store(s)) \/ Flag
Publisher == Fork \/ Poll \/ PublishOne \/ Clear

Next == Updater \/ Publisher

Spec == Init /\ [][Next]_vars

----------------------------------------------------------------------------
\* When the parent polls, finds nothing and goes to sleep, and the child is between two
\* updates, every price has been printed but those stored while a publication was past
\* them: for these line 61 has cleared the flag that announced them.
UpToDateUnlessLate ==
    publisher = "test" /\ ~updated /\ updater = "store" => unprinted \subseteq late
============================================================================
