------------------------------- MODULE Market -------------------------------
(***************************************************************************)
(* ed-lesson-7/market.c: a till.  For each customer it asks for a name, a  *)
(* phone and lines of items until "done"; at end of file, between two      *)
(* purchases only, it writes the day's customers to a file and exits.      *)
(* Names and phones are left out but for the line each takes.  malloc does *)
(* not refuse: Malloc tests the wrong pointer, and a refusal is a crash.   *)
(***************************************************************************)
EXTENDS Integers, Sequences, SequencesExt

CONSTANTS
    Goods,              \* item lines that parse
    MaxCustomers,       \* bound: purchases finished
    MaxLines            \* bound: lines of a purchase

\* What read() can bring: a line of less than three bytes (or an error), the end of the
\* file, or a line.
Short == "short"
Eof == "eof"
Done == "done"
Unparsed == "unparsed"

MarketAssumption == Done \notin Goods /\ MaxCustomers \in Nat /\ MaxLines \in Nat

VARIABLES
    at,                 \* the prompt being answered, or what is done with the answer
    line,               \* line_item
    purchase,           \* the lines stored for the customer at the till
    number,             \* its number_of_lines
    customers,          \* the list from first_customer: [items, number]
    report,             \* what finish_day has written
    log                 \* history: every line the till has taken for an item, "done" included

vars == <<at, line, purchase, number, customers, report, log>>

Prompts == {"name", "phone", "item"}

Init ==
    /\ at = "name"
    /\ line = Short
    /\ purchase = <<>> /\ number = 0
    /\ customers = <<>>
    /\ report = <<>>
    /\ log = <<>>

----------------------------------------------------------------------------
\* Variants of the definitions below, each with one plausible slip.

\* The day can be finished at any prompt.
MayFinishAlways == at \in Prompts

\* "done" is not recognised, and does not parse.
DoneUnseen ==
    /\ at = "parse" /\ line = Done
    /\ UNCHANGED vars

----------------------------------------------------------------------------
\* get_input: anything under three bytes is asked for again...
AskAgain ==
    /\ at \in Prompts
    /\ UNCHANGED vars

\* ...and so is the end of the file where the caller does not allow it.
MayFinish == at \in {"name", "phone"}

EofInPurchase ==
    /\ at \in Prompts /\ ~MayFinish
    /\ UNCHANGED vars

\* finish_day: each customer's lines as far as its number_of_lines says; past the lines
\* stored there is nothing to read.
FinishDay ==
    /\ at \in Prompts /\ MayFinish
    /\ IF \A i \in DOMAIN customers : customers[i].number = Len(customers[i].items)
       THEN at' = "finished" /\ report' = [i \in DOMAIN customers |-> customers[i].items]
       ELSE at' = "outside" /\ UNCHANGED report
    /\ UNCHANGED <<line, purchase, number, customers, log>>

\* main: the name, then the phone, then an empty purchase.
TakeName ==
    /\ at = "name" /\ Len(customers) < MaxCustomers
    /\ at' = "phone"
    /\ UNCHANGED <<line, purchase, number, customers, report, log>>

TakePhone ==
    /\ at = "phone"
    /\ at' = "item"
    /\ purchase' = <<>> /\ number' = 0
    /\ UNCHANGED <<line, customers, report, log>>

\* get_purchase: a line is read into line_item.
TakeLine(l) ==
    /\ at = "item" /\ (l \in Goods => Len(purchase) < MaxLines)
    /\ line' = l /\ log' = Append(log, l)
    /\ at' = "parse"
    /\ UNCHANGED <<purchase, number, customers, report>>

\* It is counted, and stored if realloc finds room.
Store ==
    /\ at = "parse" /\ line \in Goods
    /\ number' = number + 1
    /\ purchase' = Append(purchase, line)
    /\ at' = "item"
    /\ UNCHANGED <<line, customers, report, log>>

\* The customer joins the end of the list.
CheckOut(n) ==
    /\ customers' = Append(customers, [items |-> purchase, number |-> n])
    /\ at' = "name"
    /\ UNCHANGED <<line, purchase, report, log>>

DoneShopping ==
    /\ at = "parse" /\ line = Done
    /\ CheckOut(number) /\ UNCHANGED number

\* realloc refuses: get_purchase returns as if the customer were done.
StoreRefused ==
    /\ at = "parse" /\ line \in Goods
    /\ number' = number + 1
    /\ CheckOut(number + 1)

\* A line that does not parse is parsed again, and again: `continue` reads no other.
ParseAgain ==
    /\ at = "parse" /\ line = Unparsed
    /\ UNCHANGED vars

Till == Store \/ DoneShopping \/ StoreRefused \/ ParseAgain

Next ==
    \/ Till
    \/ AskAgain \/ EofInPurchase \/ FinishDay
    \/ TakeName \/ TakePhone
    \/ \E l \in Goods \cup {Done, Unparsed} : TakeLine(l)

----------------------------------------------------------------------------
\* The day's file holds every line taken for an item, by customer and in order: it is the
\* log, cut at each "done" and nowhere else.  A realloc refused, which ends the customer's
\* purchase early, leaves one line more counted than stored, and the day is not finished.
ReportComplete ==
    at = "finished" =>
        /\ log = FlattenSeq([k \in DOMAIN report |-> Append(report[k], Done)])
        /\ \A k \in DOMAIN report : ~Contains(report[k], Done)

\* Every item line read is followed by another prompt, unless it does not parse (line 121).
PromptsOn == at = "parse" ~> (at \in Prompts \/ line = Unparsed)
============================================================================
