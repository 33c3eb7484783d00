------------------------------- MODULE EToll -------------------------------
(***************************************************************************)
(* ed-lesson-9/eToll/main.c: car generators write one-line payments into   *)
(* their lane's FIFO; the booth waits with level-triggered epoll, reads    *)
(* each ready lane into its buffer and logs every complete line.  A line   *)
(* is MsgLen cells, its newline the last; a write is atomic, a read takes  *)
(* what fits the buffer and may cut a line in two.                         *)
(***************************************************************************)
EXTENDS Integers, Sequences, FiniteSets, SequencesExt

CONSTANTS
    Lanes,          \* the lanes (MAX_LANES of them)
    MsgLen,         \* cells of one payment, the newline included
    BufSize,        \* BUF_SIZE
    PipeCap,        \* what a FIFO holds before its writer blocks
    MaxCars         \* bound: payments per lane

\* A line is longer than its newline, and a FIFO holds one.
ETollAssumption ==
    /\ MsgLen \in Nat \ {0, 1}
    /\ BufSize \in Nat \ {0}
    /\ PipeCap \in Nat /\ PipeCap >= MsgLen
    /\ MaxCars \in Nat
    /\ IsFiniteSet(Lanes)

VARIABLES
    sent,           \* how many payments each lane's generator has written
    pipe,           \* the cells in each FIFO
    buf,            \* lane->buf
    len,            \* lane->len
    logged,         \* the lines the booth has logged, per lane
    events,         \* the lanes of the current epoll batch still to be handled
    cut,            \* history: the lanes of which some read ended inside a line
    overrun         \* process_lines was called with more than BufSize cells

vars == <<sent, pipe, buf, len, logged, events, cut, overrun>>

Cell(car, k) == <<car, k>>
NUL == Cell(0, 0)
IsNewline(cell) == cell[2] = MsgLen
Message(car) == [k \in 1 .. MsgLen |-> Cell(car, k)]
Line(car) == [k \in 1 .. MsgLen - 1 |-> Cell(car, k)]

Init ==
    /\ sent = [l \in Lanes |-> 0]
    /\ pipe = [l \in Lanes |-> <<>>]
    /\ buf = [l \in Lanes |-> [k \in 1 .. BufSize |-> NUL]]
    /\ len = [l \in Lanes |-> 0]
    /\ logged = [l \in Lanes |-> <<>>]
    /\ events = <<>>
    /\ cut = {}
    /\ overrun = FALSE

Least(m, n) == IF m < n THEN m ELSE n

----------------------------------------------------------------------------
\* process_lines on a buffer b: what its loop has come to behind the first n cells, that is
\* where the line being looked at begins, and the lines taken.
Scan(b, n) ==
    LET upTo[k \in 0 .. n] ==
          IF k = 0 THEN [start |-> 0, lines |-> <<>>]
          ELSE IF IsNewline(b[k])
          THEN [start |-> k,
                lines |-> Append(upTo[k - 1].lines, SubSeq(b, upTo[k - 1].start + 1, k - 1))]
          ELSE upTo[k - 1]
    IN  upTo[n]

LinesIn(b, n) == Scan(b, n).lines
Remaining(b, n) == n - Scan(b, n).start

\* Each newline is overwritten with NUL, and what follows the last one is moved to
\* the front; the cells behind it keep what they held.
Moved(b, n) ==
    LET nul == [k \in 1 .. BufSize |-> IF k <= n /\ IsNewline(b[k]) THEN NUL ELSE b[k]]
        r   == Remaining(b, n)
    IN  [k \in 1 .. BufSize |-> IF k <= r THEN nul[n - r + k] ELSE nul[k]]

\* lane->buf after a read of n cells: they land at its front, whatever is kept there.
Filled(l, n) == [k \in 1 .. BufSize |-> IF k <= n THEN pipe[l][k] ELSE buf[l][k]]

----------------------------------------------------------------------------
\* Variants of the actions below, each with one plausible slip.

\* The booth logs the first line of a read only.
HandleFirst ==
    /\ events # <<>>
    /\ ~overrun
    /\ LET l == Head(events)
           n == Least(Len(pipe[l]), BufSize)
           b == Filled(l, n)
           total == len[l] + n
       IN  /\ pipe' = [pipe EXCEPT ![l] = SubSeq(@, n + 1, Len(@))]
           /\ cut' = IF n > 0 /\ ~IsNewline(b[n]) THEN cut \cup {l} ELSE cut
           /\ IF total > BufSize
              THEN overrun' = TRUE /\ UNCHANGED <<logged, buf, len>>
              ELSE /\ logged' = [logged EXCEPT ![l] = @ \o SubSeq(LinesIn(b, total), 1, 1)]
                   /\ buf' = [buf EXCEPT ![l] = Moved(b, total)]
                   /\ len' = [len EXCEPT ![l] = Remaining(b, total)]
                   /\ overrun' = overrun
    /\ events' = Tail(events)
    /\ UNCHANGED sent

\* The booth waits for the first lane only.
EpollFirstLane ==
    /\ events = <<>>
    /\ ~overrun
    /\ events' \in {<<l>> : l \in {CHOOSE l \in Lanes : TRUE} \cap {l \in Lanes : pipe[l] # <<>>}}
    /\ UNCHANGED <<sent, pipe, buf, len, logged, cut, overrun>>

----------------------------------------------------------------------------
\* car_generator: one atomic write, which blocks while the FIFO is full.

Pay(l) ==
    /\ sent[l] < MaxCars
    /\ Len(pipe[l]) + MsgLen <= PipeCap
    /\ sent' = [sent EXCEPT ![l] = @ + 1]
    /\ pipe' = [pipe EXCEPT ![l] = @ \o Message(sent[l] + 1)]
    /\ UNCHANGED <<buf, len, logged, events, cut, overrun>>

\* epoll_wait: every lane with something to read, in any order.
EpollWait ==
    /\ events = <<>>
    /\ ~overrun
    /\ events' \in SetToSeqs({l \in Lanes : pipe[l] # <<>>}) \ {<<>>}
    /\ UNCHANGED <<sent, pipe, buf, len, logged, cut, overrun>>

\* One event: `lane->len += read(lane->fd, lane->buf, BUF_SIZE)`, then process_lines.
\* Once len exceeds the buffer the search for newlines leaves it: undefined, and not
\* followed further.
Handle ==
    /\ events # <<>>
    /\ ~overrun
    /\ LET l == Head(events)
           n == Least(Len(pipe[l]), BufSize)
           b == Filled(l, n)
           total == len[l] + n
       IN  /\ pipe' = [pipe EXCEPT ![l] = SubSeq(@, n + 1, Len(@))]
           /\ cut' = IF n > 0 /\ ~IsNewline(b[n]) THEN cut \cup {l} ELSE cut
           /\ IF total > BufSize
              THEN overrun' = TRUE /\ UNCHANGED <<logged, buf, len>>
              ELSE /\ logged' = [logged EXCEPT ![l] = @ \o LinesIn(b, total)]
                   /\ buf' = [buf EXCEPT ![l] = Moved(b, total)]
                   /\ len' = [len EXCEPT ![l] = Remaining(b, total)]
                   /\ overrun' = overrun
    /\ events' = Tail(events)
    /\ UNCHANGED sent

----------------------------------------------------------------------------
Booth == EpollWait \/ Handle

\* The bound: every generator has written its MaxCars payments and the booth sleeps; or
\* the booth is past a buffer's end, where nothing more is said of it.
Quiet ==
    /\ overrun \/ (events = <<>> /\ \A l \in Lanes : sent[l] = MaxCars /\ pipe[l] = <<>>)
    /\ UNCHANGED vars

Next == Booth \/ (\E l \in Lanes : Pay(l)) \/ Quiet

Spec == Init /\ [][Next]_vars

\* The booth is scheduled.  Nothing is assumed of the cars.
FairSpec == Spec /\ WF_vars(Booth)

----------------------------------------------------------------------------
\* Every variable stays in its range.
TypeOK ==
    /\ sent \in [Lanes -> 0 .. MaxCars]
    /\ len \in [Lanes -> 0 .. BufSize]
    /\ \A l \in Lanes : Len(pipe[l]) <= PipeCap /\ DOMAIN buf[l] = 1 .. BufSize
    /\ events \in Seq(Lanes) /\ Len(events) <= Cardinality(Lanes)
    /\ cut \subseteq Lanes /\ overrun \in BOOLEAN

\* The FIFO of a lane holds its payments from the first-th on, and nothing else.
Holds(l, first) ==
    /\ Len(pipe[l]) = MsgLen * (sent[l] - first + 1)
    /\ \A c \in first .. sent[l] : \A k \in 1 .. MsgLen :
          pipe[l][MsgLen * (c - first) + k] = Cell(c, k)

\* On a lane whose every read ended with a line, nothing is lost, invented or reordered
\* between the generator and the log, whatever befell the other lanes: the log is a prefix
\* of the payments, and the FIFO holds exactly the rest.  The search for newlines leaves
\* the buffer on no other account.  (Line 147 reads to the front of the buffer: after a
\* read that cut a line, the next one overwrites what was kept of it.)
ExactUnlessCut ==
    /\ TypeOK
    /\ overrun => cut # {}
    /\ \A l \in Lanes : l \in cut \/ overrun \/
          /\ Len(logged[l]) <= sent[l]
          /\ logged[l] = [c \in 1 .. Len(logged[l]) |-> Line(c)]
          /\ len[l] = 0
          /\ Holds(l, Len(logged[l]) + 1)

\* Every payment is logged sooner or later, however busy the other lanes are, unless a
\* read cuts a line of its lane or the booth has left a buffer.
LoggedUnlessCut ==
    \A l \in Lanes : \A c \in 1 .. MaxCars :
        sent[l] >= c ~> (Len(logged[l]) >= c \/ l \in cut \/ overrun)
============================================================================
