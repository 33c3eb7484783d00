--------------------------- MODULE ConcurrentList ---------------------------
(***************************************************************************)
(* ed-lesson-10/concurrent_ll.c: thread A iterates over a linked list and  *)
(* removes the second node it meets; thread B makes an iterator and        *)
(* removes the first node.  Nothing is synchronised, and the sleeps order  *)
(* nothing.  The model follows every pointer that is read or written; a    *)
(* thread that dereferences a freed node ends the run there, since what    *)
(* happens next is undefined.                                              *)
(***************************************************************************)
EXTENDS Integers, FiniteSets

CONSTANT NNodes                   \* nodes main() appends (4)

ASSUME ListAssumption == NNodes \in Nat \ {0}

NULL == 0
Nodes == 1 .. NNodes              \* malloc'ed in list order
Ref == Nodes \cup {NULL}
Threads == {"A", "B"}

VARIABLES
    head,         \* list->head
    next,         \* node->next
    freed,        \* nodes handed back to free()
    pc,           \* each thread's program counter
    it,           \* each thread's iterator and its locals in ll_iterator_remove
    idx,          \* thread A's idx
    outcome,      \* "running", or how the process ended
    overlap       \* history: two removals have run at the same time

vars == <<head, next, freed, pc, it, idx, outcome, overlap>>

\* main() up to the two pthread_create: four appends.
Init ==
    /\ head = 1
    /\ next = [n \in Nodes |-> IF n < NNodes THEN n + 1 ELSE NULL]
    /\ freed = {}
    /\ pc = [t \in Threads |-> "start"]
    /\ it = [t \in Threads |-> [curr |-> NULL, temp |-> NULL, prev |-> NULL, after |-> NULL]]
    /\ idx = 0
    /\ outcome = "running"
    /\ overlap = FALSE

At(t, label) == outcome = "running" /\ pc[t] = label
Goto(t, label) == pc' = [pc EXCEPT ![t] = label]

Removing(t) == pc[t] \in {"walk", "load", "store", "take", "free"}

\* The node thread t's next step dereferences.
Touches(t) ==
    CASE pc[t] = "next" -> it[t].curr
      [] pc[t] = "walk" /\ it[t].temp # it[t].curr -> it[t].temp
      [] pc[t] = "load" -> it[t].temp
      [] pc[t] = "store" -> it[t].prev
      [] pc[t] \in {"take", "free"} -> it[t].curr
      [] OTHER -> NULL

Sound(t) == Touches(t) \notin freed

----------------------------------------------------------------------------
\* Variants of the actions below, each with one plausible slip.

\* The iterator keeps pointing at the node it has removed.
FreeKeepsCurr(t) ==
    /\ At(t, "free") /\ Sound(t)
    /\ freed' = freed \cup {it[t].curr}
    /\ Goto(t, IF t = "A" THEN "test" ELSE "assert")
    /\ idx' = IF t = "A" THEN idx + 1 ELSE idx
    /\ UNCHANGED <<head, next, it, outcome, overlap>>

\* The unlinking is forgotten when the node is not the head.
StoreHeadOnly(t) ==
    /\ At(t, "store") /\ Sound(t)
    /\ head' = IF it[t].prev = NULL THEN it[t].after ELSE head
    /\ Goto(t, "take")
    /\ UNCHANGED <<next, freed, it, idx, outcome, overlap>>

\* A build with NDEBUG: the assertion does nothing.
AssertOff ==
    /\ At("B", "assert")
    /\ Goto("B", "done")
    /\ UNCHANGED <<head, next, freed, it, idx, outcome, overlap>>

----------------------------------------------------------------------------
\* ll_iterator_init: after the thread's sleep, however long that turns out to be.
Begin(t) ==
    /\ At(t, "start")
    /\ it' = [it EXCEPT ![t].curr = head]
    /\ Goto(t, IF t = "A" THEN "test" ELSE "remove")
    /\ UNCHANGED <<head, next, freed, idx, outcome, overlap>>

\* thread_A_worker: the loop test and the choice between next and remove.
Test ==
    /\ At("A", "test")
    /\ Goto("A", IF it["A"].curr = NULL THEN "done"
                 ELSE IF idx = 1 THEN "remove" ELSE "next")
    /\ UNCHANGED <<head, next, freed, it, idx, outcome, overlap>>

\* ll_iterator_next
IterNext ==
    /\ At("A", "next") /\ Sound("A")
    /\ it' = [it EXCEPT !["A"].curr = next[it["A"].curr]]
    /\ idx' = idx + 1
    /\ Goto("A", "test")
    /\ UNCHANGED <<head, next, freed, outcome, overlap>>

\* ll_iterator_remove, line by line.  First the assertion that there is a node.
RemoveBegin(t) ==
    /\ At(t, "remove")
    /\ IF it[t].curr = NULL
       THEN outcome' = "aborted" /\ UNCHANGED <<pc, it, overlap>>
       ELSE /\ Goto(t, "walk")
            /\ it' = [it EXCEPT ![t].temp = head, ![t].prev = NULL]
            /\ overlap' = (overlap \/ \E u \in Threads \ {t} : Removing(u))
            /\ outcome' = outcome
    /\ UNCHANGED <<head, next, freed, idx>>

WalkOn(t) ==
    /\ At(t, "walk") /\ Sound(t)
    /\ it[t].temp \notin {NULL, it[t].curr}
    /\ it' = [it EXCEPT ![t].prev = it[t].temp, ![t].temp = next[it[t].temp]]
    /\ UNCHANGED <<head, next, freed, pc, idx, outcome, overlap>>

\* The walk is over: line 57's assertion that the node was met.
WalkEnd(t) ==
    /\ At(t, "walk")
    /\ it[t].temp \in {NULL, it[t].curr}
    /\ IF it[t].temp = NULL THEN outcome' = "notFound" /\ pc' = pc
                            ELSE Goto(t, "load") /\ outcome' = outcome
    /\ UNCHANGED <<head, next, freed, it, idx, overlap>>

\* `temp->next` is read ...
Load(t) ==
    /\ At(t, "load") /\ Sound(t)
    /\ it' = [it EXCEPT ![t].after = next[it[t].temp]]
    /\ Goto(t, "store")
    /\ UNCHANGED <<head, next, freed, idx, outcome, overlap>>

\* ... and stored in the list's head or in the previous node.
Store(t) ==
    /\ At(t, "store") /\ Sound(t)
    /\ IF it[t].prev = NULL
       THEN head' = it[t].after /\ next' = next
       ELSE next' = [next EXCEPT ![it[t].prev] = it[t].after] /\ head' = head
    /\ Goto(t, "take")
    /\ UNCHANGED <<freed, it, idx, outcome, overlap>>

\* next_node and value are read from the node ...
Take(t) ==
    /\ At(t, "take") /\ Sound(t)
    /\ it' = [it EXCEPT ![t].after = next[it[t].curr]]
    /\ Goto(t, "free")
    /\ UNCHANGED <<head, next, freed, idx, outcome, overlap>>

\* ... which is freed; the iterator moves on.
Free(t) ==
    /\ At(t, "free") /\ Sound(t)
    /\ freed' = freed \cup {it[t].curr}
    /\ it' = [it EXCEPT ![t].curr = it[t].after]
    /\ idx' = IF t = "A" THEN idx + 1 ELSE idx
    /\ Goto(t, IF t = "A" THEN "test" ELSE "assert")
    /\ UNCHANGED <<head, next, outcome, overlap>>

\* Thread B's assert(false): the process aborts, thread A with it.
Assert ==
    /\ At("B", "assert")
    /\ outcome' = "aborted"
    /\ UNCHANGED <<head, next, freed, pc, it, idx, overlap>>

\* A freed node is dereferenced, or freed again.
Misuse(t) ==
    /\ outcome = "running"
    /\ ~Sound(t)
    /\ outcome' = "useAfterFree"
    /\ UNCHANGED <<head, next, freed, pc, it, idx, overlap>>

----------------------------------------------------------------------------
Remove(t) == RemoveBegin(t) \/ WalkOn(t) \/ WalkEnd(t) \/ Load(t) \/ Store(t) \/ Take(t) \/ Free(t)
A == Begin("A") \/ Test \/ IterNext \/ Remove("A") \/ Misuse("A")
B == Begin("B") \/ Remove("B") \/ Assert \/ Misuse("B")

Over == outcome # "running" /\ UNCHANGED vars

Next == A \/ B \/ Over

Spec == Init /\ [][Next]_vars

\* Both threads' sleeps end and both are scheduled.
FairSpec == Spec /\ WF_vars(A) /\ WF_vars(B)

----------------------------------------------------------------------------
\* The nodes the list holds: the smallest set with its head and whatever follows a node.
Closed(S) ==
    /\ head # NULL => head \in S
    /\ \A n \in S : next[n] # NULL => next[n] \in S

Listed == {n \in Nodes : \A S \in SUBSET Nodes : Closed(S) => n \in S}

\* Every variable stays in its range.
TypeOK ==
    /\ head \in Ref
    /\ next \in [Nodes -> Ref]
    /\ freed \subseteq Nodes
    /\ pc \in [Threads -> {"start", "test", "next", "remove", "walk", "load", "store",
                           "take", "free", "assert", "done"}]
    /\ it \in [Threads -> [curr : Ref, temp : Ref, prev : Ref, after : Ref]]
    /\ idx \in 0 .. NNodes
    /\ outcome \in {"running", "aborted", "notFound", "useAfterFree"}
    /\ overlap \in BOOLEAN

\* Line 82, "removing from itself should be okay": the iterator that removes is never
\* the one that breaks itself; a misuse needs the other thread's removal.  And before any
\* freed node is touched, no interleaving makes a remove lose the node it is looking for
\* (line 57, "shouldn't happen").
AloneIsSafe ==
    /\ TypeOK
    /\ outcome # "notFound"
    /\ outcome = "useAfterFree" => "B" \in {t \in Threads : pc[t] = "assert" \/ Removing(t)}

\* When the two removals do not run at the same time, the list never holds a freed node
\* and loses none but the ones removed.
ListIntact ==
    ~overlap =>
        /\ Listed \cap freed = {}
        /\ Nodes \ (Listed \cup freed) \subseteq
               {it[t].curr : t \in {u \in Threads : pc[u] \in {"take", "free"}}}

\* Thread B's assertion, or a use after free before it, is how the program always ends.
NeverReturns == <>(outcome \in {"aborted", "useAfterFree"})
============================================================================
