-------------------------- MODULE ConcurrentProofs --------------------------
(***************************************************************************)
(* The four programs of MCConcurrent.tla, for every value of their         *)
(* constants.  friends: the plate is overdrawn by one grape at most and    *)
(* Joey eats alone.  sigchild: waitpid never blocks and the zombies are    *)
(* accounted for.  concurrent_ll: no removal loses its node, and the list  *)
(* stays whole as long as the two removals do not overlap.  kh: a portion  *)
(* the head chef has tested stays there for him, and the counters are      *)
(* exact until an update is lost.                                          *)
(***************************************************************************)
EXTENDS MCConcurrent, FiniteSetTheorems, TLAPS

(***************************************************************************)
(* The inductive invariant.  OneGrapeShort alone does not survive Emma's   *)
(* lock: it must be known before she takes the plate that a stale test     *)
(* (she is past it, and the plate is empty) is Joey's doing.  StaleTest    *)
(* says so; HolderEats turns "Joey is eating or done" into "Joey is done"  *)
(* once Emma holds the plate.                                              *)
(***************************************************************************)
StaleTest == emma \in {"lock", "eat"} /\ grapes <= 0 => joey \in {"eat", "done"}

\* Threads exist from their creation on, and main() waits for both of them.
Joined ==
    /\ emma = "unborn" <=> main = "createEmma"
    /\ joey = "unborn" <=> main \in {"createEmma", "createJoey"}
    /\ main \in {"joinJoey", "done"} => emma = "done"
    /\ main = "done" => joey = "done"
    /\ emma = "done" => grapes <= 0
    /\ joey = "done" => grapes <= 0

FriendsInv == Friends!TypeOK /\ Friends!HolderEats /\ OneGrapeShort /\ StaleTest /\ Joined

\* The invariant holds initially: nobody exists yet and the plate is free.
LEMMA FriendsInit == Friends!Init => FriendsInv
BY MCConcurrentAssumption
   DEF Friends!GrapesAssumption, Friends!Init, FriendsInv, Friends!TypeOK, Friends!HolderEats,
      OneGrapeShort, Friends!OneGrapeShort, StaleTest, Joined

\* Every step of every thread preserves the invariant.
LEMMA FriendsStep == FriendsInv /\ [Friends!Next]_(Friends!vars) => FriendsInv'
<1> SUFFICES ASSUME FriendsInv, [Friends!Next]_(Friends!vars) PROVE FriendsInv'
    OBVIOUS
<1> USE MCConcurrentAssumption
    DEF Friends!GrapesAssumption, FriendsInv, Friends!TypeOK, Friends!HolderEats, OneGrapeShort,
       Friends!OneGrapeShort, StaleTest, Joined
<1>1. CASE Friends!CreateEmma
    BY <1>1 DEF Friends!CreateEmma
<1>2. CASE Friends!CreateJoey
    BY <1>2 DEF Friends!CreateJoey
<1>3. CASE Friends!JoinEmma
    BY <1>3 DEF Friends!JoinEmma
<1>4. CASE Friends!JoinJoey
    BY <1>4 DEF Friends!JoinJoey
<1>5. CASE Friends!JoeyLock
    BY <1>5 DEF Friends!JoeyLock
<1>6. CASE Friends!JoeyEat
    BY <1>6 DEF Friends!JoeyEat
<1>7. CASE Friends!JoeyUnlock
    BY <1>7 DEF Friends!JoeyUnlock
<1>8. CASE Friends!EmmaTest
    BY <1>8 DEF Friends!EmmaTest
<1>9. CASE Friends!EmmaLock
    BY <1>9 DEF Friends!EmmaLock
<1>10. CASE Friends!EmmaEat
    BY <1>10 DEF Friends!EmmaEat
<1>11. CASE Friends!EmmaUnlock
    BY <1>11 DEF Friends!EmmaUnlock
<1>12. CASE UNCHANGED Friends!vars
    BY <1>12 DEF Friends!vars
<1> QED
    BY <1>1, <1>2, <1>3, <1>4, <1>5, <1>6, <1>7, <1>8, <1>9, <1>10, <1>11, <1>12
    DEF Friends!Next, Friends!Main, Friends!Joey, Friends!Emma, Friends!Finished

\* So the invariant always holds.
LEMMA FriendsInvariance == Friends!Spec => []FriendsInv
<1> QED
    BY FriendsInit, FriendsStep, PTL DEF Friends!Spec

\* Type correctness of friends.c's variables, for every plate: the counter never
\* leaves -1 .. Grapes, however the two threads interleave.
THEOREM TypeCorrect == Friends!Spec => []Friends!TypeOK
<1>1. FriendsInv => Friends!TypeOK
    BY DEF FriendsInv
<1> QED
    BY <1>1, FriendsInvariance, PTL

\* The mutex discipline: the plate's holder is the one thread in its critical section.
THEOREM MutexHeld == Friends!Spec => []Friends!HolderEats
<1>1. FriendsInv => Friends!HolderEats
    BY DEF FriendsInv
<1> QED
    BY <1>1, FriendsInvariance, PTL

\* Emma's unlocked test costs one grape at most.
THEOREM OverdraftIsOne == Friends!Spec => []OneGrapeShort
<1>1. FriendsInv => OneGrapeShort
    BY DEF FriendsInv
<1> QED
    BY <1>1, FriendsInvariance, PTL

\* When main() returns both threads have, the mutex is free and the plate is empty.
THEOREM LeavesNothing == Friends!Spec => []Friends!CleanExit
<1>1. FriendsInv => Friends!CleanExit
    BY DEF FriendsInv, Friends!TypeOK, Friends!HolderEats, Joined, Friends!CleanExit
<1> QED
    BY <1>1, FriendsInvariance, PTL

\* While Joey has the plate every grape that goes is his: an action property, from
\* the same invariant (Emma cannot be inside her critical section).
THEOREM JoeyAlone == Friends!Spec => JoeyDoesntShare
<1>1. FriendsInv /\ [Friends!Next]_(Friends!vars)
        => [joey = "eat" /\ grapes' # grapes => joey' = "eat" /\ emma' = emma]_(Friends!vars)
    BY DEF FriendsInv, Friends!HolderEats, Friends!Next, Friends!Main, Friends!Joey,
           Friends!Emma, Friends!Finished, Friends!vars, Friends!CreateEmma, Friends!CreateJoey,
           Friends!JoinEmma, Friends!JoinJoey, Friends!JoeyLock, Friends!JoeyEat,
              Friends!JoeyUnlock, Friends!EmmaTest, Friends!EmmaLock, Friends!EmmaEat,
           Friends!EmmaUnlock
<1> QED
    BY <1>1, FriendsInvariance, PTL DEF Friends!Spec, JoeyDoesntShare, Friends!JoeyDoesntShare

----------------------------------------------------------------------------
(***************************************************************************)
(* The inductive invariant.  To know that the handler's child is a zombie  *)
(* when it is reaped, and that reaping it leaves the pending one alone,    *)
(* the two must be different; that they are, when a pending signal is      *)
(* delivered, follows from the pending one being a zombie already.  And    *)
(* the account survives a fork because the child forked was not there yet, *)
(* which only Born says: children exist in the order of the loop.          *)
(***************************************************************************)
Born == \A c \in SigChild!Children : child[c] = "unborn" <=> c > i

SigChildInv == NamesAZombie /\ Accounted /\ Born

\* The invariant holds initially: no child exists.
LEMMA SigChildInit == SigChild!Init => SigChildInv
BY MCConcurrentAssumption
   DEF SigChild!SigChildAssumption, SigChild!Init, SigChildInv, NamesAZombie,
      SigChild!NamesAZombie, SigChild!TypeOK, Accounted, SigChild!Accounted, Born,
      SigChild!Children, SigChild!Nobody

\* The names of the children are not Nobody's.
LEMMA NobodyIsNoChild == SigChild!Nobody \notin SigChild!Children
BY DEF SigChild!Nobody, SigChild!Children

\* Forking changes a child that was not there, which nothing named.
LEMMA ForkInv == SigChildInv /\ SigChild!Fork => SigChildInv'
<1> SUFFICES ASSUME SigChildInv, SigChild!Fork PROVE SigChildInv'
    OBVIOUS
<1> USE MCConcurrentAssumption DEF SigChild!SigChildAssumption
<1>1. CASE i < NChildren
  <2>1. /\ i + 1 \in SigChild!Children /\ i \in Nat
        /\ child[i + 1] = "unborn"
        /\ child' = [child EXCEPT ![i + 1] = "running"]
        /\ i' = i + 1
        /\ UNCHANGED <<parent, handler, pending, merged>>
    BY <1>1
       DEF SigChildInv, NamesAZombie, SigChild!NamesAZombie, SigChild!TypeOK, Born,
           SigChild!Fork, SigChild!Children
  <2>2. i + 1 \notin merged \cup ({handler, pending} \ {SigChild!Nobody})
    BY <2>1 DEF SigChildInv, Accounted, SigChild!Accounted
  <2>3. SigChild!TypeOK'
    BY <1>1, <2>1
       DEF SigChildInv, NamesAZombie, SigChild!NamesAZombie, SigChild!TypeOK, SigChild!Children
  <2>4. NamesAZombie'
    BY <2>1, <2>2, <2>3, NobodyIsNoChild
       DEF SigChildInv, NamesAZombie, SigChild!NamesAZombie, SigChild!TypeOK
  <2>5. Accounted'
    BY <2>1, <2>2
       DEF SigChildInv, NamesAZombie, SigChild!NamesAZombie, SigChild!TypeOK, Accounted,
           SigChild!Accounted
  <2>6. Born'
    BY <2>1
       DEF SigChildInv, NamesAZombie, SigChild!NamesAZombie, SigChild!TypeOK, Born,
           SigChild!Children
  <2> QED
    BY <2>4, <2>5, <2>6 DEF SigChildInv
<1>2. CASE ~(i < NChildren)
    BY <1>2
       DEF SigChildInv, NamesAZombie, SigChild!NamesAZombie, SigChild!TypeOK, Accounted,
           SigChild!Accounted, Born, SigChild!Fork
<1> QED
    BY <1>1, <1>2

\* Every other step: a delivery and a reaping pass a name on, an end makes one.
LEMMA SigChildStep == SigChildInv /\ [SigChild!Next]_(SigChild!vars) => SigChildInv'
<1> SUFFICES ASSUME SigChildInv, [SigChild!Next]_(SigChild!vars) PROVE SigChildInv'
    OBVIOUS
<1> USE NobodyIsNoChild
      DEF SigChildInv, NamesAZombie, SigChild!NamesAZombie, SigChild!TypeOK, Accounted,
          SigChild!Accounted, Born
<1>1. CASE SigChild!Fork
    BY <1>1, ForkInv
<1>2. CASE SigChild!Deliver
    BY <1>2 DEF SigChild!Deliver
<1>3. CASE SigChild!Reap
    BY <1>3 DEF SigChild!Reap, SigChild!Ended
<1>4. CASE SigChild!ForkFails
    BY <1>4 DEF SigChild!ForkFails
<1>5. ASSUME NEW c \in SigChild!Children, SigChild!End(c) PROVE SigChildInv'
    BY <1>5 DEF SigChild!End
<1>6. CASE UNCHANGED SigChild!vars
    BY <1>6 DEF SigChild!vars
<1> QED
    BY <1>1, <1>2, <1>3, <1>4, <1>5, <1>6 DEF SigChild!Next, SigChild!Parent, SigChild!Idle

\* So the invariant always holds.
LEMMA SigChildInvariance == SigChild!Spec => []SigChildInv
<1> QED
    BY SigChildInit, SigChildStep, PTL DEF SigChild!Spec

\* The handler's waitpid finds a child that has ended, for every number of children.
THEOREM NeverBlocks == SigChild!Spec => []NamesAZombie
<1>1. SigChildInv => NamesAZombie
    BY DEF SigChildInv
<1> QED
    BY <1>1, SigChildInvariance, PTL

\* The zombies are the merged children and those whose turn is still to come.
THEOREM ZombiesAccounted == SigChild!Spec => []Accounted
<1>1. SigChildInv => Accounted
    BY DEF SigChildInv
<1> QED
    BY <1>1, SigChildInvariance, PTL

\* A child whose signal was merged away is never reaped: no later signal names it.
THEOREM MergedForEver == SigChild!Spec => SigChild!MergedStayZombies
<1>1. SigChildInv /\ [SigChild!Next]_(SigChild!vars) => [\A c \in merged : child'[c] =
   "zombie"]_(SigChild!vars)
  <2> SUFFICES ASSUME SigChildInv, [SigChild!Next]_(SigChild!vars), NEW c \in merged,
     (SigChild!vars)' # SigChild!vars
               PROVE child'[c] = "zombie"
    OBVIOUS
  <2>1. SigChildInv' /\ merged \subseteq merged'
    BY SigChildStep
       DEF SigChild!Next, SigChild!Parent, SigChild!Fork, SigChild!Deliver, SigChild!Reap,
           SigChild!ForkFails, SigChild!End, SigChild!Idle, SigChild!vars
  <2> QED
    BY <2>1 DEF SigChildInv, Accounted, SigChild!Accounted
<1> QED
    BY <1>1, SigChildInvariance, PTL DEF SigChild!Spec, SigChild!MergedStayZombies

----------------------------------------------------------------------------
(***************************************************************************)
(* The two removals of ConcurrentList.tla, for every length of the list.   *)
(* Neither AloneIsSafe nor ListIntact is inductive: what keeps a walk from *)
(* losing its node, and the list whole, is where the pointers can point.   *)
(* Thread B always removes the first node.  Thread A removes the second it *)
(* met, the list's second or, when B has unlinked the first before A       *)
(* began, its third.  Only A ever writes into a node.                      *)
(***************************************************************************)

\* The node behind n in the list that main() built.
Succ(n) == IF n < NNodes THEN n + 1 ELSE NULL

\* Whether each thread has unlinked its node.
AStored == pc["A"] \in {"take", "free"} \/ idx >= 2
BStored == pc["B"] \in {"take", "free", "assert"}

\* The node A removes, told from the one it found in front of it.
Victim == IF it["A"].prev = NULL THEN 2 ELSE it["A"].prev + 1

\* The pointers are main()'s, but for the one A has written.
Pointers ==
    \A n \in Nodes : next[n] = IF AStored /\ n = it["A"].prev THEN Succ(Victim) ELSE Succ(n)

\* The head is main()'s, or what one of the two removals has stored.
HeadOK ==
    /\ ~BStored => head = 1
    /\ BStored => \/ head = Succ(1) /\ ~(AStored /\ it["A"].prev = NULL)
                  \/ head = Succ(2) /\ AStored /\ it["A"].prev \in {NULL, 1}

FreedOK == freed = {n \in Nodes : (n = 1 /\ pc["B"] = "assert") \/ (n = Victim /\ idx >= 2)}

\* Thread B removes node 1 and never walks; what it stores is the node behind.
ThreadB ==
    /\ pc["B"] \in {"start", "remove", "walk", "load", "store", "take", "free", "assert"}
    /\ pc["B"] \notin {"start", "assert"} => it["B"].curr = 1
    /\ pc["B"] \in {"walk", "load", "store"} => it["B"].temp = 1 /\ it["B"].prev = NULL
    /\ pc["B"] = "store" => \/ it["B"].after = Succ(1)
                            \/ AStored /\ it["A"].prev = 1 /\ it["B"].after = Succ(2)

\* Thread A's walk: at node 1, at the head B has left, or at the node it looks for.
Walking(a) ==
    \/ a.temp = 1 /\ a.prev = NULL /\ a.curr = 2
    \/ a.temp = 2 /\ a.prev = NULL /\ BStored
    \/ a.temp = a.curr /\ a.curr = a.prev + 1 /\ a.prev # NULL

\* What A can have found in front of its node.
MayPrecede(n) == n = 1 \/ (BStored /\ n \in {NULL, 2})

ThreadA ==
    LET a == it["A"] IN
    /\ pc["A"] # "assert"
    /\ pc["A"] = "start" => idx = 0
    /\ pc["A"] = "next" => a.curr # NULL /\ idx # 1
    /\ pc["A"] \notin {"start", "test", "next", "done"} => idx = 1 /\ a.curr # NULL
    /\ pc["A"] # "start" /\ idx = 0 => a.curr = 1 \/ (BStored /\ a.curr = Succ(1))
    /\ idx = 1 => a.curr \in {NULL, 2} \/ (BStored /\ a.curr = 3)
    /\ pc["A"] = "walk" => Walking(a)
    /\ pc["A"] \in {"load", "store", "take", "free"} =>
          MayPrecede(a.prev) /\ a.temp = a.curr /\ a.curr = Victim
    /\ pc["A"] \in {"store", "free"} => a.after = Succ(a.curr)
    /\ idx >= 2 => MayPrecede(a.prev) /\ Victim \in Nodes /\ (a.curr = NULL \/ a.curr > Victim)
    /\ pc["A"] # "start" /\ a.curr # NULL => idx < a.curr

Outcome ==
    /\ outcome # "notFound"
    /\ outcome = "useAfterFree" => pc["B"] \notin {"start", "remove"}

\* What holds as long as the removals have not overlapped: the one that is second sees
\* all that the first has done.
Apart ==
    /\ Removing("A") /\ Removing("B") => overlap
    /\ ~overlap /\ BStored /\ pc["A"] \in {"walk", "load", "store"} =>
          it["A"].temp # 1 /\ it["A"].prev # 1
    /\ ~overlap /\ AStored /\ it["A"].prev = 1 =>
          /\ BStored => head = Succ(2)
          /\ pc["B"] = "store" => it["B"].after = Succ(2)

Iterators == [Threads -> [curr : Ref, temp : Ref, prev : Ref, after : Ref]]

ListInv == TypeOK /\ Pointers /\ HeadOK /\ FreedOK /\ ThreadA /\ ThreadB /\ Outcome /\ Apart

\* What an assignment to an iterator's fields leaves is an iterator.
LEMMA IteratorFields ==
    ASSUME it \in Iterators, NEW t \in Threads, NEW x \in Ref, NEW y \in Ref
    PROVE  /\ [it EXCEPT ![t].curr = x] \in Iterators
           /\ [it EXCEPT ![t].after = x] \in Iterators
           /\ [it EXCEPT ![t].temp = x, ![t].prev = y] \in Iterators
           /\ [it EXCEPT ![t].prev = x, ![t].temp = y] \in Iterators
  BY DEF Iterators

\* Both threads wait to be started on main()'s list.
LEMMA ListInit == Init => ListInv
  <1> SUFFICES ASSUME Init PROVE ListInv
    OBVIOUS
  <1> USE ListAssumption DEF Init, Threads, Nodes, Ref, AStored, BStored
  <1>1. it \in Iterators
    BY DEF Iterators
  <1>2. TypeOK
    <2>1. head \in Ref /\ next \in [Nodes -> Ref] /\ idx \in 0..NNodes
      OBVIOUS
    <2> QED
      BY <1>1, <2>1 DEF TypeOK
  <1>3. Pointers /\ HeadOK /\ FreedOK
    BY DEF Pointers, HeadOK, FreedOK, Succ
  <1>4. ThreadA /\ ThreadB /\ Outcome /\ Apart
    BY DEF ThreadA, ThreadB, Outcome, Apart, Removing
  <1> QED
    BY <1>2, <1>3, <1>4 DEF ListInv

\* Every pointer a step reads through is one of the nodes.
LEMMA Dereferenced ==
    ASSUME ListInv
    PROVE  /\ \A t \in Threads : At(t, "walk") /\ it[t].temp # NULL => next[it[t].temp] \in Ref
           /\ \A t \in Threads : At(t, "load") => next[it[t].temp] \in Ref
           /\ \A t \in Threads : At(t, "take") => next[it[t].curr] \in Ref
           /\ At("A", "next") => next[it["A"].curr] \in Ref
           /\ \A t \in Threads : At(t, "free") => it[t].curr \in Nodes
  BY ListAssumption DEF ListInv, TypeOK, At, Threads, Ref, NULL, ThreadA, ThreadB

\* Thread A's counter is behind its iterator, and so stays within the list.
LEMMA Counted == ListInv /\ (At("A", "next") \/ At("A", "free")) => idx + 1 \in 0..NNodes
  BY ListAssumption DEF ListInv, TypeOK, At, Threads, Ref, Nodes, ThreadA

\* No step takes a variable out of its range.
LEMMA TypesKept == ListInv /\ [Next]_vars => TypeOK'
  <1> SUFFICES ASSUME ListInv, [Next]_vars PROVE TypeOK'
    OBVIOUS
  <1> USE DEF ListInv, TypeOK
  <1>1. ASSUME NEW t \in Threads, Begin(t) PROVE TypeOK'
    BY <1>1 DEF Begin, At, Goto
  <1>2. CASE Test \/ Assert
    BY <1>2 DEF Test, Assert, At, Goto
  <1>3. CASE IterNext
    <2>1. it' \in Iterators
      BY <1>3, Dereferenced, IteratorFields DEF IterNext, Iterators, Threads
    <2> QED
      BY <1>3, <2>1, Counted DEF IterNext, Iterators, At, Goto
  <1>4. ASSUME NEW t \in Threads, RemoveBegin(t) PROVE TypeOK'
    <2>1. it' = it \/ it' = [it EXCEPT ![t].temp = head, ![t].prev = NULL]
      BY <1>4 DEF RemoveBegin
    <2>2. NULL \in Ref /\ head \in Ref /\ it \in Iterators
      BY DEF Ref, Iterators
    <2>3. [it EXCEPT ![t].temp = head, ![t].prev = NULL] \in Iterators
      BY <2>2, IteratorFields
    <2> QED
      BY <1>4, <2>1, <2>2, <2>3 DEF RemoveBegin, Iterators, Goto
  <1>5. ASSUME NEW t \in Threads, WalkOn(t) PROVE TypeOK'
    <2>1. it' \in Iterators
      BY <1>5, Dereferenced, IteratorFields DEF WalkOn, Iterators
    <2> QED
      BY <1>5, <2>1 DEF WalkOn, Iterators
  <1>6. ASSUME NEW t \in Threads, WalkEnd(t) PROVE TypeOK'
    BY <1>6 DEF WalkEnd, Goto
  <1>7. ASSUME NEW t \in Threads, Load(t) PROVE TypeOK'
    <2>1. it' \in Iterators
      BY <1>7, Dereferenced, IteratorFields DEF Load, Iterators
    <2> QED
      BY <1>7, <2>1 DEF Load, Iterators, Goto
  <1>8. ASSUME NEW t \in Threads, Store(t) PROVE TypeOK'
    BY <1>8 DEF Store, Goto
  <1>9. ASSUME NEW t \in Threads, Take(t) PROVE TypeOK'
    <2>1. it' \in Iterators
      BY <1>9, Dereferenced, IteratorFields DEF Take, Iterators
    <2> QED
      BY <1>9, <2>1 DEF Take, Iterators, Goto
  <1>10. ASSUME NEW t \in Threads, Free(t) PROVE TypeOK'
    <2>1. it' \in Iterators
      BY <1>10, IteratorFields DEF Free, Iterators
    <2>2. freed' \subseteq Nodes
      BY <1>10, Dereferenced DEF Free
    <2>3. idx' \in 0..NNodes
      BY <1>10, Counted DEF Free
    <2> QED
      BY <1>10, <2>1, <2>2, <2>3 DEF Free, Iterators, Goto
  <1>11. ASSUME NEW t \in Threads, Misuse(t) PROVE TypeOK'
    BY <1>11 DEF Misuse
  <1>12. CASE UNCHANGED vars
    BY <1>12 DEF vars
  <1> QED
    BY <1>1, <1>2, <1>3, <1>4, <1>5, <1>6, <1>7, <1>8, <1>9, <1>10, <1>11, <1>12
    DEF Next, A, B, Remove, Over, Threads

\* A thread makes its iterator.
LEMMA BeginInv ==
    ASSUME ListInv, TypeOK', NEW t \in Threads, Begin(t)
    PROVE  ListInv'
  <1> USE ListAssumption DEF Begin, ListInv, TypeOK, At, Goto, Succ, AStored, BStored, Victim
  <1>1. Pointers' /\ HeadOK' /\ FreedOK'
    BY DEF Pointers, HeadOK, FreedOK
  <1>2. ThreadA' /\ ThreadB'
    BY DEF ThreadB, ThreadA, HeadOK, MayPrecede, Walking
  <1>3. Outcome' /\ Apart'
    BY DEF Outcome, Apart, Removing
  <1> QED
    BY <1>1, <1>2, <1>3

\* Thread A's loop test.
LEMMA TestInv ==
    ASSUME ListInv, TypeOK', Test
    PROVE  ListInv'
  <1> USE ListAssumption DEF Test, ListInv, At, Goto, AStored, BStored, Victim
  <1>1. Pointers' /\ HeadOK' /\ FreedOK'
    BY DEF Pointers, HeadOK, FreedOK
  <1>2. ThreadA' /\ ThreadB'
    BY DEF ThreadB, ThreadA, MayPrecede
  <1>3. Outcome' /\ Apart'
    BY DEF Outcome, Apart, Removing
  <1> QED
    BY <1>1, <1>2, <1>3

\* ll_iterator_next: from node to node, as main() linked them.
LEMMA IterNextInv ==
    ASSUME ListInv, TypeOK', IterNext
    PROVE  ListInv'
  <1> USE ListAssumption DEF IterNext, ListInv, TypeOK, At, Goto, Threads, Ref, Nodes, NULL,
                             Succ
  <1>1. /\ AStored' = AStored /\ BStored' = BStored
        /\ Victim' = Victim /\ it'["A"].prev = it["A"].prev
    BY DEF AStored, BStored, Victim, ThreadA
  <1>2. Pointers'
    BY <1>1 DEF Pointers
  <1>3. HeadOK' /\ FreedOK' /\ ThreadB'
    BY <1>1 DEF HeadOK, FreedOK, ThreadA, ThreadB
  <1>4. ThreadA'
    BY SMTT(20), <1>1 DEF ThreadA, Pointers, MayPrecede, AStored
  <1>5. Outcome' /\ Apart'
    BY <1>1 DEF Outcome, Apart, Removing
  <1> QED
    BY <1>2, <1>3, <1>4, <1>5

\* A removal begins; the other one may be under way.
LEMMA RemoveBeginInv ==
    ASSUME ListInv, TypeOK', NEW t \in Threads, RemoveBegin(t)
    PROVE  ListInv'
  <1> USE ListAssumption DEF RemoveBegin, ListInv, TypeOK, At, Goto, Threads, Ref, Nodes, NULL,
                             Succ, AStored, BStored, Victim
  <1>1. Pointers' /\ HeadOK' /\ FreedOK'
    BY SMTT(20) DEF Pointers, HeadOK, FreedOK, ThreadA, ThreadB, MayPrecede, Walking
  <1>2. ThreadA' /\ ThreadB'
    BY SMTT(20) DEF ThreadB, ThreadA, Pointers, HeadOK, MayPrecede, Walking
  <1>3. Outcome' /\ Apart'
    BY DEF Outcome, Apart, ThreadA, ThreadB, HeadOK, Walking, Pointers, Removing, MayPrecede,
           Sound, Touches, FreedOK
  <1> QED
    BY <1>1, <1>2, <1>3

\* Only thread A ever walks past a node.
LEMMA WalkOnInv ==
    ASSUME ListInv, TypeOK', NEW t \in Threads, WalkOn(t)
    PROVE  ListInv'
  <1> USE ListAssumption DEF WalkOn, ListInv, TypeOK, At, Goto, Threads, Ref, Nodes, NULL, Succ
  <1>1. t = "A"
    BY DEF ThreadB
  <1>2. /\ ~AStored /\ ~AStored' /\ (BStored' <=> BStored)
        /\ idx = 1 /\ idx' = 1
    BY <1>1 DEF AStored, BStored, ThreadA
  <1>3. it'["B"] = it["B"]
    BY <1>1
  <1>4. Pointers' /\ HeadOK' /\ FreedOK'
    BY <1>2 DEF Pointers, HeadOK, FreedOK
  <1>5. ThreadB'
    BY <1>1, <1>2, <1>3 DEF ThreadB
  <1>6. ThreadA'
    BY <1>1, <1>2 DEF ThreadA, Pointers, Walking, HeadOK
  <1>7. Outcome' /\ Apart'
    BY <1>1, <1>2 DEF Outcome, Apart, Removing, ThreadA, ThreadB, HeadOK, Walking, Pointers
  <1> QED
    BY <1>4, <1>5, <1>6, <1>7

\* A walk that ends has met its node.
LEMMA WalkEndInv ==
    ASSUME ListInv, TypeOK', NEW t \in Threads, WalkEnd(t)
    PROVE  ListInv'
  <1> USE ListAssumption DEF WalkEnd, ListInv, TypeOK, At, Goto, Threads, Ref, Nodes, NULL,
                             Succ, AStored, BStored, Victim
  <1>1. Pointers' /\ HeadOK' /\ FreedOK'
    BY DEF Pointers, HeadOK, FreedOK, ThreadA, ThreadB, MayPrecede, Walking
  <1>2. ThreadA' /\ ThreadB'
    BY DEF ThreadB, ThreadA, Pointers, HeadOK, MayPrecede, Walking
  <1>3. Outcome' /\ Apart'
    BY DEF Outcome, Apart, ThreadA, ThreadB, HeadOK, Walking, Pointers, Removing, MayPrecede,
           Sound, Touches, FreedOK
  <1> QED
    BY <1>1, <1>2, <1>3

\* What is loaded is the node behind the one to remove.
LEMMA LoadInv ==
    ASSUME ListInv, TypeOK', NEW t \in Threads, Load(t)
    PROVE  ListInv'
  <1> USE ListAssumption DEF Load, ListInv, TypeOK, At, Goto, Threads, Ref, Nodes, NULL, Succ,
                             AStored, BStored, Victim
  <1>1. Pointers' /\ HeadOK' /\ FreedOK'
    BY SMTT(20) DEF Pointers, HeadOK, FreedOK, ThreadA, ThreadB, MayPrecede, Walking
  <1>2. ThreadA' /\ ThreadB'
    BY DEF ThreadB, ThreadA, Pointers, HeadOK, MayPrecede, Walking
  <1>3. Outcome' /\ Apart'
    BY SMTT(20) DEF Outcome, Apart, ThreadA, ThreadB, HeadOK, Walking, Pointers, Removing,
                    MayPrecede,
           Sound, Touches, FreedOK
  <1> QED
    BY <1>1, <1>2, <1>3

\* The one step that changes the list.
LEMMA StoreInv ==
    ASSUME ListInv, TypeOK', NEW t \in Threads, Store(t)
    PROVE  ListInv'
  <1> USE ListAssumption DEF Store, ListInv, TypeOK, At, Goto, Threads, Ref, Nodes, NULL, Succ,
                             AStored, BStored, Victim
  <1>1. Pointers' /\ HeadOK' /\ FreedOK'
    BY DEF Pointers, HeadOK, FreedOK, ThreadA, ThreadB, MayPrecede, Walking
  <1>2. ThreadA' /\ ThreadB'
    BY DEF ThreadB, ThreadA, Pointers, HeadOK, MayPrecede, Walking
  <1>3. Outcome' /\ Apart'
    BY DEF Outcome, Apart, ThreadA, ThreadB, HeadOK, Walking, Pointers, Removing, MayPrecede,
           Sound, Touches, FreedOK
  <1> QED
    BY <1>1, <1>2, <1>3

\* The node is unlinked; what is behind it is read again.
LEMMA TakeInv ==
    ASSUME ListInv, TypeOK', NEW t \in Threads, Take(t)
    PROVE  ListInv'
  <1> USE ListAssumption DEF Take, ListInv, TypeOK, At, Goto, Threads, Ref, Nodes, NULL, Succ,
                             AStored, BStored, Victim
  <1>1. Pointers' /\ FreedOK'
    BY DEF Pointers, FreedOK, ThreadA, ThreadB
  <1>2. HeadOK' /\ ThreadB'
    BY DEF HeadOK, ThreadA, ThreadB, MayPrecede
  <1>3. ThreadA'
    BY SMTT(20) DEF ThreadA, Pointers, MayPrecede, Walking, HeadOK
  <1>4. Outcome' /\ Apart'
    BY DEF Outcome, Apart, Removing, ThreadA, ThreadB, HeadOK, Walking, Pointers, MayPrecede
  <1> QED
    BY <1>1, <1>2, <1>3, <1>4

\* The node is freed, and the iterator moves on.
LEMMA FreeInv ==
    ASSUME ListInv, TypeOK', NEW t \in Threads, Free(t)
    PROVE  ListInv'
  <1> USE ListAssumption DEF Free, ListInv, TypeOK, At, Goto, Threads, Ref, Nodes, NULL, Succ,
                             AStored, BStored, Victim
  <1>1. Pointers' /\ HeadOK' /\ FreedOK'
    BY SMTT(20) DEF Pointers, HeadOK, FreedOK, ThreadA, ThreadB, MayPrecede, Walking
  <1>2. ThreadA' /\ ThreadB'
    BY DEF ThreadB, ThreadA, Pointers, HeadOK, MayPrecede, Walking
  <1>3. Outcome' /\ Apart'
    BY DEF Outcome, Apart, ThreadA, ThreadB, HeadOK, Walking, Pointers, Removing, MayPrecede,
           Sound, Touches, FreedOK
  <1> QED
    BY <1>1, <1>2, <1>3

\* A step of nobody.
LEMMA UnchangedInv ==
    ASSUME ListInv, UNCHANGED vars
    PROVE  ListInv'
  BY DEF vars, ListInv, TypeOK, Pointers, HeadOK, FreedOK, ThreadA, ThreadB, Outcome, Apart,
         Removing,
         AStored, BStored, Victim, MayPrecede, Walking

\* Thread B's assertion, after its removal.
LEMMA AssertInv ==
    ASSUME ListInv, TypeOK', Assert
    PROVE  ListInv'
  <1> USE ListAssumption DEF Assert, ListInv, TypeOK, At, Goto, Threads, Ref, Nodes, NULL, Succ,
                             AStored, BStored, Victim
  <1>1. Pointers' /\ HeadOK' /\ FreedOK'
    BY DEF Pointers, HeadOK, FreedOK, ThreadA, ThreadB, MayPrecede, Walking
  <1>2. ThreadA' /\ ThreadB'
    BY DEF ThreadB, ThreadA, Pointers, HeadOK, MayPrecede, Walking
  <1>3. Outcome' /\ Apart'
    BY DEF Outcome, Apart, ThreadA, ThreadB, HeadOK, Walking, Pointers, Removing, MayPrecede,
           Sound, Touches, FreedOK
  <1> QED
    BY <1>1, <1>2, <1>3

\* A freed node is touched: thread A's doing is not needed, thread B's is.
LEMMA MisuseInv ==
    ASSUME ListInv, TypeOK', NEW t \in Threads, Misuse(t)
    PROVE  ListInv'
  <1> USE ListAssumption DEF Misuse, ListInv, TypeOK, At, Goto, Threads, Ref, Nodes, NULL, Succ,
                             AStored, BStored, Victim
  <1>1. Pointers' /\ HeadOK' /\ FreedOK'
    BY DEF Pointers, HeadOK, FreedOK, ThreadA, ThreadB, MayPrecede, Walking
  <1>2. ThreadA' /\ ThreadB'
    BY DEF ThreadB, ThreadA, Pointers, HeadOK, MayPrecede, Walking
  <1>3. Outcome' /\ Apart'
    BY DEF Outcome, Apart, ThreadA, ThreadB, HeadOK, Walking, Pointers, Removing, MayPrecede,
           Sound, Touches, FreedOK
  <1> QED
    BY <1>1, <1>2, <1>3

\* Every step of either thread keeps the invariant.
LEMMA ListStep == ListInv /\ [Next]_vars => ListInv'
  <1> SUFFICES ASSUME ListInv, [Next]_vars PROVE ListInv'
    OBVIOUS
  <1>1. TypeOK'
    BY TypesKept
  <1>2. CASE Next
    BY <1>1, <1>2, BeginInv, TestInv, IterNextInv, RemoveBeginInv, WalkOnInv, WalkEndInv,
       LoadInv, StoreInv, TakeInv, FreeInv, AssertInv, MisuseInv, UnchangedInv
    DEF Next, A, B, Remove, Over, Threads
  <1> QED
    BY <1>1, <1>2, UnchangedInv

\* So the invariant always holds.
LEMMA ListInvariance == Spec => []ListInv
  BY ListInit, ListStep, PTL DEF Spec

\* The iterator that removes is never the one that breaks itself.
THEOREM RemovalAloneIsSafe == Spec => []AloneIsSafe
  <1>1. ListInv => AloneIsSafe
    BY DEF ListInv, Outcome, ThreadB, AloneIsSafe, Threads, Removing
  <1> QED
    BY <1>1, ListInvariance, PTL

----------------------------------------------------------------------------
\* Every set of natural numbers has a least element: induction, in the form the provers
\* can use.
LEMMA LeastElement ==
    ASSUME NEW S, S \subseteq Nat, S # {}
    PROVE  \E m \in S : \A n \in S : m <= n
  <1> DEFINE Family == {S \cap 0..n : n \in S}
  <1>1. \A n \in S : IsFiniteSet(0..n)
    BY FS_Interval
  <1>2. \A T \in Family : IsFiniteSet(T) /\ T \subseteq Nat
    BY <1>1, FS_Intersection
  <1>3. Family \subseteq FiniteSubsetsOf(Nat) /\ Family # {}
    BY <1>2 DEF FiniteSubsetsOf
  <1>4. PICK T \in Family : \A U \in Family : <<U, T>> \notin StrictSubsetOrdering(Nat)
    BY <1>3, FS_StrictSubsetOrderingWellFounded, WFMin
  <1>5. PICK m \in S : T = S \cap 0..m
    BY <1>4
  <1>6. ASSUME NEW n \in S, n < m PROVE FALSE
    <2>1. S \cap 0..n \in Family /\ S \cap 0..n \subseteq T /\ S \cap 0..n # T
      BY <1>6, <1>5
    <2> QED
      BY <2>1, <1>4 DEF StrictSubsetOrdering
  <1> QED
    BY <1>6

\* The nodes neither thread has unlinked.
Linked == {n \in Nodes : ~(BStored /\ n = 1) /\ ~(AStored /\ n = Victim)}

\* While the removals have not overlapped the head and the pointers stay among them,
LEMMA LinkedClosed == ListInv /\ ~overlap => Closed(Linked)
  <1> SUFFICES ASSUME ListInv, ~overlap PROVE Closed(Linked)
    OBVIOUS
  <1> USE ListAssumption DEF Nodes, NULL, Succ, Victim
  <1>1. AStored => MayPrecede(it["A"].prev) /\ Victim \in Nodes
    BY DEF ListInv, ThreadA, AStored, TypeOK, Ref, Threads
  <1>2. head # NULL => head \in Linked
    BY <1>1 DEF ListInv, HeadOK, Linked, Apart, MayPrecede
  <1>3. \A n \in Linked : next[n] # NULL => next[n] \in Linked
    BY <1>1 DEF ListInv, Pointers, Linked, MayPrecede
  <1> QED
    BY <1>2, <1>3 DEF Closed

\* and each of them is the head or follows one before it.
LEMMA LinkedReached ==
    ASSUME ListInv, ~overlap, NEW m \in Linked
    PROVE  m = head \/ \E k \in Linked : k < m /\ next[k] = m
  <1> USE ListAssumption DEF Nodes, NULL, Succ, Victim
  <1>1. AStored => MayPrecede(it["A"].prev) /\ Victim \in Nodes
    BY DEF ListInv, ThreadA, AStored, TypeOK, Ref, Threads
  <1>2. CASE m - 1 \in Linked
    BY <1>1, <1>2 DEF ListInv, Pointers, Linked, MayPrecede
  <1>3. CASE m = 1
    BY <1>3 DEF ListInv, HeadOK, Linked
  <1>4. CASE m - 1 \in Nodes \ Linked
    <2>1. CASE AStored /\ m - 1 = Victim
      BY <1>1, <2>1 DEF ListInv, HeadOK, Apart, Pointers, Linked, MayPrecede
    <2>2. CASE BStored /\ m = 2
      BY <1>1, <2>2 DEF ListInv, HeadOK, Linked, MayPrecede
    <2> QED
      BY <1>4, <2>1, <2>2 DEF Linked
  <1> QED
    BY <1>2, <1>3, <1>4 DEF Linked

\* So they are what the list holds.
LEMMA ListedIsLinked == ListInv /\ ~overlap => Listed = Linked
  <1> SUFFICES ASSUME ListInv, ~overlap PROVE Listed = Linked
    OBVIOUS
  <1>1. Linked \in SUBSET Nodes
    BY DEF Linked
  <1>2. Listed \subseteq Linked
    BY <1>1, LinkedClosed DEF Listed
  <1>3. ASSUME NEW S \in SUBSET Nodes, Closed(S), NEW n \in Linked \ S
        PROVE FALSE
    <2>1. Linked \ S \subseteq Nat
      BY <1>1 DEF Nodes
    <2>2. PICK m \in Linked \ S : \A k \in Linked \ S : m <= k
      BY <1>3, <2>1, LeastElement
    <2>3. m # head
      BY <1>1, <1>3, <2>2 DEF Closed, Nodes, NULL
    <2>4. PICK k \in Linked : k < m /\ next[k] = m
      BY <2>2, <2>3, LinkedReached
    <2>5. k \in S
      BY <2>1, <2>2, <2>4, <1>1 DEF Nodes
    <2> QED
      BY <1>1, <1>3, <2>2, <2>4, <2>5 DEF Closed, Nodes, NULL
  <1> QED
    BY <1>1, <1>2, <1>3 DEF Listed

\* As long as the removals have not overlapped, the list holds no freed node and has lost
\* none but the ones under removal.
THEOREM ListStaysIntact == Spec => []ListIntact
  <1>1. ListInv => ListIntact
    <2> SUFFICES ASSUME ListInv, ~overlap
                 PROVE  /\ Listed \cap freed = {}
                        /\ \A n \in Nodes \ (Listed \cup freed) :
                              \E t \in Threads : pc[t] \in {"take", "free"} /\ n = it[t].curr
      BY DEF ListIntact
    <2>1. Listed = Linked
      BY ListedIsLinked
    <2>2. Listed \cap freed = {}
      BY <2>1 DEF ListInv, FreedOK, Linked, AStored, BStored
    <2>3. ASSUME NEW n \in Nodes \ (Listed \cup freed)
          PROVE  \E t \in Threads : pc[t] \in {"take", "free"} /\ n = it[t].curr
      <3>1. CASE BStored /\ n = 1
        BY <2>3, <3>1 DEF ListInv, FreedOK, BStored, ThreadB, Threads
      <3>2. CASE AStored /\ n = Victim
        BY <2>3, <3>2 DEF ListInv, FreedOK, AStored, ThreadA, Threads
      <3> QED
        BY <2>1, <2>3, <3>1, <3>2 DEF Linked
    <2> QED
      BY <2>2, <2>3
  <1> QED
    BY <1>1, ListInvariance, PTL

----------------------------------------------------------------------------
(***************************************************************************)
(* kh: what survives its unguarded counters.  The head chef's test and his *)
(* taking are apart, and any store may overwrite another's; still he is    *)
(* the only one who takes.                                                 *)
(***************************************************************************)

\* A sous chef who counts a portion has one still to count, and what he loaded is not more
\* than he has made.
SousCounts ==
    \A x \in Kitchen!Ingredients :
        /\ Kitchen!SousAt(x, "load") \/ Kitchen!SousAt(x, "store") => sous[x].i < NumMeals
        /\ Kitchen!SousAt(x, "store") => sous[x].tmp \in 0..sous[x].i

\* What the head chef loaded was there to take; he tests and serves only while meals are
\* wanted; he begins each round of taking at the first, and is not born before rordon
\* creates him.
HeadKeepsCount ==
    /\ Kitchen!HeadAt("store") => chef.tmp \in 1..sous[Kitchen!TakeOrder[chef.k]].i
    /\ Kitchen!HeadAt("test") \/ Kitchen!HeadAt("serve") => mealsReady < NumMeals
    /\ Kitchen!HeadAt("serve") => chef.k = 1
    /\ rordon = "create" => Kitchen!HeadAt("unborn")

\* He has taken one portion of each for every meal announced, but for those of this round
\* that he has not come to.
ServedAlong ==
    \A j \in 1..3 :
        served[Kitchen!TakeOrder[j]] =
            IF (Kitchen!HeadAt("load") \/ Kitchen!HeadAt("store")) /\ j >= chef.k
            THEN mealsReady - 1 ELSE mealsReady

\* What the head chef was promised survives every step, with the reasons it does.
KitchenInv ==
    /\ Kitchen!TestedPortionsStay
    /\ SousCounts
    /\ HeadKeepsCount
    /\ ServedAlong
    /\ Kitchen!ExactUnlessLost

\* Every ingredient is tested once and taken once.
LEMMA Orders ==
    /\ Kitchen!TestOrder[1] = "herbs"
    /\ Kitchen!TestOrder[2] = "stock"
    /\ Kitchen!TestOrder[3] = "wine"
    /\ Kitchen!TakeOrder[1] = "wine"
    /\ Kitchen!TakeOrder[2] = "stock"
    /\ Kitchen!TakeOrder[3] = "herbs"
  BY DEF Kitchen!TestOrder, Kitchen!TakeOrder

\* Both orders go through all the ingredients, and taking comes to none of them twice.
LEMMA TakenInOrder ==
    /\ \A j \in 1..3 : /\ Kitchen!TestOrder[j] \in Kitchen!Ingredients
                       /\ Kitchen!TakeOrder[j] \in Kitchen!Ingredients
    /\ \A x \in Kitchen!Ingredients : \E j \in 1..3 : Kitchen!TestOrder[j] = x
    /\ \A x \in Kitchen!Ingredients : \E j \in 1..3 : Kitchen!TakeOrder[j] = x
    /\ \A j, k \in 1..3 : Kitchen!TakeOrder[j] = Kitchen!TakeOrder[k] => j = k
  BY Orders DEF Kitchen!Ingredients

\* There is a meal to cook, and main_chef's garbage is one of the two kinds.
LEMMA KitchenConstants == Kitchen!KitchenAssumption
  BY MCConcurrentAssumption

\* Before rordon starts, nothing is made and nothing is taken.
LEMMA InitKitchen == Kitchen!Init => KitchenInv
  <1> SUFFICES ASSUME Kitchen!Init PROVE KitchenInv
    OBVIOUS
  <1>1. Kitchen!TypeOK
    <2>1. \A x \in Kitchen!Ingredients : done[x] <= sous[x].i
      BY DEF Kitchen!Init
    <2>2. sous \in [Kitchen!Ingredients -> [pc : {"unborn", "prep", "load", "store", "exit"},
                                    i : 0 .. NumMeals, tmp : Int]]
      BY KitchenConstants DEF Kitchen!KitchenAssumption, Kitchen!Init
    <2>3. mealsReady \in 0 .. NumMeals /\ served \in [Kitchen!Ingredients -> 0 .. NumMeals]
      BY KitchenConstants DEF Kitchen!KitchenAssumption, Kitchen!Init
    <2>4. done \in [Kitchen!Ingredients -> Nat] /\ lost \in BOOLEAN
      BY DEF Kitchen!Init
    <2>5. chef \in [pc : {"unborn", "create", "loop", "test", "serve", "load", "store", "join",
                          "exit"},
                    k : 1 .. 3, tmp : Int]
      BY DEF Kitchen!Init
    <2>6. QED
      BY <2>1, <2>2, <2>3, <2>4, <2>5 DEF Kitchen!Init, Kitchen!TypeOK
  <1>2. Kitchen!TestedPortionsStay
    BY <1>1 DEF Kitchen!Init, Kitchen!TestedPortionsStay, Kitchen!HeadAt
  <1>3. SousCounts /\ HeadKeepsCount
    BY DEF Kitchen!Init, SousCounts, HeadKeepsCount, Kitchen!SousAt, Kitchen!HeadAt
  <1>4. ServedAlong
    BY TakenInOrder DEF Kitchen!Init, ServedAlong, Kitchen!HeadAt
  <1>5. Kitchen!ExactUnlessLost
    BY DEF Kitchen!Init, Kitchen!ExactUnlessLost
  <1>6. QED
    BY <1>2, <1>3, <1>4, <1>5 DEF KitchenInv

\* A sous chef goes on to the next portion, or out.
LEMMA SousPrepKeeps ==
    ASSUME KitchenInv, NEW x \in Kitchen!Ingredients, Kitchen!SousPrep(x)
    PROVE  KitchenInv'
  <1> USE DEF Kitchen!SousPrep, Kitchen!SousAt, Kitchen!HeadAt
  <1>1. Kitchen!TypeOK'
    BY KitchenConstants, TakenInOrder DEF Kitchen!KitchenAssumption, KitchenInv,
                                          Kitchen!TestedPortionsStay, Kitchen!TypeOK, SousCounts,
                                          HeadKeepsCount, ServedAlong
  <1>2. Kitchen!TestedPortionsStay'
    BY <1>1, TakenInOrder, Orders DEF KitchenInv, Kitchen!TestedPortionsStay, Kitchen!TypeOK,
                                      SousCounts, Kitchen!Ingredients
  <1>3. SousCounts'
    BY TakenInOrder DEF KitchenInv, Kitchen!TestedPortionsStay, Kitchen!TypeOK, SousCounts
  <1>4. HeadKeepsCount'
    BY TakenInOrder DEF KitchenInv, Kitchen!TestedPortionsStay, Kitchen!TypeOK, SousCounts,
                        HeadKeepsCount
  <1>5. ServedAlong'
    BY TakenInOrder DEF KitchenInv, Kitchen!TestedPortionsStay, Kitchen!TypeOK, HeadKeepsCount,
                        ServedAlong
  <1>6. Kitchen!ExactUnlessLost'
    BY TakenInOrder DEF KitchenInv, Kitchen!TestedPortionsStay, Kitchen!TypeOK, HeadKeepsCount,
                        ServedAlong, Kitchen!ExactUnlessLost
  <1>7. QED
    BY <1>2, <1>3, <1>4, <1>5, <1>6 DEF KitchenInv

\* What he loads is not more than he has made.
LEMMA SousLoadKeeps ==
    ASSUME KitchenInv, NEW x \in Kitchen!Ingredients, Kitchen!SousLoad(x)
    PROVE  KitchenInv'
  <1> USE DEF Kitchen!SousLoad, Kitchen!SousAt, Kitchen!HeadAt
  <1>1. Kitchen!TypeOK'
    <2>1. Kitchen!TypeOK
      BY DEF KitchenInv, Kitchen!TestedPortionsStay
    <2>2. done[x] \in Int
      BY <2>1 DEF Kitchen!TypeOK
    <2>3. sous' \in [Kitchen!Ingredients -> [pc : {"unborn", "prep", "load", "store", "exit"},
                                     i : 0 .. NumMeals, tmp : Int]]
      BY <2>1, <2>2 DEF Kitchen!TypeOK
    <2>4. \A y \in Kitchen!Ingredients : done'[y] <= sous'[y].i
      BY <2>1 DEF Kitchen!TypeOK
    <2>5. QED
      BY <2>1, <2>3, <2>4 DEF Kitchen!TypeOK
  <1>2. Kitchen!TestedPortionsStay'
    BY <1>1, TakenInOrder, Orders DEF KitchenInv, Kitchen!TestedPortionsStay, Kitchen!TypeOK,
                                      SousCounts, Kitchen!Ingredients
  <1>3. SousCounts'
    BY TakenInOrder DEF KitchenInv, Kitchen!TestedPortionsStay, Kitchen!TypeOK, SousCounts
  <1>4. HeadKeepsCount'
    BY TakenInOrder DEF KitchenInv, Kitchen!TestedPortionsStay, Kitchen!TypeOK, SousCounts,
                        HeadKeepsCount
  <1>5. ServedAlong'
    BY TakenInOrder DEF KitchenInv, Kitchen!TestedPortionsStay, Kitchen!TypeOK, HeadKeepsCount,
                        ServedAlong
  <1>6. Kitchen!ExactUnlessLost'
    BY TakenInOrder DEF KitchenInv, Kitchen!TestedPortionsStay, Kitchen!TypeOK, HeadKeepsCount,
                        ServedAlong, Kitchen!ExactUnlessLost
  <1>7. QED
    BY <1>2, <1>3, <1>4, <1>5, <1>6 DEF KitchenInv

\* His store never leaves the counter at zero, whatever it overwrites.
LEMMA SousStoreKeeps ==
    ASSUME KitchenInv, NEW x \in Kitchen!Ingredients, Kitchen!SousStore(x)
    PROVE  KitchenInv'
  <1> USE DEF Kitchen!SousStore, Kitchen!SousAt, Kitchen!HeadAt
  <1>1. Kitchen!TypeOK'
    BY KitchenConstants, TakenInOrder DEF Kitchen!KitchenAssumption, KitchenInv,
                                          Kitchen!TestedPortionsStay, Kitchen!TypeOK, SousCounts,
                                          HeadKeepsCount, ServedAlong
  <1>2. Kitchen!TestedPortionsStay'
    BY <1>1, TakenInOrder, Orders DEF KitchenInv, Kitchen!TestedPortionsStay, Kitchen!TypeOK,
                                      SousCounts, Kitchen!Ingredients
  <1>3. SousCounts'
    BY TakenInOrder DEF KitchenInv, Kitchen!TestedPortionsStay, Kitchen!TypeOK, SousCounts
  <1>4. HeadKeepsCount'
    BY TakenInOrder DEF KitchenInv, Kitchen!TestedPortionsStay, Kitchen!TypeOK, SousCounts,
                        HeadKeepsCount
  <1>5. ServedAlong'
    BY TakenInOrder DEF KitchenInv, Kitchen!TestedPortionsStay, Kitchen!TypeOK, HeadKeepsCount,
                        ServedAlong
  <1>6. Kitchen!ExactUnlessLost'
    BY TakenInOrder DEF KitchenInv, Kitchen!TestedPortionsStay, Kitchen!TypeOK, HeadKeepsCount,
                        ServedAlong, Kitchen!ExactUnlessLost
  <1>7. QED
    BY <1>2, <1>3, <1>4, <1>5, <1>6 DEF KitchenInv

\* Creating a sous chef touches no counter.
LEMMA HeadCreateKeeps ==
    ASSUME KitchenInv, Kitchen!HeadCreate
    PROVE  KitchenInv'
  <1> USE DEF Kitchen!HeadCreate, Kitchen!SousAt, Kitchen!HeadAt
  <1>1. Kitchen!TypeOK'
    BY KitchenConstants, TakenInOrder DEF Kitchen!KitchenAssumption, KitchenInv,
                                          Kitchen!TestedPortionsStay, Kitchen!TypeOK, SousCounts,
                                          HeadKeepsCount, ServedAlong
  <1>2. Kitchen!TestedPortionsStay'
    BY <1>1, TakenInOrder, Orders DEF KitchenInv, Kitchen!TestedPortionsStay, Kitchen!TypeOK,
                                      SousCounts, Kitchen!Ingredients
  <1>3. SousCounts'
    BY TakenInOrder DEF KitchenInv, Kitchen!TestedPortionsStay, Kitchen!TypeOK, SousCounts
  <1>4. HeadKeepsCount'
    BY TakenInOrder DEF KitchenInv, Kitchen!TestedPortionsStay, Kitchen!TypeOK, SousCounts,
                        HeadKeepsCount
  <1>5. ServedAlong'
    BY TakenInOrder DEF KitchenInv, Kitchen!TestedPortionsStay, Kitchen!TypeOK, HeadKeepsCount,
                        ServedAlong
  <1>6. Kitchen!ExactUnlessLost'
    BY TakenInOrder DEF KitchenInv, Kitchen!TestedPortionsStay, Kitchen!TypeOK, HeadKeepsCount,
                        ServedAlong, Kitchen!ExactUnlessLost
  <1>7. QED
    BY <1>2, <1>3, <1>4, <1>5, <1>6 DEF KitchenInv

\* The loop begins a round of tests while meals are wanted.
LEMMA HeadLoopKeeps ==
    ASSUME KitchenInv, Kitchen!HeadLoop
    PROVE  KitchenInv'
  <1> USE DEF Kitchen!HeadLoop, Kitchen!SousAt, Kitchen!HeadAt
  <1>1. Kitchen!TypeOK'
    <2>1. Kitchen!TypeOK
      BY DEF KitchenInv, Kitchen!TestedPortionsStay
    <2>2. chef' \in [pc : {"unborn", "create", "loop", "test", "serve", "load", "store", "join",
                           "exit"},
                     k : 1 .. 3, tmp : Int]
      BY <2>1 DEF Kitchen!TypeOK
    <2>3. QED
      BY <2>1, <2>2 DEF Kitchen!TypeOK
  <1>2. Kitchen!TestedPortionsStay'
    BY <1>1, TakenInOrder, Orders DEF KitchenInv, Kitchen!TestedPortionsStay, Kitchen!TypeOK,
                                      SousCounts, Kitchen!Ingredients
  <1>3. SousCounts'
    BY TakenInOrder DEF KitchenInv, Kitchen!TestedPortionsStay, Kitchen!TypeOK, SousCounts
  <1>4. HeadKeepsCount'
    BY TakenInOrder DEF KitchenInv, Kitchen!TestedPortionsStay, Kitchen!TypeOK, SousCounts,
                        HeadKeepsCount
  <1>5. ServedAlong'
    BY TakenInOrder DEF KitchenInv, Kitchen!TestedPortionsStay, Kitchen!TypeOK, HeadKeepsCount,
                        ServedAlong
  <1>6. Kitchen!ExactUnlessLost'
    BY TakenInOrder DEF KitchenInv, Kitchen!TestedPortionsStay, Kitchen!TypeOK, HeadKeepsCount,
                        ServedAlong, Kitchen!ExactUnlessLost
  <1>7. QED
    BY <1>2, <1>3, <1>4, <1>5, <1>6 DEF KitchenInv

\* A test found above zero stays so until he takes: nobody else takes.
LEMMA HeadTestKeeps ==
    ASSUME KitchenInv, Kitchen!HeadTest
    PROVE  KitchenInv'
  <1> USE DEF Kitchen!HeadTest, Kitchen!SousAt, Kitchen!HeadAt
  <1>1. Kitchen!TypeOK'
    <2>1. Kitchen!TypeOK
      BY DEF KitchenInv, Kitchen!TestedPortionsStay
    <2>2. chef' \in [pc : {"unborn", "create", "loop", "test", "serve", "load", "store", "join",
                           "exit"},
                     k : 1 .. 3, tmp : Int]
      BY <2>1 DEF Kitchen!TypeOK
    <2>3. QED
      BY <2>1, <2>2 DEF Kitchen!TypeOK
  <1>2. Kitchen!TestedPortionsStay'
    BY <1>1, TakenInOrder, Orders DEF KitchenInv, Kitchen!TestedPortionsStay, Kitchen!TypeOK,
                                      SousCounts, Kitchen!Ingredients
  <1>3. SousCounts'
    BY TakenInOrder DEF KitchenInv, Kitchen!TestedPortionsStay, Kitchen!TypeOK, SousCounts
  <1>4. HeadKeepsCount'
    BY TakenInOrder DEF KitchenInv, Kitchen!TestedPortionsStay, Kitchen!TypeOK, SousCounts,
                        HeadKeepsCount
  <1>5. ServedAlong'
    BY TakenInOrder DEF KitchenInv, Kitchen!TestedPortionsStay, Kitchen!TypeOK, HeadKeepsCount,
                        ServedAlong
  <1>6. Kitchen!ExactUnlessLost'
    BY TakenInOrder DEF KitchenInv, Kitchen!TestedPortionsStay, Kitchen!TypeOK, HeadKeepsCount,
                        ServedAlong, Kitchen!ExactUnlessLost
  <1>7. QED
    BY <1>2, <1>3, <1>4, <1>5, <1>6 DEF KitchenInv

\* A meal is announced when one portion of each is there.
LEMMA HeadServeKeeps ==
    ASSUME KitchenInv, Kitchen!HeadServe
    PROVE  KitchenInv'
  <1> USE DEF Kitchen!HeadServe, Kitchen!SousAt, Kitchen!HeadAt
  <1>1. Kitchen!TypeOK'
    <2>1. Kitchen!TypeOK /\ mealsReady < NumMeals
      BY DEF KitchenInv, Kitchen!TestedPortionsStay, HeadKeepsCount
    <2>2. mealsReady' \in 0 .. NumMeals
      BY <2>1, KitchenConstants DEF Kitchen!KitchenAssumption, Kitchen!TypeOK
    <2>3. chef' \in [pc : {"unborn", "create", "loop", "test", "serve", "load", "store", "join",
                           "exit"},
                     k : 1 .. 3, tmp : Int]
      BY <2>1 DEF Kitchen!TypeOK
    <2> QED
      BY <2>1, <2>2, <2>3 DEF Kitchen!TypeOK
  <1>2. Kitchen!TestedPortionsStay'
    BY <1>1, TakenInOrder, Orders DEF KitchenInv, Kitchen!TestedPortionsStay, Kitchen!TypeOK,
                                      SousCounts, Kitchen!Ingredients
  <1>3. SousCounts'
    BY TakenInOrder DEF KitchenInv, Kitchen!TestedPortionsStay, Kitchen!TypeOK, SousCounts
  <1>4. HeadKeepsCount'
    BY TakenInOrder DEF KitchenInv, Kitchen!TestedPortionsStay, Kitchen!TypeOK, SousCounts,
                        HeadKeepsCount
  <1>5. ServedAlong'
    BY SMTT(20), TakenInOrder DEF KitchenInv, Kitchen!TestedPortionsStay, Kitchen!TypeOK,
                                  HeadKeepsCount,
                        ServedAlong
  <1>6. Kitchen!ExactUnlessLost'
    BY TakenInOrder DEF KitchenInv, Kitchen!TestedPortionsStay, Kitchen!TypeOK, HeadKeepsCount,
                        ServedAlong, Kitchen!ExactUnlessLost
  <1>7. QED
    BY <1>2, <1>3, <1>4, <1>5, <1>6 DEF KitchenInv

\* What he loads is a portion he has tested.
LEMMA HeadLoadKeeps ==
    ASSUME KitchenInv, Kitchen!HeadLoad
    PROVE  KitchenInv'
  <1> USE DEF Kitchen!HeadLoad, Kitchen!SousAt, Kitchen!HeadAt
  <1>1. Kitchen!TypeOK'
    <2>1. Kitchen!TypeOK
      BY DEF KitchenInv, Kitchen!TestedPortionsStay
    <2>2. chef' \in [pc : {"unborn", "create", "loop", "test", "serve", "load", "store", "join",
                           "exit"},
                     k : 1 .. 3, tmp : Int]
      BY <2>1, TakenInOrder DEF Kitchen!TypeOK
    <2>3. QED
      BY <2>1, <2>2 DEF Kitchen!TypeOK
  <1>2. Kitchen!TestedPortionsStay'
    BY <1>1, TakenInOrder, Orders DEF KitchenInv, Kitchen!TestedPortionsStay, Kitchen!TypeOK,
                                      SousCounts, Kitchen!Ingredients
  <1>3. SousCounts'
    BY TakenInOrder DEF KitchenInv, Kitchen!TestedPortionsStay, Kitchen!TypeOK, SousCounts
  <1>4. HeadKeepsCount'
    BY TakenInOrder DEF KitchenInv, Kitchen!TestedPortionsStay, Kitchen!TypeOK, SousCounts,
                        HeadKeepsCount
  <1>5. ServedAlong'
    BY TakenInOrder DEF KitchenInv, Kitchen!TestedPortionsStay, Kitchen!TypeOK, HeadKeepsCount,
                        ServedAlong
  <1>6. Kitchen!ExactUnlessLost'
    BY TakenInOrder DEF KitchenInv, Kitchen!TestedPortionsStay, Kitchen!TypeOK, HeadKeepsCount,
                        ServedAlong, Kitchen!ExactUnlessLost
  <1>7. QED
    BY <1>2, <1>3, <1>4, <1>5, <1>6 DEF KitchenInv

\* He takes one, of a count above zero.
LEMMA HeadStoreKeeps ==
    ASSUME KitchenInv, Kitchen!HeadStore
    PROVE  KitchenInv'
  <1> USE DEF Kitchen!HeadStore, Kitchen!SousAt, Kitchen!HeadAt
  <1>1. Kitchen!TypeOK'
    BY KitchenConstants, TakenInOrder DEF Kitchen!KitchenAssumption, KitchenInv,
                                          Kitchen!TestedPortionsStay, Kitchen!TypeOK, SousCounts,
                                          HeadKeepsCount, ServedAlong
  <1>2. Kitchen!TestedPortionsStay'
    BY <1>1, TakenInOrder, Orders DEF KitchenInv, Kitchen!TestedPortionsStay, Kitchen!TypeOK,
                                      SousCounts, Kitchen!Ingredients
  <1>3. SousCounts'
    BY TakenInOrder DEF KitchenInv, Kitchen!TestedPortionsStay, Kitchen!TypeOK, SousCounts
  <1>4. HeadKeepsCount'
    BY TakenInOrder DEF KitchenInv, Kitchen!TestedPortionsStay, Kitchen!TypeOK, SousCounts,
                        HeadKeepsCount
  <1>5. ServedAlong'
    BY TakenInOrder DEF KitchenInv, Kitchen!TestedPortionsStay, Kitchen!TypeOK, HeadKeepsCount,
                        ServedAlong
  <1>6. Kitchen!ExactUnlessLost'
    <2>1. Kitchen!TypeOK /\ Kitchen!ExactUnlessLost
      BY DEF KitchenInv, Kitchen!TestedPortionsStay
    <2>2. PICK x \in Kitchen!Ingredients : x = Kitchen!TakeOrder[chef.k]
      BY <2>1, TakenInOrder DEF Kitchen!TypeOK
    <2>3. SUFFICES ASSUME ~lost', NEW y \in Kitchen!Ingredients
                   PROVE  done'[y] = sous'[y].i - served'[y] /\ mealsReady' <= sous'[y].i
      BY DEF Kitchen!ExactUnlessLost
    <2>4. ~lost /\ done[x] = chef.tmp
      BY <2>1, <2>2, <2>3 DEF Kitchen!TypeOK
    <2>5. done[y] = sous[y].i - served[y] /\ mealsReady <= sous[y].i
      BY <2>1, <2>4 DEF Kitchen!ExactUnlessLost
    <2>6. /\ done[y] \in Int /\ served[y] \in Int
          /\ sous[y] \in [pc : {"unborn", "prep", "load", "store", "exit"},
                          i : 0 .. NumMeals, tmp : Int]
      BY <2>1 DEF Kitchen!TypeOK
    <2>7. done' = [done EXCEPT ![x] = chef.tmp - 1] /\ served' = [served EXCEPT ![x] = @ + 1]
      BY <2>2
    <2>8. sous' = sous /\ mealsReady' = mealsReady
      OBVIOUS
    <2>9. CASE y = x
      BY <2>1, <2>4, <2>5, <2>6, <2>7, <2>8, <2>9 DEF Kitchen!TypeOK
    <2>10. CASE y # x
      BY <2>1, <2>5, <2>7, <2>8, <2>10 DEF Kitchen!TypeOK
    <2>11. QED
      BY <2>9, <2>10
  <1>7. QED
    BY <1>2, <1>3, <1>4, <1>5, <1>6 DEF KitchenInv

\* Joining changes no counter.
LEMMA HeadJoinKeeps ==
    ASSUME KitchenInv, Kitchen!HeadJoin
    PROVE  KitchenInv'
  <1> USE DEF Kitchen!HeadJoin, Kitchen!SousAt, Kitchen!HeadAt
  <1>1. Kitchen!TypeOK'
    BY KitchenConstants, TakenInOrder DEF Kitchen!KitchenAssumption, KitchenInv,
                                          Kitchen!TestedPortionsStay, Kitchen!TypeOK, SousCounts,
                                          HeadKeepsCount, ServedAlong
  <1>2. Kitchen!TestedPortionsStay'
    BY <1>1, TakenInOrder, Orders DEF KitchenInv, Kitchen!TestedPortionsStay, Kitchen!TypeOK,
                                      SousCounts, Kitchen!Ingredients
  <1>3. SousCounts'
    BY TakenInOrder DEF KitchenInv, Kitchen!TestedPortionsStay, Kitchen!TypeOK, SousCounts
  <1>4. HeadKeepsCount'
    BY TakenInOrder DEF KitchenInv, Kitchen!TestedPortionsStay, Kitchen!TypeOK, SousCounts,
                        HeadKeepsCount
  <1>5. ServedAlong'
    BY TakenInOrder DEF KitchenInv, Kitchen!TestedPortionsStay, Kitchen!TypeOK, HeadKeepsCount,
                        ServedAlong
  <1>6. Kitchen!ExactUnlessLost'
    BY TakenInOrder DEF KitchenInv, Kitchen!TestedPortionsStay, Kitchen!TypeOK, HeadKeepsCount,
                        ServedAlong, Kitchen!ExactUnlessLost
  <1>7. QED
    BY <1>2, <1>3, <1>4, <1>5, <1>6 DEF KitchenInv

\* Rordon touches no counter.
LEMMA RordonKeeps ==
    ASSUME KitchenInv, Kitchen!Rordon
    PROVE  KitchenInv'
  <1> USE DEF Kitchen!Rordon, Kitchen!RordonCreate, Kitchen!RordonSeesMeals, Kitchen!RordonJoin,
          Kitchen!SousAt, Kitchen!HeadAt
  <1>1. Kitchen!TypeOK'
    BY KitchenConstants, TakenInOrder DEF Kitchen!KitchenAssumption, KitchenInv,
                                          Kitchen!TestedPortionsStay, Kitchen!TypeOK, SousCounts,
                                          HeadKeepsCount, ServedAlong
  <1>2. Kitchen!TestedPortionsStay'
    BY <1>1, TakenInOrder, Orders DEF KitchenInv, Kitchen!TestedPortionsStay, Kitchen!TypeOK,
                                      SousCounts, Kitchen!Ingredients
  <1>3. SousCounts'
    BY TakenInOrder DEF KitchenInv, Kitchen!TestedPortionsStay, Kitchen!TypeOK, SousCounts
  <1>4. HeadKeepsCount'
    BY TakenInOrder DEF KitchenInv, Kitchen!TestedPortionsStay, Kitchen!TypeOK, SousCounts,
                        HeadKeepsCount
  <1>5. ServedAlong'
    BY TakenInOrder DEF KitchenInv, Kitchen!TestedPortionsStay, Kitchen!TypeOK, HeadKeepsCount,
                        ServedAlong
  <1>6. Kitchen!ExactUnlessLost'
    BY TakenInOrder DEF KitchenInv, Kitchen!TestedPortionsStay, Kitchen!TypeOK, HeadKeepsCount,
                        ServedAlong, Kitchen!ExactUnlessLost
  <1>7. QED
    BY <1>2, <1>3, <1>4, <1>5, <1>6 DEF KitchenInv

\* Every step of every thread keeps the invariant.
LEMMA NextKitchen == KitchenInv /\ [Kitchen!Next]_(Kitchen!vars) => KitchenInv'
  <1> SUFFICES ASSUME KitchenInv, [Kitchen!Next]_(Kitchen!vars) PROVE KitchenInv'
    OBVIOUS
  <1>1. ASSUME NEW x \in Kitchen!Ingredients, Kitchen!SousChef(x) PROVE KitchenInv'
    BY <1>1, SousPrepKeeps, SousLoadKeeps, SousStoreKeeps DEF Kitchen!SousChef
  <1>2. CASE Kitchen!HeadChef
    BY <1>2, HeadCreateKeeps, HeadLoopKeeps, HeadTestKeeps, HeadServeKeeps, HeadLoadKeeps,
       HeadStoreKeeps, HeadJoinKeeps DEF Kitchen!HeadChef
  <1>3. CASE Kitchen!Rordon
    BY <1>3, RordonKeeps
  <1>4. CASE UNCHANGED Kitchen!vars
    BY <1>4 DEF Kitchen!vars, KitchenInv, Kitchen!TestedPortionsStay, Kitchen!TypeOK, SousCounts,
                HeadKeepsCount,
       ServedAlong, Kitchen!ExactUnlessLost, Kitchen!SousAt, Kitchen!HeadAt
  <1>5. QED
    BY <1>1, <1>2, <1>3, <1>4 DEF Kitchen!Next, Kitchen!Finished

\* So the kitchen's invariant holds throughout.
LEMMA KitchenInvariance == Kitchen!Spec => []KitchenInv
  BY InitKitchen, NextKitchen, PTL DEF Kitchen!Spec

\* What the head chef has tested, or not yet taken of it, is there, and no counter leaves its
\* range, however many updates are lost.
THEOREM PortionsStay == Kitchen!Spec => []TestedPortionsStay
  <1>1. KitchenInv => TestedPortionsStay
    BY DEF KitchenInv, TestedPortionsStay
  <1>2. QED
    BY KitchenInvariance, <1>1, PTL

\* While no update is lost the counters are exact and every meal is backed by a portion.
THEOREM CountsExact == Kitchen!Spec => []ExactUnlessLost
  <1>1. KitchenInv => ExactUnlessLost
    BY DEF KitchenInv, ExactUnlessLost
  <1>2. QED
    BY KitchenInvariance, <1>1, PTL

----------------------------------------------------------------------------
\* Whichever program the run has chosen, its steps are that program's and the others stutter.
LEMMA Programs == ConcSpec => Spec /\ Friends!Spec /\ SigChild!Spec /\ Kitchen!Spec
<1>1. ConcInit => Init /\ Friends!Init /\ SigChild!Init /\ Kitchen!Init
    BY DEF ConcInit
<1>2. [ConcNext]_allvars
        => /\ [Next]_vars /\ [Friends!Next]_(Friends!vars)
           /\ [SigChild!Next]_(SigChild!vars) /\ [Kitchen!Next]_(Kitchen!vars)
    BY DEF ConcNext, List, Eating, Forking, Cooking, allvars, friends, sigchild, kitchen, vars,
           Friends!vars, SigChild!vars, Kitchen!vars
<1> QED
    BY <1>1, <1>2, PTL DEF ConcSpec, Spec, Friends!Spec, SigChild!Spec, Kitchen!Spec

\* Every safety property of the run, for every length of the list and every number of grapes,
\* of children and of meals.
THEOREM AllSafe ==
    ConcSpec => []( /\ AloneIsSafe /\ ListIntact /\ OneGrapeShort /\ NamesAZombie /\ Accounted
                    /\ TestedPortionsStay /\ ExactUnlessLost)
BY Programs, RemovalAloneIsSafe, ListStaysIntact, OverdraftIsOne, NeverBlocks, ZombiesAccounted,
   PortionsStay, CountsExact, PTL
============================================================================
