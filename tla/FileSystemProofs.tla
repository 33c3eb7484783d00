-------------------------- MODULE FileSystemProofs --------------------------
(***************************************************************************)
(* The tree of Tree.tla for every set of nodes, initial capacity and       *)
(* client: remove_child never reads past a node's array of children, and   *)
(* no child pointer dangles.  And the shell of FileSystem.tla is one of    *)
(* these clients, whose working directory is always a path of the tree,    *)
(* and whose nodes carry out the promise of Directory.tla.                 *)
(***************************************************************************)
EXTENDS FileSystem, SequenceTheorems, FiniteSetTheorems, WellFoundedInduction, TLAPS

\* A set of positions has a first one, and Min is it.
LEMMA MinIsFirst ==
    ASSUME NEW I, I \subseteq Nat, I # {}
    PROVE  Min(I) \in I /\ \A k \in I : Min(I) <= k
<1>1. PICK m \in I : \A k \in I : ~(<<k, m>> \in OpToRel(<, Nat))
    BY NatLessThanWellFounded, WFMin
<1>2. ASSUME NEW k \in I PROVE m =< k
  <2>1. k \in Nat /\ m \in Nat
    OBVIOUS
  <2>2. ~(<<k, m>> \in Nat \X Nat /\ k < m)
    BY <1>1, Zenon DEF OpToRel
  <2> QED
    BY <2>1, <2>2
<1> QED
    BY <1>2 DEF Min

\* Shifting down over one child leaves a list of children, one shorter.
LEMMA RemoveAtShortens ==
    ASSUME NEW S, NEW s \in Seq(S), NEW k \in 1 .. Len(s)
    PROVE  RemoveAt(s, k) \in Seq(S) /\ Len(RemoveAt(s, k)) = Len(s) - 1
<1>1. SubSeq(s, 1, k - 1) \in Seq(S) /\ Len(SubSeq(s, 1, k - 1)) = k - 1
    BY SubSeqProperties, ElementOfSeq
<1>2. SubSeq(s, k + 1, Len(s)) \in Seq(S) /\ Len(SubSeq(s, k + 1, Len(s))) = Len(s) - k
    BY SubSeqProperties, ElementOfSeq
<1> DEFINE front == SubSeq(s, 1, k - 1)
           back == SubSeq(s, k + 1, Len(s))
<1>3. RemoveAt(s, k) = front \o back
    BY DEF RemoveAt
<1>4. front \in Seq(S) /\ Len(front) = k - 1
    BY <1>1
<1>5. back \in Seq(S) /\ Len(back) = Len(s) - k
    BY <1>2
<1> HIDE DEF front, back
<1>6. front \o back \in Seq(S) /\ Len(front \o back) = Len(front) + Len(back)
    BY <1>4, <1>5, ConcatProperties
<1>7. Len(s) \in Nat
    BY LenProperties
<1> QED
    BY <1>3, <1>4, <1>5, <1>6, <1>7

\* remove_child's list is a list of children, and no longer than it was.
LEMMA RemoveFirstShortens ==
    ASSUME NEW S, NEW s \in Seq(S), NEW e
    PROVE  RemoveFirst(s, e) \in Seq(S) /\ Len(RemoveFirst(s, e)) <= Len(s)
<1> DEFINE I == {k \in 1 .. Len(s) : s[k] = e}
<1>1. CASE I = {}
    BY <1>1 DEF RemoveFirst
<1>2. CASE I # {}
  <2>1. Min(I) \in I
    <3>1. I \subseteq Nat
      OBVIOUS
    <3> HIDE DEF I
    <3> QED
      BY <1>2, <3>1, MinIsFirst
  <2>2. RemoveFirst(s, e) = RemoveAt(s, Min(I))
    BY <1>2 DEF RemoveFirst, SelectInSeq
  <2> QED
    BY <2>1, <2>2, RemoveAtShortens
<1> QED
    BY <1>1, <1>2

(***************************************************************************)
(* The inductive invariant is ShiftInBounds itself, with the types it      *)
(* speaks of: add_child takes an array for full while one slot is free, so *)
(* that slot is there after the child is stored.                           *)
(***************************************************************************)
Inv == TreeTypeOK /\ ShiftInBounds

\* The invariant holds initially: no child, and at least one slot.
LEMMA InitInv == TreeInit => Inv
BY TreeAssumption DEF TreeInit, Inv, TreeTypeOK, ShiftInBounds

\* The test of line 44 and the doubling: one more child, and one slot free behind it.
LEMMA GrowsInTime ==
    ASSUME NEW s \in Seq(Nodes), NEW t \in Seq(Nodes), NEW cap \in Nat \ {0},
           Len(s) <= cap - 1, Len(t) <= Len(s) + 1
    PROVE  LET new == IF Len(s) >= cap - 1 THEN 2 * cap ELSE cap
           IN  new \in Nat \ {0} /\ Len(t) <= new - 1
<1>1. ASSUME NEW a \in Nat, NEW b \in Nat, a <= cap - 1, b <= a + 1
      PROVE  LET new == IF a >= cap - 1 THEN 2 * cap ELSE cap
             IN  new \in Nat \ {0} /\ b <= new - 1
    BY <1>1
<1> QED
    BY <1>1, LenProperties

\* add_child, with room or without, or refused.
LEMMA AddInv == ASSUME Inv, NEW p, NEW n \in Nodes, AddNew(p, n) PROVE Inv'
<1>1. live' \subseteq Nodes
    BY DEF AddNew, Inv, TreeTypeOK
<1>2. \A m \in Nodes : /\ kids[m] \in Seq(Nodes) /\ Len(kids[m]) \in Nat
                       /\ capacity[m] \in Nat \ {0} /\ Len(kids[m]) <= capacity[m] - 1
    BY LenProperties DEF Inv, TreeTypeOK, ShiftInBounds
<1>3. CASE Attach(p, n)
  <2>1. ASSUME NEW m \in Nodes
        PROVE  /\ kids'[m] \in Seq(Nodes) /\ capacity'[m] \in Nat \ {0}
               /\ Len(kids'[m]) <= capacity'[m] - 1
    <3>1. CASE m = p
      <4>1. capacity'[m] = IF Len(kids[m]) >= capacity[m] - 1 THEN 2 * capacity[m] ELSE capacity[m]
        BY <1>3, <3>1 DEF Attach, Full, Inv, TreeTypeOK
      <4>2. kids'[m] = Append(kids[m], n) \/ kids'[m] = <<n>>
        BY <1>3, <3>1 DEF Attach, Inv, TreeTypeOK
      <4>3. kids'[m] \in Seq(Nodes) /\ Len(kids'[m]) <= Len(kids[m]) + 1
        <5>1. ASSUME NEW s \in Seq(Nodes)
              PROVE  /\ Append(s, n) \in Seq(Nodes) /\ Len(Append(s, n)) <= Len(s) + 1
                     /\ <<n>> \in Seq(Nodes) /\ Len(<<n>>) <= Len(s) + 1
          BY AppendProperties, LenProperties
        <5> QED
          BY <1>2, <4>2, <5>1, Zenon
      <4> QED
        BY <1>2, <4>1, <4>3, GrowsInTime, Zenon
    <3>2. CASE m # p
      <4>1. kids'[m] = kids[m] \/ kids'[m] = <<>>
        BY <1>3, <3>2 DEF Attach, Inv, TreeTypeOK
      <4>2. capacity'[m] = capacity[m]
        BY <1>3, <3>2 DEF Attach, Inv, TreeTypeOK
      <4>3. <<>> \in Seq(Nodes) /\ Len(<<>>) <= capacity[m] - 1
        BY <1>2
      <4> QED
        BY <1>2, <4>1, <4>2, <4>3, Zenon
    <3> QED
      BY <3>1, <3>2, Zenon
  <2>2. kids' = [m \in Nodes |-> kids'[m]] /\ capacity' = [m \in Nodes |-> capacity'[m]]
    BY <1>3 DEF Attach, Inv, TreeTypeOK
  <2>3. kids' \in [Nodes -> Seq(Nodes)] /\ capacity' \in [Nodes -> Nat \ {0}]
    BY <2>1, <2>2
  <2> QED
    BY <1>1, <2>1, <2>3 DEF Inv, TreeTypeOK, ShiftInBounds
<1>4. CASE Leak(p, n)
    BY <1>1, <1>4 DEF Leak, Inv, TreeTypeOK, ShiftInBounds
<1> QED
    BY <1>3, <1>4 DEF AddNew

\* destroy_tree: what is freed starts again from an empty array.
LEMMA DestroyTypes ==
    ASSUME Inv, NEW n, DestroyTree(n)
    PROVE  /\ live' \subseteq Nodes
           /\ capacity' \in [Nodes -> Nat \ {0}]
           /\ \A m \in Nodes : m \notin Subtree(n) => capacity'[m] = capacity[m]
BY TreeAssumption DEF Inv, TreeTypeOK, DestroyTree

\* remove_child: the parent's list shrinks, the removed subtree's lists are gone.
LEMMA RemoveInv == ASSUME Inv, NEW p, NEW c, RemoveChild(p, c) PROVE Inv'
<1>1. /\ live' \subseteq Nodes
      /\ capacity' \in [Nodes -> Nat \ {0}]
      /\ \A m \in Nodes : m \notin Subtree(c) => capacity'[m] = capacity[m]
    BY DestroyTypes DEF RemoveChild
<1>2. \A m \in Nodes : kids[m] \in Seq(Nodes) /\ Len(kids[m]) <= capacity[m] - 1
    BY DEF Inv, TreeTypeOK, ShiftInBounds
<1>3. p \in Nodes => /\ RemoveFirst(kids[p], c) \in Seq(Nodes)
                     /\ Len(RemoveFirst(kids[p], c)) <= Len(kids[p])
    BY <1>2, RemoveFirstShortens
<1>4. ASSUME NEW m \in Nodes PROVE kids'[m] \in Seq(Nodes) /\ Len(kids'[m]) <= capacity'[m] - 1
  <2>1. CASE m \in Subtree(c)
    BY <1>1, <2>1 DEF RemoveChild, Detach
  <2>2. CASE m \notin Subtree(c) /\ m = p
    <3>1. kids'[m] = RemoveFirst(kids[p], c) /\ capacity'[m] = capacity[p]
      BY <1>1, <2>2 DEF RemoveChild, Detach
    <3> QED
      BY <1>2, <1>3, <3>1, <2>2 DEF Inv, TreeTypeOK
  <2>3. CASE m \notin Subtree(c) /\ m # p
    BY <1>1, <1>2, <2>3 DEF RemoveChild, Detach
  <2> QED
    BY <2>1, <2>2, <2>3
<1>5. kids' \in [Nodes -> Seq(Nodes)]
    BY <1>4 DEF RemoveChild, Detach
<1> QED
    BY <1>1, <1>4, <1>5 DEF Inv, TreeTypeOK, ShiftInBounds

\* destroy_tree of the root.
LEMMA DestroyInv == ASSUME Inv, Destroy PROVE Inv'
<1>1. /\ live' \subseteq Nodes
      /\ capacity' \in [Nodes -> Nat \ {0}]
      /\ \A m \in Nodes : m \notin Subtree(Root) => capacity'[m] = capacity[m]
    BY DestroyTypes DEF Destroy
<1>2. \A m \in Nodes : kids'[m] = IF m \in Hanging THEN <<>> ELSE kids[m]
    BY DEF Destroy
<1>3. kids' \in [Nodes -> Seq(Nodes)]
    BY DEF Destroy, Inv, TreeTypeOK
<1> QED
    BY <1>1, <1>2, <1>3 DEF Inv, TreeTypeOK, ShiftInBounds, Hanging

\* What any client does to the tree keeps the slot.
LEMMA StepInv == Inv /\ [TreeNext]_treeVars => Inv'
<1> SUFFICES ASSUME Inv, [TreeNext]_treeVars PROVE Inv'
    OBVIOUS
<1>1. CASE AddAny
    BY <1>1, AddInv DEF AddAny
<1>2. CASE RemoveAny
    BY <1>2, RemoveInv DEF RemoveAny
<1>3. CASE Destroy
    BY <1>3, DestroyInv
<1>4. CASE UNCHANGED treeVars
    BY <1>4 DEF treeVars, Inv, TreeTypeOK, ShiftInBounds
<1> QED
    BY <1>1, <1>2, <1>3, <1>4 DEF TreeNext

\* remove_child's shift stays inside the array, whatever client of tree.c calls it, for
\* every set of nodes and every initial capacity.
THEOREM ShiftNeverOverruns == TreeSpec => []ShiftInBounds
<1>1. Inv => ShiftInBounds
    BY DEF Inv
<1> QED
    BY <1>1, InitInv, StepInv, PTL DEF TreeSpec

----------------------------------------------------------------------------
\* What hangs below a node: the node, with a node its children, and nothing else.
LEMMA SubtreeClosed ==
    ASSUME TreeTypeOK, NEW n \in Nodes
    PROVE  n \in Subtree(n) /\ Subtree(n) \subseteq Nodes /\ Closed(Subtree(n))
<1>1. ASSUME NEW m \in Subtree(n), NEW d \in ToSet(kids[m]) PROVE d \in Subtree(n)
  <2>1. d \in Nodes
    <3>1. m \in Nodes /\ kids[m] \in Seq(Nodes)
      BY DEF Subtree, TreeTypeOK
    <3> QED
      BY <3>1, <1>1 DEF ToSet
  <2> QED
    BY <1>1, <2>1 DEF Subtree, Closed
<1> QED
    BY <1>1 DEF Subtree, Closed

\* It is the least such set.
LEMMA SubtreeLeast ==
    ASSUME NEW n \in Nodes, NEW S \in SUBSET Nodes, n \in S, Closed(S)
    PROVE  Subtree(n) \subseteq S
BY DEF Subtree

\* One enters it from above at its top only: every other node in it is the child of one in it.
LEMMA SubtreeEntered ==
    ASSUME TreeTypeOK, NoDangling, NEW n \in Nodes, NEW m \in Nodes, NEW d \in ToSet(kids[m]),
           d \in Subtree(n), d # n
    PROVE  m \in Subtree(n)
<1> SUFFICES ASSUME m \notin Subtree(n) PROVE FALSE
    OBVIOUS
<1> DEFINE S == Subtree(n) \ {d}
<1>1. S \in SUBSET Nodes /\ n \in S
    BY SubtreeClosed
<1>2. ASSUME NEW k \in S, NEW e \in ToSet(kids[k]) PROVE e \in S
  <2>1. k \in Nodes /\ k # m /\ e \in Subtree(n)
    BY SubtreeClosed DEF Closed
  <2>2. e # d
    <3>1. PICK i \in DOMAIN kids[k] : e = kids[k][i]
      BY DEF ToSet
    <3>2. PICK j \in DOMAIN kids[m] : d = kids[m][j]
      BY DEF ToSet
    <3> QED
      BY <2>1, <3>1, <3>2 DEF NoDangling
  <2> QED
    BY <2>1, <2>2
<1>3. Closed(S)
    BY <1>2 DEF Closed
<1> QED
    BY <1>1, <1>3, SubtreeLeast

\* Shifting down over the child at place k: what it leaves, place by place.
LEMMA RemoveAtPlaces ==
    ASSUME NEW S, NEW s \in Seq(S), NEW n \in Nat, Len(s) = n, NEW k \in 1..n
    PROVE  /\ Len(RemoveAt(s, k)) = n - 1
           /\ \A i \in 1..(n - 1) : RemoveAt(s, k)[i] = IF i < k THEN s[i] ELSE s[i + 1]
BY DEF RemoveAt

\* A list that holds nothing twice; a list of members of s, other than e, each once.
Distinct(s) == \A i, j \in 1..Len(s) : s[i] = s[j] => i = j
Rest(r, s, e) ==
    \A i, j \in 1..Len(r) :
       (\E k \in 1..Len(s) : r[i] = s[k]) /\ r[i] # e /\ (r[i] = r[j] => i = j)

\* Shifting down over a child that occurs once leaves the others, each once.
LEMMA RemoveFirstKeeps ==
    ASSUME NEW S, NEW s \in Seq(S), NEW e, Distinct(s)
    PROVE  Rest(RemoveFirst(s, e), s, e)
<1> SUFFICES ASSUME NEW r, r = RemoveFirst(s, e), NEW i \in 1..Len(r), NEW j \in 1..Len(r)
             PROVE  (\E k \in 1..Len(s) : r[i] = s[k]) /\ r[i] # e /\ (r[i] = r[j] => i = j)
    BY DEF Rest
<1> DEFINE I == {k \in 1..Len(s) : s[k] = e}
<1>1. CASE I = {}
    BY <1>1 DEF RemoveFirst, Distinct
<1>2. CASE I # {}
  <2>1. PICK k \in I : RemoveFirst(s, e) = RemoveAt(s, k)
    <3>1. I \subseteq Nat
      OBVIOUS
    <3>2. RemoveFirst(s, e) = RemoveAt(s, Min(I))
      BY <1>2 DEF RemoveFirst, SelectInSeq
    <3> HIDE DEF I
    <3> QED
      BY <1>2, <3>1, <3>2, MinIsFirst
  <2>2. k \in 1..Len(s) /\ s[k] = e /\ Len(s) \in Nat
    BY LenProperties
  <2>3. /\ Len(r) = Len(s) - 1
        /\ \A h \in 1..(Len(s) - 1) : r[h] = IF h < k THEN s[h] ELSE s[h + 1]
    <3>1. /\ Len(RemoveAt(s, k)) = Len(s) - 1
          /\ \A h \in 1..(Len(s) - 1) : RemoveAt(s, k)[h] = IF h < k THEN s[h] ELSE s[h + 1]
      BY <2>2, RemoveAtPlaces
    <3> QED
      BY <2>1, <3>1, Zenon
  <2>4. /\ i \in 1..(Len(s) - 1) /\ j \in 1..(Len(s) - 1)
        /\ r[i] = IF i < k THEN s[i] ELSE s[i + 1]
        /\ r[j] = IF j < k THEN s[j] ELSE s[j + 1]
    BY <2>3, Zenon
  <2> QED
    BY <2>2, <2>4 DEF Distinct
<1> QED
    BY <1>1, <1>2

\* So nothing new is in the list.
LEMMA RemovedFrom ==
    ASSUME NEW s \in Seq(Nodes), NEW e
    PROVE  ToSet(RemoveFirst(s, e)) \subseteq ToSet(s)
<1> DEFINE I == {k \in 1 .. Len(s) : s[k] = e}
<1>1. CASE I = {}
    BY <1>1 DEF RemoveFirst
<1>2. CASE I # {}
  <2>1. PICK k \in I : RemoveFirst(s, e) = RemoveAt(s, k)
    <3>1. I \subseteq Nat
      OBVIOUS
    <3>2. RemoveFirst(s, e) = RemoveAt(s, Min(I))
      BY <1>2 DEF RemoveFirst, SelectInSeq
    <3> HIDE DEF I
    <3> QED
      BY <1>2, <3>1, <3>2, MinIsFirst
  <2>2. k \in 1..Len(s) /\ Len(s) \in Nat
    BY LenProperties
  <2>3. /\ RemoveAt(s, k) \in Seq(Nodes) /\ Len(RemoveAt(s, k)) = Len(s) - 1
        /\ \A h \in 1..(Len(s) - 1) : RemoveAt(s, k)[h] = IF h < k THEN s[h] ELSE s[h + 1]
    BY <2>2, RemoveAtPlaces, RemoveAtShortens
  <2>4. \A h \in 1..(Len(s) - 1) : h \in 1..Len(s) /\ h + 1 \in 1..Len(s)
    BY <2>2
  <2>5. ASSUME NEW x \in ToSet(RemoveFirst(s, e)) PROVE x \in ToSet(s)
    <3>1. PICK t \in Seq(Nodes) : t = RemoveFirst(s, e) /\ t = RemoveAt(s, k)
      BY <2>1, <2>3
    <3>2. PICK h \in 1..(Len(s) - 1) : x = t[h]
      BY <2>3, <2>5, <3>1 DEF ToSet
    <3>3. PICK g \in 1..Len(s) : x = s[g]
      BY <2>3, <2>4, <3>1, <3>2
    <3> QED
      BY <3>3 DEF ToSet
  <2> QED
    BY <2>5
<1> QED
    BY <1>1, <1>2

----------------------------------------------------------------------------
\* NoDangling with its parts in the form the steps use.
LEMMA Linked ==
    ASSUME TreeTypeOK, NoDangling
    PROVE  /\ \A m \in Nodes : kids[m] \in Seq(Nodes)
           /\ \A m \in Nodes : \A i \in 1..Len(kids[m]) : kids[m][i] \in live \ {Root}
           /\ \A m, n \in Nodes : \A i \in 1..Len(kids[m]), j \in 1..Len(kids[n]) :
                 kids[m][i] = kids[n][j] => m = n /\ i = j
<1>1. \A m \in Nodes : kids[m] \in Seq(Nodes) /\ DOMAIN kids[m] = 1..Len(kids[m])
    BY DEF TreeTypeOK
<1> QED
    BY <1>1 DEF NoDangling, ToSet

\* The other way round, for the step's result.
LEMMA LinkedAgain ==
    ASSUME kids' \in [Nodes -> Seq(Nodes)],
           \A m \in Nodes : \A i \in 1..Len(kids'[m]) : kids'[m][i] \in live' \ {Root},
           \A m, n \in Nodes : \A i \in 1..Len(kids'[m]), j \in 1..Len(kids'[n]) :
              kids'[m][i] = kids'[n][j] => m = n /\ i = j
    PROVE  NoDangling'
<1>1. \A m \in Nodes : DOMAIN kids'[m] = 1..Len(kids'[m])
    OBVIOUS
<1>2. ASSUME NEW m \in Nodes PROVE ToSet(kids'[m]) \subseteq live' \ {Root}
    BY <1>1 DEF ToSet
<1>3. ASSUME NEW m \in Nodes, NEW n \in Nodes,
             NEW i \in DOMAIN kids'[m], NEW j \in DOMAIN kids'[n], kids'[m][i] = kids'[n][j]
      PROVE  m = n /\ i = j
    <2>1. i \in 1..Len(kids'[m]) /\ j \in 1..Len(kids'[n])
      BY <1>1, <1>3, Zenon
    <2> QED
      BY <1>3, <2>1, Zenon
<1> QED
    BY <1>2, <1>3, Zenon DEF NoDangling

\* A fresh node is nobody's child, and becomes one node's last.
LEMMA AddLinks ==
    ASSUME Inv, NoDangling, Root \in live, NEW p \in live, NEW n \in Nodes, AddNew(p, n)
    PROVE  NoDangling'
<1>1. /\ TreeTypeOK /\ TreeTypeOK' /\ p \in Nodes
      /\ n # p /\ n \notin live /\ n # Root /\ live' = live \cup {n}
    BY AddInv DEF Inv, AddNew, TreeTypeOK
<1>2. CASE Leak(p, n)
    BY <1>1, <1>2 DEF Leak, NoDangling
<1>3. CASE Attach(p, n)
  <2>1. /\ kids'[n] = <<>> /\ kids'[p] = Append(kids[p], n)
        /\ \A m \in Nodes \ {p, n} : kids'[m] = kids[m]
    BY <1>1, <1>3 DEF Attach, TreeTypeOK
  <2>2. PICK len \in Nat : len = Len(kids[p])
    BY <1>1, LenProperties DEF TreeTypeOK
  <2>3. /\ Len(kids'[p]) = len + 1 /\ kids'[p][len + 1] = n
        /\ \A i \in 1..len : kids'[p][i] = kids[p][i]
    BY <1>1, <2>1, <2>2, AppendProperties DEF TreeTypeOK
  <2>4. ASSUME NEW m \in Nodes, NEW i \in 1..Len(kids'[m])
        PROVE  \/ m = p /\ i = len + 1 /\ kids'[m][i] = n
               \/ i \in 1..Len(kids[m]) /\ kids'[m][i] = kids[m][i] /\ kids[m][i] \in live \ {Root}
    <3>1. m # n
      BY <2>1, <2>4
    <3>2. CASE m = p
      BY <1>1, <2>2, <2>3, <2>4, <3>2, Linked
    <3>3. CASE m # p
      BY <1>1, <2>1, <2>4, <3>1, <3>3, Linked
    <3> QED
      BY <3>2, <3>3
  <2>5. \A m \in Nodes : \A i \in 1..Len(kids'[m]) : kids'[m][i] \in live' \ {Root}
    BY <1>1, <2>4
  <2>6. \A m, k \in Nodes : \A i \in 1..Len(kids'[m]), j \in 1..Len(kids'[k]) :
           kids'[m][i] = kids'[k][j] => m = k /\ i = j
    <3>1. \A m, k \in Nodes : \A i \in 1..Len(kids[m]), j \in 1..Len(kids[k]) :
             kids[m][i] = kids[k][j] => m = k /\ i = j
      BY <1>1, Linked
    <3> SUFFICES ASSUME NEW m \in Nodes, NEW k \in Nodes, NEW i \in 1..Len(kids'[m]),
                        NEW j \in 1..Len(kids'[k]), kids'[m][i] = kids'[k][j]
                 PROVE  m = k /\ i = j
      OBVIOUS
    <3> QED
      BY <1>1, <2>4, <3>1
  <2> QED
    BY <1>1, <2>5, <2>6, LinkedAgain DEF TreeTypeOK
<1> QED
    BY <1>2, <1>3 DEF AddNew

\* Nodes outside of what is freed point to none in it, but for the one that pointed to its top.
LEMMA FreeLinks ==
    ASSUME TreeTypeOK, NoDangling, NEW c \in Nodes,
           live' = live \ Subtree(c), kids' \in [Nodes -> Seq(Nodes)],
           \A m \in Subtree(c) : kids'[m] = <<>>,
           \A m \in Nodes \ Subtree(c) :
              \/ kids'[m] = kids[m] /\ c \notin ToSet(kids[m])
              \/ kids'[m] = RemoveFirst(kids[m], c)
    PROVE  NoDangling'
<1>1. ASSUME NEW m \in Nodes, NEW i \in 1..Len(kids'[m])
      PROVE  /\ m \notin Subtree(c) /\ kids'[m][i] # c
             /\ \E j \in 1..Len(kids[m]) : kids'[m][i] = kids[m][j]
             /\ \A k \in 1..Len(kids'[m]) : kids'[m][i] = kids'[m][k] => i = k
  <2>1. m \notin Subtree(c)
    BY <1>1
  <2>2. kids[m] \in Seq(Nodes) /\ \A j, k \in 1..Len(kids[m]) : kids[m][j] = kids[m][k] => j = k
    BY Linked
  <2>3. CASE kids'[m] = kids[m] /\ c \notin ToSet(kids[m])
    BY <1>1, <2>1, <2>2, <2>3 DEF ToSet
  <2>4. CASE kids'[m] = RemoveFirst(kids[m], c)
    <3>1. Rest(RemoveFirst(kids[m], c), kids[m], c)
      BY <2>2, RemoveFirstKeeps, Zenon DEF Distinct
    <3>2. Rest(kids'[m], kids[m], c)
      BY <2>4, <3>1
    <3> QED
      BY <1>1, <2>1, <3>2 DEF Rest
  <2> QED
    BY <2>1, <2>3, <2>4
<1>2. \A m \in Nodes : \A i \in 1..Len(kids'[m]) : kids'[m][i] \in live' \ {Root}
  <2> SUFFICES ASSUME NEW m \in Nodes, NEW i \in 1..Len(kids'[m])
               PROVE  kids'[m][i] \in live' \ {Root}
    OBVIOUS
  <2>1. PICK j \in 1..Len(kids[m]) : kids'[m][i] = kids[m][j]
    BY <1>1
  <2>2. kids[m][j] \in live \ {Root} /\ kids[m][j] \in ToSet(kids[m])
    BY <2>1, Linked DEF ToSet
  <2>3. m \notin Subtree(c) /\ kids[m][j] # c
    BY <1>1, <2>1
  <2>4. kids[m][j] \notin Subtree(c)
    BY <2>2, <2>3, SubtreeEntered
  <2> QED
    BY <2>1, <2>2, <2>4
<1>3. \A m, n \in Nodes : \A i \in 1..Len(kids'[m]), j \in 1..Len(kids'[n]) :
         kids'[m][i] = kids'[n][j] => m = n /\ i = j
  <2> SUFFICES ASSUME NEW m \in Nodes, NEW n \in Nodes, NEW i \in 1..Len(kids'[m]),
                      NEW j \in 1..Len(kids'[n]), kids'[m][i] = kids'[n][j]
               PROVE  m = n /\ i = j
    OBVIOUS
  <2>1. PICK h \in 1..Len(kids[m]) : kids'[m][i] = kids[m][h]
    BY <1>1, Zenon
  <2>2. PICK k \in 1..Len(kids[n]) : kids'[n][j] = kids[n][k]
    BY <1>1, Zenon
  <2>3. kids[m][h] = kids[n][k]
    BY <2>1, <2>2
  <2>4. m = n
    BY <2>3, Linked, Zenon
  <2> QED
    BY <1>1, <2>4, Zenon
<1> QED
    BY <1>2, <1>3, LinkedAgain

\* remove_child takes the child out of the one list that holds it.
LEMMA RemoveLinks ==
    ASSUME Inv, NoDangling, NEW p \in Nodes, NEW c \in ToSet(kids[p]), RemoveChild(p, c)
    PROVE  NoDangling'
<1>1. TreeTypeOK /\ kids' \in [Nodes -> Seq(Nodes)] /\ live' = live \ Subtree(c)
    BY RemoveInv DEF Inv, TreeTypeOK, RemoveChild, DestroyTree
<1>2. c \in Nodes /\ \A m \in Nodes \ {p} : c \notin ToSet(kids[m])
    BY <1>1, Linked DEF ToSet, TreeTypeOK, NoDangling
<1>3. /\ \A m \in Subtree(c) : kids'[m] = <<>>
      /\ \A m \in Nodes \ Subtree(c) :
            kids'[m] = IF m = p THEN RemoveFirst(kids[p], c) ELSE kids[m]
    BY <1>2, SubtreeClosed, <1>1 DEF RemoveChild, Detach
<1> QED
    BY <1>1, <1>2, <1>3, FreeLinks DEF Inv

\* destroy_tree(root) leaves no child.
LEMMA DestroyLinks ==
    ASSUME Inv, NoDangling, Destroy
    PROVE  NoDangling'
<1>1. /\ TreeTypeOK /\ kids' \in [Nodes -> Seq(Nodes)] /\ live' = live \ Subtree(Root)
      /\ Root \in Nodes
    BY DestroyInv, TreeAssumption DEF Inv, TreeTypeOK, Destroy, DestroyTree
<1>2. \A m \in Nodes : Root \notin ToSet(kids[m])
    BY DEF NoDangling
<1>3. /\ \A m \in Subtree(Root) : kids'[m] = <<>>
      /\ \A m \in Nodes \ Subtree(Root) : kids'[m] = kids[m]
    BY <1>1, SubtreeClosed DEF Destroy, Hanging
<1> QED
    BY <1>1, <1>2, <1>3, FreeLinks

\* What hangs below the root is allocated.
LEMMA HangingLives ==
    ASSUME TreeTypeOK, NoDangling, Root \in live
    PROVE  Hanging \subseteq live
<1>1. Closed(live) /\ live \in SUBSET Nodes
    BY DEF Closed, NoDangling, TreeTypeOK
<1> QED
    BY <1>1, TreeAssumption, SubtreeLeast DEF Hanging

\* What any client does to the tree leaves no dangling pointer.
LEMMA StepLinks == Inv /\ NoDangling /\ [TreeNext]_treeVars => NoDangling'
<1> SUFFICES ASSUME Inv, NoDangling, [TreeNext]_treeVars PROVE NoDangling'
    OBVIOUS
<1>1. Root \in live => Hanging \subseteq live /\ live \subseteq Nodes
    BY HangingLives DEF Inv, TreeTypeOK
<1>2. CASE AddAny
    BY <1>1, <1>2, AddLinks DEF AddAny
<1>3. CASE RemoveAny
    BY <1>1, <1>3, RemoveLinks DEF RemoveAny
<1>4. CASE Destroy
    BY <1>4, DestroyLinks
<1>5. CASE UNCHANGED treeVars
    BY <1>5 DEF treeVars, NoDangling
<1> QED
    BY <1>2, <1>3, <1>4, <1>5 DEF TreeNext

\* No node is the child of two, none is a child after it was freed, and the root is
\* nobody's: destroy_tree frees no node a second time, whatever client calls it.
THEOREM NothingDangles == TreeSpec => []NoDangling
<1>1. TreeInit => NoDangling
    BY DEF TreeInit, NoDangling, ToSet
<1> QED
    BY <1>1, InitInv, StepInv, StepLinks, PTL DEF TreeSpec

----------------------------------------------------------------------------
(***************************************************************************)
(* The shell.  Its invariant adds to the tree's that the stack is a way    *)
(* down from the root that meets no node twice: so rm, which removes a     *)
(* child of its last node, frees none that is on it.                       *)
(***************************************************************************)
OnWay ==
    /\ stack \in Seq(Nodes) /\ Len(stack) >= 1
    /\ stack[1] = Root /\ Root \in live
    /\ \A i \in 1..(Len(stack) - 1) : stack[i + 1] \in ToSet(kids[stack[i]])
    /\ Distinct(stack)

FsInv == Inv /\ NoDangling /\ (state = "running" => OnWay)

\* The stack's length and its nodes.
LEMMA Stacked ==
    ASSUME OnWay
    PROVE  /\ Len(stack) \in Nat \ {0}
           /\ \A i \in 1..Len(stack) : stack[i] \in Nodes
           /\ Cwd \in Nodes
BY LenProperties, ElementOfSeq DEF OnWay, Cwd

\* No node is the child of two.
LEMMA OneParent ==
    ASSUME TreeTypeOK, NoDangling, NEW m \in Nodes, NEW n \in Nodes, NEW d,
           d \in ToSet(kids[m]), d \in ToSet(kids[n])
    PROVE  m = n /\ d \in live /\ d # Root
<1>1. PICK i \in DOMAIN kids[m] : d = kids[m][i]
    BY DEF ToSet
<1>2. PICK j \in DOMAIN kids[n] : d = kids[n][j]
    BY DEF ToSet
<1> QED
    BY <1>1, <1>2 DEF NoDangling

\* The parent of a node on the stack is the node below it there.
LEMMA ParentOnStack ==
    ASSUME Inv, NoDangling, OnWay, NEW i \in 1..Len(stack), NEW m \in Nodes,
           stack[i] \in ToSet(kids[m])
    PROVE  i - 1 \in 1..Len(stack) /\ m = stack[i - 1]
<1>1. stack[i] # Root
    BY OneParent DEF Inv
<1>2. i # 1
    BY <1>1 DEF OnWay
<1>3. i - 1 \in 1..(Len(stack) - 1) /\ i - 1 \in 1..Len(stack) /\ (i - 1) + 1 = i
    BY <1>2, Stacked
<1>4. stack[i] \in ToSet(kids[stack[i - 1]]) /\ stack[i - 1] \in Nodes
    BY <1>3, Stacked DEF OnWay
<1> QED
    BY <1>3, <1>4, OneParent DEF Inv

\* The working directory, with all above it, hangs in the tree.
LEMMA StackHangs ==
    ASSUME Inv, NoDangling, OnWay
    PROVE  \A i \in 1..Len(stack) : stack[i] \in Hanging
<1> DEFINE I == {i \in 1..Len(stack) : stack[i] \notin Hanging}
<1>1. I \subseteq Nat
    BY Stacked
<1>2. ASSUME I # {} PROVE FALSE
  <2>1. PICK i \in I : \A k \in I : i <= k
    <3> HIDE DEF I
    <3> QED
      BY <1>1, <1>2, MinIsFirst
  <2>2. Root \in Hanging /\ Closed(Hanging)
    BY SubtreeClosed, TreeAssumption DEF Hanging, Inv
  <2>3. i # 1
    BY <2>2 DEF OnWay
  <2>4. i - 1 \in 1..(Len(stack) - 1) /\ i - 1 \in 1..Len(stack) /\ (i - 1) + 1 = i
    BY <2>3, Stacked
  <2>5. stack[i - 1] \in Hanging
    BY <2>1, <2>4
  <2>6. stack[i] \in ToSet(kids[stack[i - 1]])
    BY <2>4 DEF OnWay
  <2> QED
    BY <2>2, <2>5, <2>6 DEF Closed
<1> QED
    BY <1>2

\* A child of the working directory is not on the stack, nor is anything below it.
LEMMA ChildOffStack ==
    ASSUME Inv, NoDangling, OnWay, NEW c \in ToSet(kids[Cwd])
    PROVE  c \in Nodes /\ \A i \in 1..Len(stack) : stack[i] \notin Subtree(c)
<1> DEFINE S == {m \in Nodes : \A i \in 1..Len(stack) : stack[i] # m}
<1>1. c \in Nodes
    BY OneParent, Stacked DEF Inv, TreeTypeOK
<1>2. ASSUME NEW i \in 1..Len(stack) PROVE stack[i] # c
  <2> SUFFICES ASSUME stack[i] = c PROVE FALSE
    OBVIOUS
  <2>1. i - 1 \in 1..Len(stack) /\ Cwd = stack[i - 1]
    BY ParentOnStack, Stacked
  <2>2. Len(stack) \in 1..Len(stack) /\ stack[Len(stack)] = stack[i - 1]
    BY <2>1, Stacked DEF Cwd
  <2>3. Len(stack) = i - 1
    BY <2>1, <2>2 DEF OnWay, Distinct
  <2> QED
    BY <2>3, Stacked
<1>3. ASSUME NEW m \in S, NEW d \in ToSet(kids[m]) PROVE d \in S
  <2>1. d \in Nodes
    BY <1>3, OneParent DEF Inv, TreeTypeOK
  <2>2. ASSUME NEW i \in 1..Len(stack), stack[i] = d PROVE FALSE
    BY <1>3, <2>2, ParentOnStack
  <2> QED
    BY <2>1, <2>2
<1>4. c \in S /\ S \in SUBSET Nodes
    BY <1>1, <1>2
<1>5. Closed(S)
    BY <1>3 DEF Closed
<1>6. Subtree(c) \subseteq S
    BY <1>1, <1>4, <1>5, SubtreeLeast
<1> QED
    BY <1>1, <1>6

\* What one command does to the tree, a client of tree.c may do: touch and mkdir add to, and
\* rm removes from, a directory that hangs in the tree.
LEMMA CommandUsesTree ==
    ASSUME FsInv, state = "running", NEW c, NEW a, Do(c, a)
    PROVE  [TreeNext]_treeVars
<1>1. OnWay /\ Inv /\ NoDangling /\ Root \in live
    BY DEF FsInv, OnWay
<1>2. Cwd \in Hanging
    BY <1>1, StackHangs, Stacked DEF Cwd
<1>3. SameTree => UNCHANGED treeVars
    BY DEF SameTree, treeVars
<1>4. ASSUME Cd(a) PROVE SameTree
    BY <1>4 DEF Cd, CdUp, CdDown, CdNowhere
<1>5. ASSUME NEW dir, Make(a, dir) PROVE SameTree \/ AddAny
    BY <1>1, <1>2, <1>5 DEF Make, AddAny
<1>6. ASSUME Rm(a) PROVE SameTree \/ RemoveAny
  <2>1. Doomed(a) \subseteq ToSet(kids[Cwd])
    BY DEF Doomed, Child
  <2> QED
    BY <1>1, <1>2, <1>6, <2>1 DEF Rm, RemoveAny
<1>7. ASSUME NEW dir, Find(a, dir) PROVE SameTree
    BY <1>7 DEF Find
<1>8. ASSUME Kill PROVE Destroy
    BY <1>8 DEF Kill
<1>9. ASSUME Idle PROVE SameTree
    BY <1>9 DEF Idle
<1> QED
    BY <1>3, <1>4, <1>5, <1>6, <1>7, <1>8, <1>9, Zenon DEF Do, TreeNext

\* cd: up one node, or down to a child that is not on the stack.
LEMMA CdKeepsWay ==
    ASSUME FsInv, OnWay, NEW a, Cd(a), state' = "running"
    PROVE  OnWay'
<1>1. Inv /\ NoDangling /\ kids' = kids /\ live' = live
    BY DEF FsInv, Cd, CdUp, CdDown, CdNowhere, SameTree
<1>2. PICK len \in Nat \ {0} : len = Len(stack)
    BY Stacked
<1>3. CASE stack' = stack
    BY <1>1, <1>3 DEF OnWay, Distinct
<1>4. CASE len > 1 /\ stack' = Front(stack)
  <2>1. /\ stack' \in Seq(Nodes) /\ Len(stack') = len - 1
        /\ \A i \in 1..(len - 1) : stack'[i] = stack[i]
    BY <1>2, <1>4, SubSeqProperties, ElementOfSeq DEF Front, OnWay
  <2> QED
    BY <1>1, <1>2, <1>4, <2>1 DEF OnWay, Distinct
<1>5. ASSUME NEW c \in ToSet(kids[Cwd]), stack' = Append(stack, c) PROVE OnWay'
  <2>1. c \in Nodes /\ \A i \in 1..len : stack[i] # c
    BY <1>1, <1>2, ChildOffStack, SubtreeClosed DEF Inv
  <2>2. /\ stack' \in Seq(Nodes) /\ Len(stack') = len + 1 /\ stack'[len + 1] = c
        /\ \A i \in 1..len : stack'[i] = stack[i]
    BY <1>2, <1>5, <2>1, AppendProperties DEF OnWay
  <2>3. stack'[1] = Root /\ Root \in live'
    BY <1>1, <1>2, <2>2 DEF OnWay
  <2>4. ASSUME NEW i \in 1..len PROVE stack'[i + 1] \in ToSet(kids'[stack'[i]])
    <3>1. CASE i = len
      BY <1>1, <1>2, <1>5, <2>2, <3>1 DEF Cwd
    <3>2. CASE i < len
      BY <1>1, <1>2, <2>2, <3>2 DEF OnWay
    <3> QED
      BY <1>2, <3>1, <3>2
  <2>5. Distinct(stack')
    BY <1>2, <2>1, <2>2 DEF OnWay, Distinct
  <2> QED
    BY <1>2, <2>2, <2>3, <2>4, <2>5 DEF OnWay
<1>6. CASE CdUp(a)
    BY <1>2, <1>3, <1>4, <1>6 DEF CdUp
<1>7. CASE CdDown(a)
    BY <1>5, <1>7 DEF CdDown, Child
<1>8. CASE CdNowhere(a)
    BY <1>3, <1>8 DEF CdNowhere
<1> QED
    BY <1>6, <1>7, <1>8 DEF Cd

\* A list with one more at its end still holds what it held.
LEMMA AppendKeeps ==
    ASSUME NEW s \in Seq(Nodes), NEW n \in Nodes, NEW d \in ToSet(s)
    PROVE  d \in ToSet(Append(s, n))
<1>1. PICK len \in Nat : len = Len(s)
    BY LenProperties
<1>2. PICK i \in 1..len : d = s[i]
    BY <1>1 DEF ToSet
<1>3. /\ Append(s, n) \in Seq(Nodes) /\ Len(Append(s, n)) = len + 1
      /\ Append(s, n)[i] = s[i] /\ i \in 1..(len + 1)
    BY <1>1, <1>2, AppendProperties
<1> QED
    BY <1>2, <1>3 DEF ToSet

\* touch and mkdir: the new node's list, and the working directory's with one more.
LEMMA MakeKeepsWay ==
    ASSUME FsInv, OnWay, NEW a, NEW dir, Make(a, dir)
    PROVE  OnWay'
<1>1. Inv /\ NoDangling /\ stack' = stack
    BY DEF FsInv, Make
<1>2. CASE SameTree
    BY <1>1, <1>2 DEF SameTree, OnWay, Distinct
<1>3. ASSUME NEW n \in Nodes, AddNew(Cwd, n) PROVE OnWay'
  <2>1. Root \in live' /\ n \notin live
    BY <1>3 DEF AddNew, OnWay
  <2>2. ASSUME NEW i \in 1..(Len(stack) - 1), NEW d \in ToSet(kids[stack[i]])
        PROVE  d \in ToSet(kids'[stack[i]])
    <3>1. stack[i] \in live /\ stack[i] \in Nodes
      BY <1>1, Stacked, StackHangs, HangingLives DEF Inv, OnWay
    <3>2. kids'[stack[i]] = kids[stack[i]] \/ kids'[stack[i]] = Append(kids[stack[i]], n)
      BY <1>1, <1>3, <2>1, <3>1 DEF AddNew, Attach, Leak, Inv, TreeTypeOK
    <3>3. kids[stack[i]] \in Seq(Nodes)
      BY <1>1, <3>1 DEF Inv, TreeTypeOK
    <3> QED
      BY <3>2, <3>3, AppendKeeps
  <2> QED
    BY <1>1, <2>1, <2>2 DEF OnWay
<1> QED
    BY <1>2, <1>3 DEF Make

\* rm: the working directory's list only, whose last node on the stack it is.
LEMMA RmKeepsWay ==
    ASSUME FsInv, OnWay, NEW a, Rm(a)
    PROVE  OnWay'
<1>1. Inv /\ NoDangling /\ stack' = stack
    BY DEF FsInv, Rm
<1>2. CASE SameTree
    BY <1>1, <1>2 DEF SameTree, OnWay, Distinct
<1>3. ASSUME NEW c \in ToSet(kids[Cwd]), RemoveChild(Cwd, c) PROVE OnWay'
  <2>1. \A i \in 1..Len(stack) : stack[i] \notin Subtree(c)
    BY <1>1, <1>3, ChildOffStack
  <2>2. Root \in live'
    BY <1>3, <2>1, Stacked DEF RemoveChild, DestroyTree, OnWay
  <2>3. ASSUME NEW i \in 1..(Len(stack) - 1) PROVE kids'[stack[i]] = kids[stack[i]]
    <3>1. i \in 1..Len(stack) /\ Len(stack) \in 1..Len(stack) /\ i # Len(stack)
      BY Stacked
    <3>2. stack[i] # Cwd
      BY <3>1 DEF OnWay, Distinct, Cwd
    <3> QED
      BY <1>3, <2>1, <3>1, <3>2, Stacked DEF RemoveChild, Detach
  <2> QED
    BY <1>1, <2>2, <2>3 DEF OnWay
<1>4. Doomed(a) \subseteq ToSet(kids[Cwd])
    BY DEF Doomed, Child
<1> QED
    BY <1>2, <1>3, <1>4 DEF Rm

\* One command keeps the invariant, on whichever argument its line leaves in the buffer.
LEMMA CommandInv ==
    ASSUME FsInv, state = "running", NEW c, NEW a, Do(c, a)
    PROVE  FsInv'
<1>1. Inv /\ NoDangling /\ OnWay
    BY DEF FsInv
<1>2. Inv' /\ NoDangling'
    BY <1>1, CommandUsesTree, StepInv, StepLinks
<1>3. ASSUME state' = "running" PROVE OnWay'
  <2>1. Cd(a) => OnWay'
    BY <1>1, <1>3, CdKeepsWay
  <2>2. ASSUME NEW dir, Make(a, dir) PROVE OnWay'
    BY <1>1, <2>2, MakeKeepsWay
  <2>3. Rm(a) => OnWay'
    BY <1>1, RmKeepsWay
  <2>4. ASSUME NEW dir, Find(a, dir) PROVE OnWay'
    BY <1>1, <2>4 DEF Find, SameTree, OnWay, Distinct
  <2>5. ~Kill
    BY <1>3 DEF Kill
  <2>6. Idle => OnWay'
    BY <1>1 DEF Idle, SameTree, OnWay, Distinct
  <2> QED
    BY <2>1, <2>2, <2>3, <2>4, <2>5, <2>6, Zenon DEF Do
<1> QED
    BY <1>2, <1>3 DEF FsInv

\* Whatever line is read, the step is one command's, and the shell still runs.
LEMMA LineIsCommand ==
    ASSUME [Next]_vars
    PROVE  UNCHANGED vars \/ (state = "running" /\ \E c, a : Do(c, a))
BY DEF Next, TwoWords, OneWord, NoWord

\* The invariant holds initially: the root alone on the stack, and no child.
LEMMA InitFsInv == Init => FsInv
<1> SUFFICES ASSUME Init PROVE FsInv
    OBVIOUS
<1>1. Inv /\ NoDangling
  <2>1. TreeInit
    BY DEF Init
  <2>2. \A m \in Nodes : kids[m] = <<>>
    BY <2>1 DEF TreeInit
  <2> QED
    BY <2>1, <2>2, InitInv DEF NoDangling, ToSet
<1>2. OnWay
  <2>1. stack = <<Root>> /\ Root \in live /\ Root \in Nodes
    BY TreeAssumption DEF Init, TreeInit
  <2>2. stack \in Seq(Nodes) /\ Len(stack) = 1 /\ stack[1] = Root
    BY <2>1
  <2> QED
    BY <2>1, <2>2 DEF OnWay, Distinct
<1> QED
    BY <1>1, <1>2 DEF FsInv

\* Every step of the shell keeps it.
LEMMA StepFsInv == FsInv /\ [Next]_vars => FsInv'
<1> SUFFICES ASSUME FsInv, [Next]_vars PROVE FsInv'
    OBVIOUS
<1>1. CASE UNCHANGED vars
  <2>1. Inv' /\ NoDangling'
    BY <1>1, StepInv, StepLinks DEF FsInv, vars, treeVars
  <2>2. OnWay => OnWay'
    BY <1>1 DEF vars, OnWay, Distinct
  <2> QED
    BY <1>1, <2>1, <2>2 DEF FsInv, vars
<1> QED
    BY <1>1, CommandInv, LineIsCommand

\* So the shell's rm never reads past an array of children either.
THEOREM ShellNeverOverruns == Spec => []ShiftInBounds
<1>1. FsInv => ShiftInBounds
    BY DEF FsInv, Inv
<1> QED
    BY <1>1, InitFsInv, StepFsInv, PTL DEF Spec

\* The shell is a client tree.c was written for: each of its steps is one of the tree's, or
\* leaves the tree alone.
THEOREM ShellUsesTree == Spec => UsesTree
<1>1. Init => TreeInit
    BY DEF Init
<1>2. FsInv /\ [Next]_vars => [TreeNext]_treeVars
    BY CommandUsesTree, LineIsCommand DEF vars, treeVars
<1> QED
    BY <1>1, <1>2, InitFsInv, StepFsInv, PTL DEF Spec, UsesTree, TreeSpec

----------------------------------------------------------------------------
(***************************************************************************)
(* The search.  Its stack has as many slots as the working directory's,    *)
(* and is long enough because no node below depth StackCapacity has        *)
(* children: those are made only where cd can go.                          *)
(***************************************************************************)
\* The levels of the recursion, from no level to n.
Levels(name, dir, H, n) ==
    H = [k \in 0..n |->
           [m \in Nodes |-> IF k = 0 THEN Result(FALSE, <<>>) ELSE Return(name, dir, H[k - 1], m)]]

\* For every number of levels the recursion defines them: the least number for which it
\* does not would extend the levels of the one before.
LEMMA LevelsExist ==
    ASSUME NEW name, NEW dir, NEW n \in Nat
    PROVE  \E H : Levels(name, dir, H, n)
<1> DEFINE I == {k \in Nat : ~ \E H : Levels(name, dir, H, k)}
<1>1. ASSUME I # {} PROVE FALSE
  <2>1. PICK k \in I : \A j \in I : k <= j
    <3>1. I \subseteq Nat
      OBVIOUS
    <3> HIDE DEF I
    <3> QED
      BY <1>1, <3>1, MinIsFirst
  <2>2. CASE k = 0
    <3> DEFINE H == [j \in 0..0 |-> [m \in Nodes |-> Result(FALSE, <<>>)]]
    <3>1. Levels(name, dir, H, 0)
      BY DEF Levels
    <3> QED
      BY <2>1, <2>2, <3>1
  <2>3. CASE k # 0
    <3>1. k - 1 \in Nat /\ k \in Nat /\ k - 1 \notin I
      BY <2>1, <2>3
    <3>2. PICK G : Levels(name, dir, G, k - 1)
      BY <3>1
    <3> DEFINE H == [j \in 0..k |-> IF j = k THEN [m \in Nodes |-> Return(name, dir, G[k - 1], m)]
                                    ELSE G[j]]
    <3>3. ASSUME NEW j \in 0..k
          PROVE  H[j] = [m \in Nodes |-> IF j = 0 THEN Result(FALSE, <<>>)
                                         ELSE Return(name, dir, H[j - 1], m)]
      <4>1. CASE j = k
        <5>1. H[j] = [m \in Nodes |-> Return(name, dir, G[k - 1], m)] /\ H[k - 1] = G[k - 1]
          BY <3>1, <4>1
        <5> QED
          BY <2>3, <4>1, <5>1
      <4>2. CASE j # k
        <5>1. j \in 0..(k - 1) /\ H[j] = G[j]
          BY <3>1, <4>2
        <5>2. j # 0 => H[j - 1] = G[j - 1]
          BY <3>1, <5>1
        <5>3. G[j] = [m \in Nodes |-> IF j = 0 THEN Result(FALSE, <<>>)
                                      ELSE Return(name, dir, G[j - 1], m)]
          BY <3>2, <5>1 DEF Levels
        <5> HIDE DEF H
        <5> QED
          BY <5>1, <5>2, <5>3, Zenon
      <4> QED
        BY <4>1, <4>2
    <3>4. Levels(name, dir, H, k)
      BY <3>3 DEF Levels
    <3> QED
      BY <2>1, <3>4
  <2> QED
    BY <2>2, <2>3
<1> QED
    BY <1>1

\* So the helper is the last of these levels.
LEMMA HelperIsLast ==
    ASSUME NEW name, NEW dir
    PROVE  \E H : /\ Levels(name, dir, H, Cardinality(Nodes))
                  /\ Helper(name, dir) = H[Cardinality(Nodes)]
<1> DEFINE n == Cardinality(Nodes)
           L == CHOOSE H : Levels(name, dir, H, n)
<1>1. n \in Nat
    BY FileSystemAssumption, FS_CardinalityType
<1>2. Levels(name, dir, L, n)
    BY <1>1, LevelsExist, Zenon
<1>3. Helper(name, dir) = L[n]
    BY Zenon DEF Helper, Levels
<1> QED
    BY <1>2, <1>3

\* How deep each node is, of which only those up to the stack's capacity have children.
Depth(d) ==
    /\ d \in [Nodes -> Nat] /\ d[Root] = 1
    /\ \A m \in Nodes : \A c \in ToSet(kids[m]) : d[c] = d[m] + 1 /\ d[m] <= StackCapacity

\* What is pushed below m, and m, has room above m's depth; and one slot more where the
\* node called "~" is not pushed.
Fits(r, m, d) ==
    r.hit => /\ r.pushed \in Seq(Nodes)
             /\ Len(r.pushed) + d[m] <= StackCapacity + 1
             /\ file[m].name = "~" /\ d[m] <= StackCapacity => Len(r.pushed) + d[m] <= StackCapacity

\* One level of the helper pushes one node at most.
LEMMA ReturnFits ==
    ASSUME TreeTypeOK, NEW d, Depth(d), NEW name, NEW dir, NEW below, NEW m \in Nodes,
           d[m] <= StackCapacity + 1,
           \A c \in Nodes : d[c] <= StackCapacity + 1 => Fits(below[c], c, d)
    PROVE  Fits(Return(name, dir, below, m), m, d)
<1> DEFINE hits == {i \in 1..Len(kids[m]) : below[kids[m][i]].hit}
           up == below[kids[m][Min(hits)]].pushed
           r == Return(name, dir, below, m)
<1>1. d[m] \in Nat /\ StackCapacity \in Nat
    BY FileSystemAssumption DEF Depth
<1>2. CASE file[m] = File(name, dir)
  <2>1. r = Result(TRUE, <<>>)
    BY <1>2 DEF Return
  <2> QED
    BY <1>1, <2>1 DEF Fits, Result
<1>3. CASE file[m] # File(name, dir) /\ hits = {}
  <2>1. r = Result(FALSE, <<>>)
    BY <1>3 DEF Return
  <2> QED
    BY <2>1 DEF Fits, Result
<1>4. CASE file[m] # File(name, dir) /\ hits # {}
  <2>1. Min(hits) \in hits
    <3>1. hits \subseteq Nat
      OBVIOUS
    <3> HIDE DEF hits
    <3> QED
      BY <1>4, <3>1, MinIsFirst
  <2>2. PICK i \in 1..Len(kids[m]) : i = Min(hits) /\ below[kids[m][i]].hit
    BY <2>1
  <2>3. PICK c : c = kids[m][i]
    OBVIOUS
  <2>4. c \in Nodes /\ c \in ToSet(kids[m])
    <3>1. kids[m] \in Seq(Nodes)
      BY DEF TreeTypeOK
    <3>2. DOMAIN kids[m] = 1..Len(kids[m]) /\ kids[m][i] \in Nodes
      BY <3>1, ElementOfSeq
    <3> QED
      BY <2>3, <3>2 DEF ToSet
  <2>5. d[c] = d[m] + 1 /\ d[m] <= StackCapacity
    BY <2>4 DEF Depth
  <2>6. Fits(below[c], c, d)
    BY <1>1, <2>4, <2>5
  <2>7. PICK s : s = below[c].pushed
    OBVIOUS
  <2>8. s \in Seq(Nodes) /\ Len(s) + d[c] <= StackCapacity + 1
    BY <2>2, <2>3, <2>6, <2>7 DEF Fits
  <2>9. Len(s) \in Nat /\ Append(s, m) \in Seq(Nodes) /\ Len(Append(s, m)) = Len(s) + 1
    BY <2>8, AppendProperties, LenProperties
  <2>10. PICK k \in Nat : k = Len(s)
    BY <2>9
  <2>11. k + d[m] <= StackCapacity
    BY <1>1, <2>5, <2>8, <2>10
  <2>12. PICK t : t = IF file[m].name = "~" THEN s ELSE Append(s, m)
    OBVIOUS
  <2>13. r = Result(TRUE, t)
    BY <1>4, <2>2, <2>3, <2>7, <2>12 DEF Return
  <2>14. t \in Seq(Nodes) /\ Len(t) = IF file[m].name = "~" THEN k ELSE k + 1
    BY <2>8, <2>9, <2>10, <2>12
  <2>15. Fits(Result(TRUE, t), m, d)
    BY <1>1, <2>11, <2>14 DEF Fits, Result
  <2> QED
    BY <2>13, <2>15, Zenon
<1> QED
    BY <1>2, <1>3, <1>4

\* So does every level.
LEMMA HelperFits ==
    ASSUME TreeTypeOK, NEW d, Depth(d), NEW name, NEW dir, NEW n \in Nodes,
           d[n] <= StackCapacity + 1
    PROVE  Fits(Helper(name, dir)[n], n, d)
<1> DEFINE N == Cardinality(Nodes)
<1>1. N \in Nat
    BY FileSystemAssumption, FS_CardinalityType
<1> HIDE DEF N
<1>2. PICK H : Levels(name, dir, H, N) /\ Helper(name, dir) = H[N]
    BY HelperIsLast DEF N
<1> DEFINE LevelFits(k) == \A m \in Nodes : d[m] <= StackCapacity + 1 => Fits(H[k][m], m, d)
           I == {k \in 0..N : ~LevelFits(k)}
<1>3. ASSUME I # {} PROVE FALSE
  <2>1. PICK k \in I : \A j \in I : k <= j
    <3>1. I \subseteq Nat
      BY <1>1
    <3> HIDE DEF I
    <3> QED
      BY <1>3, <3>1, MinIsFirst
  <2>2. CASE k = 0
    <3>1. \A m \in Nodes : H[k][m] = Result(FALSE, <<>>)
      BY <1>1, <1>2, <2>1, <2>2 DEF Levels
    <3>2. LevelFits(k)
      BY <3>1 DEF Fits, Result
    <3> QED
      BY <2>1, <3>2
  <2>3. CASE k # 0
    <3>1. k - 1 \in 0..N /\ LevelFits(k - 1)
      BY <1>1, <2>1, <2>3
    <3>2. \A m \in Nodes : H[k][m] = Return(name, dir, H[k - 1], m)
      BY <1>1, <1>2, <2>1, <2>3 DEF Levels
    <3>3. ASSUME NEW m \in Nodes, d[m] <= StackCapacity + 1 PROVE Fits(H[k][m], m, d)
      <4>1. Fits(Return(name, dir, H[k - 1], m), m, d)
        BY <3>1, <3>3, ReturnFits
      <4> QED
        BY <3>2, <4>1
    <3> QED
      BY <2>1, <3>3
  <2> QED
    BY <2>2, <2>3
<1>4. LevelFits(N)
    BY <1>1, <1>3
<1> QED
    BY <1>2, <1>4

\* The nodes on the stack are as deep as they are far from its bottom.
LEMMA StackDepth ==
    ASSUME OnWay, NEW d, Depth(d)
    PROVE  d[Cwd] = Len(stack)
<1> DEFINE I == {i \in 1..Len(stack) : d[stack[i]] # i}
<1>1. I \subseteq Nat /\ Len(stack) \in 1..Len(stack)
    BY Stacked
<1>2. ASSUME I # {} PROVE FALSE
  <2>1. PICK i \in I : \A k \in I : i <= k
    <3> HIDE DEF I
    <3> QED
      BY <1>1, <1>2, MinIsFirst
  <2>2. i # 1
    BY <2>1 DEF OnWay, Depth
  <2>3. /\ i - 1 \in 1..(Len(stack) - 1) /\ i - 1 \in 1..Len(stack) /\ (i - 1) + 1 = i
        /\ i - 1 \notin I
    BY <2>1, <2>2, Stacked
  <2>4. d[stack[i - 1]] = i - 1 /\ stack[i - 1] \in Nodes
    BY <2>3, Stacked
  <2>5. stack[i] \in ToSet(kids[stack[i - 1]])
    BY <2>3 DEF OnWay
  <2> QED
    BY <2>1, <2>3, <2>4, <2>5 DEF Depth
<1> QED
    BY <1>1, <1>2 DEF Cwd

\* A search from the working directory fills no more than the slots of its stack: from the
\* root, which it does not push, or from a node that is at least one deeper.
LEMMA SearchFits ==
    ASSUME Inv, OnWay, NEW d, Depth(d), Len(stack) <= StackCapacity, file[Root].name = "~",
           NEW name, NEW dir
    PROVE  /\ Visited(name, dir, Cwd) \in Seq(Nodes)
           /\ Len(Visited(name, dir, Cwd)) <= StackCapacity
<1>1. Cwd \in Nodes /\ StackCapacity \in Nat \ {0} /\ d[Cwd] \in Nat /\ TreeTypeOK
    BY Stacked, FileSystemAssumption DEF Depth, Inv
<1>2. d[Cwd] = Len(stack)
    BY StackDepth
<1>3. PICK r : r = Helper(name, dir)[Cwd]
    OBVIOUS
<1>4. Fits(r, Cwd, d)
    BY <1>1, <1>2, <1>3, HelperFits
<1>5. CASE ~r.hit
  <2>1. Visited(name, dir, Cwd) = <<>>
    BY <1>3, <1>5 DEF Visited
  <2> QED
    BY <1>1, <2>1
<1>6. CASE r.hit
  <2>1. PICK s : s = r.pushed
    OBVIOUS
  <2>2. s \in Seq(Nodes) /\ Len(s) + d[Cwd] <= StackCapacity + 1
    BY <1>4, <1>6, <2>1 DEF Fits
  <2>3. PICK k \in Nat : k = Len(s)
    BY <2>2, LenProperties
  <2>4. k + 1 <= StackCapacity
    <3>1. CASE Cwd = Root
      BY <1>1, <1>4, <1>6, <2>1, <2>3, <3>1 DEF Fits, Depth
    <3>2. CASE Cwd # Root
      <4>1. Len(stack) # 1
        BY <3>2 DEF OnWay, Cwd
      <4>2. d[Cwd] >= 2
        <5>1. PICK n \in Nat \ {0} : n = Len(stack)
          BY Stacked
        <5> QED
          BY <1>2, <4>1, <5>1
      <4> QED
        BY <1>1, <2>2, <2>3, <4>2
    <3> QED
      BY <3>1, <3>2
  <2>5. <<Cwd>> \o s \in Seq(Nodes) /\ Len(<<Cwd>> \o s) = 1 + k
    BY <1>1, <2>2, <2>3
  <2>6. Visited(name, dir, Cwd) = <<Cwd>> \o s
    BY <1>3, <1>6, <2>1 DEF Visited
  <2> QED
    BY <1>1, <2>3, <2>4, <2>5, <2>6
<1> QED
    BY <1>5, <1>6

\* A command that leaves the tree alone leaves the depths alone.
LEMMA SameDepth == ASSUME \E d : Depth(d), UNCHANGED kids PROVE (\E d : Depth(d))'
BY DEF Depth

\* What a command does to the tree leaves depths, given that a node is added where cd can go.
LEMMA TreeDepth ==
    ASSUME Inv, NoDangling, NEW d, Depth(d), Root \in live,
           \/ \E p \in live, n \in Nodes : d[p] <= StackCapacity /\ AddNew(p, n)
           \/ \E p \in Nodes, c \in Nodes : RemoveChild(p, c)
           \/ Destroy
    PROVE  (\E e : Depth(e))'
<1>1. TreeTypeOK /\ live \subseteq Nodes
    BY DEF Inv, TreeTypeOK
<1>2. ASSUME NEW p \in live, NEW n \in Nodes, d[p] <= StackCapacity, AddNew(p, n)
      PROVE  \E e : Depth(e)'
  <2>1. p \in Nodes /\ n # p /\ n # Root /\ n \notin live
    BY <1>1, <1>2 DEF AddNew
  <2>2. CASE Leak(p, n)
    BY <2>2 DEF Leak, Depth
  <2>3. CASE Attach(p, n)
    <3> DEFINE e == [d EXCEPT ![n] = d[p] + 1]
    <3>1. /\ kids'[n] = <<>> /\ kids'[p] = Append(kids[p], n)
          /\ \A m \in Nodes \ {p, n} : kids'[m] = kids[m]
      BY <1>1, <2>1, <2>3 DEF Attach, TreeTypeOK
    <3>2. e \in [Nodes -> Nat] /\ e[Root] = 1 /\ e[n] = d[p] + 1
          /\ \A m \in Nodes \ {n} : e[m] = d[m]
      BY <1>1, <2>1 DEF Depth
    <3>3. ASSUME NEW m \in Nodes, NEW c \in ToSet(kids'[m])
          PROVE  e[c] = e[m] + 1 /\ e[m] <= StackCapacity
      <4>1. m # n
        BY <3>1, <3>3 DEF ToSet
      <4>2. CASE c \in ToSet(kids[m])
        <5>1. c \in Nodes /\ c # n
          BY <1>1, <2>1, <4>2, OneParent
        <5> QED
          BY <3>2, <4>1, <4>2, <5>1 DEF Depth
      <4>3. CASE c \notin ToSet(kids[m])
        <5>1. m = p
          BY <3>1, <3>3, <4>1, <4>3
        <5>2. c = n
          <6>1. kids[p] \in Seq(Nodes)
            BY <1>1, <2>1 DEF TreeTypeOK
          <6> QED
            BY <3>1, <3>3, <4>3, <5>1, <6>1, AppendProperties DEF ToSet
        <5> QED
          BY <1>2, <2>1, <3>2, <5>1, <5>2
      <4> QED
        BY <4>2, <4>3
    <3> HIDE DEF e
    <3>4. Depth(e)'
      BY <3>2, <3>3 DEF Depth
    <3> QED
      BY <3>4
  <2> QED
    BY <1>2, <2>2, <2>3 DEF AddNew
<1>3. ASSUME \A m \in Nodes : ToSet(kids'[m]) \subseteq ToSet(kids[m]) PROVE Depth(d)'
    BY <1>3 DEF Depth
<1>4. ASSUME NEW p \in Nodes, NEW c \in Nodes, RemoveChild(p, c) PROVE Depth(d)'
  <2>1. ASSUME NEW m \in Nodes PROVE ToSet(kids'[m]) \subseteq ToSet(kids[m])
    <3>1. \/ kids'[m] = <<>> \/ kids'[m] = kids[m]
          \/ kids'[m] = RemoveFirst(kids[m], c)
      BY <1>4 DEF RemoveChild, Detach
    <3>2. ToSet(RemoveFirst(kids[m], c)) \subseteq ToSet(kids[m])
      BY <1>1, Linked, RemovedFrom DEF TreeTypeOK
    <3> QED
      BY <3>1, <3>2 DEF ToSet
  <2> QED
    BY <1>3, <2>1
<1>5. CASE Destroy
  <2>1. ASSUME NEW m \in Nodes PROVE ToSet(kids'[m]) \subseteq ToSet(kids[m])
    <3>1. kids'[m] = <<>> \/ kids'[m] = kids[m]
      BY <1>5 DEF Destroy
    <3> QED
      BY <3>1 DEF ToSet
  <2> QED
    BY <1>3, <2>1
<1> QED
    BY <1>2, <1>4, <1>5

(***************************************************************************)
(* The whole invariant: the depths exist, and the shell's own variables    *)
(* have the types and the bounds that the search needs.                    *)
(***************************************************************************)
FileMaps == [Nodes -> [name : Words \cup {"~", ""}, directory : BOOLEAN]]
Deep == \E d : Depth(d)
StackFits == stack \in Seq(Nodes) /\ (state = "running" => Len(stack) \in 1..StackCapacity)
RootNamed == file \in FileMaps /\ (state = "running" => file[Root].name = "~")
VisitedFits == visited \in Seq(Nodes) /\ Len(visited) <= StackCapacity

ShellInv == Deep /\ StackFits /\ RootNamed /\ VisitedFits

\* What the invariants say of the working directory while the shell runs.
LEMMA AtCwd ==
    ASSUME FsInv, StackFits, state = "running"
    PROVE  /\ Inv /\ NoDangling /\ OnWay
           /\ Cwd \in live /\ Cwd \in Nodes /\ Root \in live
           /\ StackCapacity \in Nat \ {0}
           /\ Len(stack) \in Nat \ {0} /\ Len(stack) <= StackCapacity
<1>1. Inv /\ NoDangling /\ OnWay
    BY DEF FsInv
<1>2. Len(stack) \in 1..Len(stack)
    BY <1>1, Stacked
<1>3. Cwd \in Hanging
    BY <1>1, <1>2, StackHangs DEF Cwd
<1>4. Root \in live /\ Hanging \subseteq live
    BY <1>1, HangingLives DEF Inv, OnWay
<1>5. StackCapacity \in Nat /\ StackCapacity # 0
    BY FileSystemAssumption
<1>6. Len(stack) <= StackCapacity
    BY <1>2, <1>5 DEF StackFits
<1> QED
    BY <1>1, <1>3, <1>4, <1>5, <1>6, Stacked

\* A command keeps the depths: what it adds, it adds to the working directory.
LEMMA CommandDepth ==
    ASSUME FsInv, ShellInv, state = "running", NEW c, NEW a, Do(c, a)
    PROVE  Deep'
<1>1. /\ Inv /\ NoDangling /\ OnWay /\ Root \in live
      /\ Cwd \in live /\ Cwd \in Nodes /\ Len(stack) <= StackCapacity
    BY AtCwd DEF ShellInv
<1>2. PICK d : Depth(d)
    BY DEF ShellInv, Deep
<1>3. d[Cwd] <= StackCapacity
    BY <1>1, <1>2, StackDepth
<1>4. SameTree => Deep'
    BY <1>2, SameDepth DEF SameTree, Deep
<1>5. ASSUME NEW dir, Make(a, dir) PROVE Deep'
    BY <1>1, <1>2, <1>3, <1>4, <1>5, TreeDepth DEF Make, Deep
<1>6. ASSUME Rm(a) PROVE Deep'
  <2>1. ASSUME NEW k \in Doomed(a), RemoveChild(Cwd, k) PROVE Deep'
    <3>1. k \in ToSet(kids[Cwd])
      BY DEF Doomed, Child
    <3>2. k \in Nodes
      BY <1>1, <3>1, ChildOffStack
    <3> QED
      BY <1>1, <1>2, <2>1, <3>2, TreeDepth DEF Deep
  <2> QED
    BY <1>4, <1>6, <2>1 DEF Rm
<1>7. ASSUME Kill PROVE Deep'
    BY <1>1, <1>2, <1>7, TreeDepth DEF Kill, Deep
<1>8. Cd(a) \/ Idle \/ (\E dir : Find(a, dir)) => SameTree
    BY DEF Cd, CdUp, CdDown, CdNowhere, Idle, Find
<1> QED
    BY <1>4, <1>5, <1>6, <1>7, <1>8, Zenon DEF Do

\* cd pushes only while there is a slot; the other commands leave the stack alone.
LEMMA CommandStack ==
    ASSUME FsInv, ShellInv, state = "running", NEW c, NEW a, Do(c, a)
    PROVE  StackFits' /\ state' \in {"running", "bye", "overrun"}
<1>1. /\ Inv /\ NoDangling /\ OnWay /\ stack \in Seq(Nodes)
      /\ StackCapacity \in Nat \ {0}
      /\ Len(stack) \in Nat \ {0} /\ Len(stack) <= StackCapacity
    BY AtCwd DEF ShellInv, StackFits
<1>2. PICK len \in Nat \ {0} : len = Len(stack)
    BY <1>1
<1>3. UNCHANGED <<stack, state>> => StackFits' /\ state' = "running"
    BY DEF ShellInv, StackFits
<1>4. ASSUME CdUp(a), len # 1 PROVE StackFits'
  <2>1. Front(stack) \in Seq(Nodes) /\ Len(Front(stack)) = len - 1
    BY <1>1, <1>2, <1>4, SubSeqProperties, ElementOfSeq DEF Front
  <2>2. stack' = Front(stack)
    BY <1>2, <1>4 DEF CdUp
  <2> QED
    BY <1>1, <1>2, <1>4, <2>1, <2>2 DEF StackFits
<1>5. CdUp(a) => StackFits' /\ state' = "running"
    BY <1>2, <1>3, <1>4 DEF CdUp
<1>6. ASSUME CdDown(a) PROVE StackFits' /\ state' \in {"running", "overrun"}
  <2>1. PICK k \in ToSet(kids[Cwd]) :
          IF len = StackCapacity THEN state' = "overrun" /\ UNCHANGED stack
          ELSE stack' = Append(stack, k) /\ UNCHANGED state
    BY <1>2, <1>6 DEF CdDown, Child
  <2>2. k \in Nodes
    BY <1>1, ChildOffStack
  <2>3. Append(stack, k) \in Seq(Nodes) /\ Len(Append(stack, k)) = len + 1
    BY <1>1, <1>2, <2>2, AppendProperties
  <2>4. CASE len = StackCapacity
    BY <1>1, <2>1, <2>4 DEF StackFits
  <2>5. CASE len # StackCapacity
    <3>1. len + 1 \in 1..StackCapacity
      BY <1>1, <1>2, <2>5
    <3> QED
      BY <2>1, <2>3, <2>5, <3>1 DEF StackFits
  <2> QED
    BY <2>4, <2>5
<1>7. Kill => StackFits' /\ state' = "bye"
    BY DEF Kill, StackFits
<1>8. CdNowhere(a) \/ Rm(a) \/ Idle \/ (\E dir : Make(a, dir) \/ Find(a, dir))
         => UNCHANGED <<stack, state>>
    BY DEF CdNowhere, Rm, Idle, Make, Find
<1> QED
    BY <1>3, <1>5, <1>6, <1>7, <1>8, Zenon DEF Do, Cd

\* The root, first on the stack, is in no subtree that rm frees.
LEMMA RootStays ==
    ASSUME Inv, NoDangling, OnWay, NEW k \in ToSet(kids[Cwd])
    PROVE  Root \notin Subtree(k)
<1>1. 1 \in 1..Len(stack) /\ stack[1] = Root
    BY Stacked DEF OnWay
<1>2. \A i \in 1..Len(stack) : stack[i] \notin Subtree(k)
    BY ChildOffStack
<1> QED
    BY <1>1, <1>2

\* The root keeps its name, and every node has a name of its type.
LEMMA CommandNames ==
    ASSUME FsInv, ShellInv, state = "running", NEW c, NEW a \in Words \cup {""}, Do(c, a)
    PROVE  RootNamed'
<1>1. /\ Inv /\ NoDangling /\ OnWay /\ Root \in live /\ Cwd \in Nodes
      /\ Len(stack) \in Nat \ {0} /\ Root \in Nodes
    BY AtCwd, TreeAssumption DEF ShellInv
<1>2. file \in FileMaps /\ file[Root].name = "~"
    BY DEF ShellInv, RootNamed
<1>3. UNCHANGED file => RootNamed'
    BY <1>2 DEF RootNamed
<1>4. NoFile \in [name : Words \cup {"~", ""}, directory : BOOLEAN]
    BY DEF NoFile, File
<1>5. ASSUME NEW dir \in BOOLEAN, NEW n \in Nodes, AddNew(Cwd, n),
             file' = [file EXCEPT ![n] = File(a, dir)]
      PROVE  RootNamed'
  <2>1. n # Root
    BY <1>1, <1>5 DEF AddNew
  <2>2. File(a, dir) \in [name : Words \cup {"~", ""}, directory : BOOLEAN]
    BY DEF File
  <2>3. file' \in FileMaps
    BY <1>2, <1>5, <2>2 DEF FileMaps
  <2>4. file'[Root] = file[Root]
    BY <1>1, <1>2, <1>5, <2>1 DEF FileMaps
  <2> QED
    BY <1>2, <2>3, <2>4 DEF RootNamed
<1>6. ASSUME NEW dir \in BOOLEAN, Make(a, dir) PROVE RootNamed'
    BY <1>3, <1>5, <1>6 DEF Make, SameTree
<1>7. ASSUME NEW k \in Doomed(a),
             file' = [m \in Nodes |-> IF m \in Subtree(k) THEN NoFile ELSE file[m]]
      PROVE  RootNamed'
  <2>1. k \in ToSet(kids[Cwd])
    BY DEF Doomed, Child
  <2>4. Root \notin Subtree(k)
    BY <1>1, <2>1, RootStays
  <2>5. file'[Root] = file[Root] /\ file' \in FileMaps
    BY <1>1, <1>2, <1>4, <1>7, <2>4 DEF FileMaps
  <2> QED
    BY <1>2, <2>5 DEF RootNamed
<1>8. ASSUME Rm(a) PROVE RootNamed'
    BY <1>3, <1>7, <1>8 DEF Rm, SameTree
<1>9. ASSUME Kill PROVE RootNamed'
  <2>1. file' \in FileMaps
    BY <1>2, <1>4, <1>9 DEF Kill, FileMaps
  <2> QED
    BY <1>9, <2>1 DEF Kill, RootNamed
<1>10. Cd(a) \/ Idle \/ (\E dir : Find(a, dir)) => UNCHANGED file
    BY DEF Cd, CdUp, CdDown, CdNowhere, Idle, Find, SameTree
<1> QED
    BY <1>3, <1>6, <1>8, <1>9, <1>10 DEF Do

\* Only ffind and dfind fill a search stack.
LEMMA CommandVisited ==
    ASSUME FsInv, ShellInv, state = "running", NEW c, NEW a, Do(c, a)
    PROVE  VisitedFits'
<1>1. Inv /\ OnWay /\ Len(stack) <= StackCapacity /\ StackCapacity \in Nat \ {0}
    BY AtCwd DEF ShellInv
<1>2. NoSearch => VisitedFits'
  <2>1. <<>> \in Seq(Nodes) /\ Len(<<>>) = 0 /\ 0 <= StackCapacity
    BY <1>1
  <2> QED
    BY <2>1 DEF NoSearch, VisitedFits
<1>3. ASSUME NEW dir, visited' = Visited(a, dir, Cwd) PROVE VisitedFits'
  <2>1. PICK d : Depth(d)
    BY DEF ShellInv, Deep
  <2>2. file[Root].name = "~"
    BY DEF ShellInv, RootNamed
  <2> QED
    BY <1>1, <1>3, <2>1, <2>2, SearchFits DEF VisitedFits
<1>4. ASSUME NEW dir, Find(a, dir) PROVE VisitedFits'
    BY <1>2, <1>3, <1>4 DEF Find
<1>5. Cd(a) \/ Idle \/ Kill \/ Rm(a) \/ (\E dir : Make(a, dir)) => NoSearch
    BY DEF Cd, CdUp, CdDown, CdNowhere, Idle, Kill, Rm, Make
<1> QED
    BY <1>2, <1>4, <1>5, Zenon DEF Do

\* The initial state: a root of depth one, its name, and nothing searched for.
LEMMA InitShellInv == Init => ShellInv /\ TypeOK
<1> SUFFICES ASSUME Init PROVE ShellInv /\ TypeOK
    OBVIOUS
<1>1. TreeInit /\ Root \in Nodes /\ StackCapacity \in Nat \ {0}
    BY TreeAssumption, FileSystemAssumption DEF Init
<1>2. Deep
  <2> DEFINE d == [m \in Nodes |-> 1]
  <2>1. \A m \in Nodes : kids[m] = <<>>
    BY <1>1 DEF TreeInit
  <2>2. Depth(d)
    BY <1>1, <2>1 DEF Depth, ToSet
  <2> QED
    BY <2>2 DEF Deep
<1>3. StackFits /\ VisitedFits
  <2>1. stack = <<Root>> /\ visited = <<>>
    BY DEF Init
  <2>2. stack \in Seq(Nodes) /\ Len(stack) = 1 /\ visited \in Seq(Nodes) /\ Len(visited) = 0
    BY <1>1, <2>1
  <2> QED
    BY <1>1, <2>2 DEF StackFits, VisitedFits
<1>4. RootNamed
  <2>1. file = [n \in Nodes |-> IF n = Root THEN File("~", TRUE) ELSE NoFile]
    BY DEF Init
  <2>2. /\ File("~", TRUE) \in [name : Words \cup {"~", ""}, directory : BOOLEAN]
        /\ NoFile \in [name : Words \cup {"~", ""}, directory : BOOLEAN]
        /\ File("~", TRUE).name = "~"
    BY DEF File, NoFile
  <2>3. file \in FileMaps /\ file[Root] = File("~", TRUE)
    BY <1>1, <2>1, <2>2 DEF FileMaps
  <2> QED
    BY <2>2, <2>3 DEF RootNamed
<1>5. TypeOK
  <2>1. TreeTypeOK
    BY <1>1, InitInv DEF Inv
  <2>2. command = "" /\ argument = "" /\ state = "running"
    BY DEF Init
  <2> QED
    BY <1>3, <1>4, <2>1, <2>2 DEF TypeOK, StackFits, RootNamed, FileMaps, VisitedFits
<1> QED
    BY <1>2, <1>3, <1>4, <1>5 DEF ShellInv

\* The command and the argument a line leaves are words of the buffers' types.
LEMMA LineTypes ==
    ASSUME TypeOK, [Next]_vars
    PROVE  /\ command' \in Commands \cup {""} /\ argument' \in Words \cup {""}
           /\ \/ UNCHANGED vars
              \/ state = "running" /\ \E c : Do(c, argument')
BY DEF TypeOK, Next, TwoWords, OneWord, NoWord, vars

\* Every step keeps all three invariants.
LEMMA StepShellInv == FsInv /\ ShellInv /\ TypeOK /\ [Next]_vars => ShellInv' /\ TypeOK'
<1> SUFFICES ASSUME FsInv, ShellInv, TypeOK, [Next]_vars PROVE ShellInv' /\ TypeOK'
    OBVIOUS
<1>1. CASE UNCHANGED vars
  <2>1. ShellInv'
    BY <1>1 DEF vars, ShellInv, Deep, Depth, StackFits, RootNamed, VisitedFits
  <2> QED
    BY <1>1, <2>1 DEF vars, TypeOK, TreeTypeOK
<1>2. ASSUME state = "running", NEW c, Do(c, argument') PROVE ShellInv' /\ TypeOK'
  <2>1. argument' \in Words \cup {""} /\ command' \in Commands \cup {""}
    BY LineTypes
  <2>2. ShellInv' /\ state' \in {"running", "bye", "overrun"}
    BY <1>2, <2>1, CommandDepth, CommandStack, CommandNames, CommandVisited DEF ShellInv
  <2>3. TreeTypeOK'
    BY <1>2, CommandInv DEF FsInv, Inv
  <2> QED
    BY <2>1, <2>2, <2>3 DEF TypeOK, ShellInv, StackFits, RootNamed, FileMaps, VisitedFits
<1> QED
    BY <1>1, <1>2, LineTypes

\* The shell's working directory never dangles, nor does any pointer of its tree: the stack
\* is a way down from the root through nodes that exist, whatever lines are typed, for every
\* set of nodes, words and capacity.  And no search overruns its own stack.
THEOREM WorkingDirectoryExists == Spec => []CwdIsAPath
<1>1. FsInv /\ ShellInv /\ TypeOK => CwdIsAPath
    BY DEF FsInv, CwdIsAPath, StackIsAPath, OnWay, ShellInv, VisitedFits
<1> QED
    BY <1>1, InitFsInv, StepFsInv, InitShellInv, StepShellInv, PTL DEF Spec

----------------------------------------------------------------------------
(***************************************************************************)
(* The promise: a set of paths.  What follows speaks of any lists of       *)
(* children k and files f, so that it can be said of a state and of the    *)
(* next: h are the nodes that hang in the tree, and p gives each its path. *)
(***************************************************************************)
Closes(k, S) == \A m \in S : \A c \in ToSet(k[m]) : c \in S

\* The nodes h of a tree: closed under children, none the child of two, the root nobody's,
\* and no part of them that holds the root is closed.
Grown(k, h) ==
    /\ h \in SUBSET Nodes /\ Root \in h /\ Closes(k, h)
    /\ \A m \in h : \A c \in ToSet(k[m]) : c # Root /\ \A q \in Nodes : c \in ToSet(k[q]) => q = m
    /\ \A S \in SUBSET h : Root \in S /\ Closes(k, S) => S = h

\* Only directories have children, each of which has a word for its name; and no two of them
\* have the same name and flag.
Sorted(k, f, h) ==
    \A m \in h : \A c \in ToSet(k[m]) :
       /\ f[m].directory = TRUE /\ f[c].name \in Words
       /\ \A d \in ToSet(k[m]) : f[c] = f[d] => c = d

\* The paths: a child's is its parent's and its own name.
Named(k, f, p, h) ==
    /\ p[Root] = <<>>
    /\ \A m \in h : /\ p[m] \in Seq(Words)
                    /\ \A c \in ToSet(k[m]) : p[c] = Append(p[m], f[c].name)

Layout(k, f, p, h) ==
    f \in FileMaps /\ Grown(k, h) /\ Sorted(k, f, h) /\ Named(k, f, p, h)

\* A node of the tree is the root or a child, and a child's path is not empty.
LEMMA RootOrChild ==
    ASSUME NEW k, NEW f, NEW p, NEW h, Layout(k, f, p, h), NEW m \in h, m # Root
    PROVE  \E q \in h : /\ m \in ToSet(k[q]) /\ p[q] \in Seq(Words) /\ f[m].name \in Words
                        /\ p[m] = Append(p[q], f[m].name) /\ p[m] # <<>>
<1>1. Grown(k, h) /\ Sorted(k, f, h) /\ Named(k, f, p, h)
    BY DEF Layout
<1>2. \E q \in h : m \in ToSet(k[q])
  <2> DEFINE S == {n \in h : n = Root \/ \E q \in h : n \in ToSet(k[q])}
  <2>1. Root \in S /\ S \in SUBSET h
    BY <1>1 DEF Grown
  <2>2. Closes(k, S)
    BY <1>1 DEF Grown, Closes
  <2>3. S = h
    BY <1>1, <2>1, <2>2 DEF Grown
  <2> QED
    BY <2>3
<1>3. PICK q \in h : m \in ToSet(k[q])
    BY <1>2
<1>4. p[q] \in Seq(Words) /\ f[m].name \in Words /\ p[m] = Append(p[q], f[m].name)
    BY <1>1, <1>3 DEF Sorted, Named
<1>5. ASSUME NEW s \in Seq(Words), NEW x \in Words PROVE Append(s, x) # <<>>
    BY <1>5, AppendProperties
<1> QED
    BY <1>3, <1>4, <1>5

\* Name and flag are all of a file.
LEMMA FileIs ==
    ASSUME NEW f \in FileMaps, NEW m \in Nodes, NEW n \in Nodes,
           f[m].name = f[n].name, f[m].directory = f[n].directory
    PROVE  f[m] = f[n]
<1>1. f[m] = [name |-> f[m].name, directory |-> f[m].directory]
    BY DEF FileMaps
<1>2. f[n] = [name |-> f[n].name, directory |-> f[n].directory]
    BY DEF FileMaps
<1> QED
    BY <1>1, <1>2

\* What has one of w's children's paths is that child.
Lists(k, f, p, h, w) ==
    \A n \in h, a \in Words : p[n] = Append(p[w], a) => n \in ToSet(k[w]) /\ f[n].name = a

\* No other directory has w's path; no node has another's path and flag.
OneDirectory(f, p, h, w) == \A n \in h : p[n] = p[w] /\ f[n].directory = TRUE => n = w
OneEach(f, p, h) == \A m, n \in h : p[n] = p[m] /\ f[n].directory = f[m].directory => n = m

\* Where the parent is the only directory of its path, what has a child's path is the child.
LEMMA SameChild ==
    ASSUME NEW k, NEW f, NEW p, NEW h, Layout(k, f, p, h), NEW w \in h, OneDirectory(f, p, h, w)
    PROVE  Lists(k, f, p, h, w)
<1>1. Grown(k, h) /\ Sorted(k, f, h) /\ Named(k, f, p, h)
    BY DEF Layout
<1> SUFFICES ASSUME NEW n \in h, NEW a \in Words, p[n] = Append(p[w], a)
             PROVE  n \in ToSet(k[w]) /\ f[n].name = a
    BY DEF Lists
<1>2. PICK s \in Seq(Words) : s = p[w] /\ p[n] = Append(s, a)
    BY <1>1 DEF Named
<1>3. n # Root
    BY <1>1, <1>2, AppendProperties DEF Named
<1>4. PICK q \in h : /\ n \in ToSet(k[q]) /\ p[q] \in Seq(Words) /\ f[n].name \in Words
                     /\ p[n] = Append(p[q], f[n].name)
    BY <1>3, RootOrChild
<1>5. PICK t \in Seq(Words), x \in Words : t = p[q] /\ x = f[n].name
    BY <1>4
<1>6. t = s /\ x = a
  <2>1. Append(t, x) = Append(s, a)
    BY <1>2, <1>4, <1>5
  <2> QED
    BY <2>1, AppendInjective
<1>7. f[q].directory = TRUE
    BY <1>1, <1>4 DEF Sorted
<1>8. q = w
    BY <1>2, <1>5, <1>6, <1>7 DEF OneDirectory
<1> QED
    BY <1>4, <1>5, <1>6, <1>8

\* And that holds of the root, and of the children where it holds of their parent.
LEMMA SamePlace ==
    ASSUME NEW k, NEW f, NEW p, NEW h, Layout(k, f, p, h)
    PROVE  OneEach(f, p, h)
<1>1. f \in FileMaps /\ Grown(k, h) /\ Sorted(k, f, h) /\ Named(k, f, p, h)
    BY DEF Layout
<1> DEFINE Only(x) == \A y \in h : p[y] = p[x] /\ f[y].directory = f[x].directory => y = x
           S == {x \in h : Only(x)}
<1>2. Only(Root)
    BY <1>1, RootOrChild DEF Named
<1>3. ASSUME NEW x \in S, NEW c \in ToSet(k[x]) PROVE c \in S
  <2>1. x \in h /\ c \in h /\ f[x].directory = TRUE /\ h \subseteq Nodes
    BY <1>1 DEF Grown, Closes, Sorted
  <2>2. f[c].name \in Words /\ p[c] = Append(p[x], f[c].name)
    BY <1>1, <2>1 DEF Sorted, Named
  <2>3. Lists(k, f, p, h, x)
    <3>1. OneDirectory(f, p, h, x)
      BY <2>1 DEF OneDirectory
    <3> QED
      BY <2>1, <3>1, SameChild, Zenon
  <2>4. ASSUME NEW y \in h, p[y] = p[c], f[y].directory = f[c].directory PROVE y = c
    <3>1. y \in ToSet(k[x]) /\ f[y].name = f[c].name
      BY <2>2, <2>3, <2>4 DEF Lists
    <3>2. f[y] = f[c]
      BY <1>1, <2>1, <2>4, <3>1, FileIs
    <3> QED
      BY <1>1, <2>1, <3>1, <3>2 DEF Sorted
  <2> QED
    BY <2>1, <2>4
<1>4. S = h
  <2>1. S \in SUBSET h /\ Root \in S /\ Closes(k, S)
    BY <1>1, <1>2, <1>3 DEF Closes, Grown
  <2> QED
    BY <1>1, <2>1 DEF Grown
<1> QED
    BY <1>4 DEF OneEach

\* So what is called so in a directory is its child.
LEMMA InPlace ==
    ASSUME NEW k, NEW f, NEW p, NEW h, Layout(k, f, p, h), NEW w \in h, f[w].directory = TRUE
    PROVE  Lists(k, f, p, h, w)
<1>1. OneEach(f, p, h)
    BY SamePlace, Zenon
<1>2. OneDirectory(f, p, h, w)
    BY <1>1 DEF OneEach, OneDirectory
<1> QED
    BY <1>2, SameChild, Zenon

\* Beginnings, place by place.
LEMMA PrefixIs ==
    ASSUME NEW s \in Seq(Words), NEW t \in Seq(Words)
    PROVE  Paths!IsPrefix(s, t) <=> Len(s) <= Len(t) /\ \A i \in 1..Len(s) : s[i] = t[i]
<1>1. Len(s) \in Nat /\ Len(t) \in Nat
    BY LenProperties
<1>2. CASE Len(s) <= Len(t)
  <2> DEFINE u == SubSeq(s, 1, Len(s))
             v == SubSeq(t, 1, Len(s))
  <2>1. /\ u \in Seq(Words) /\ Len(u) = Len(s)
        /\ \A i \in 1..Len(s) : u[i] = s[i]
    BY <1>1, SubSeqProperties, ElementOfSeq
  <2>2. \A i \in 1..Len(s) : t[i] \in Words
    BY <1>1, <1>2, ElementOfSeq
  <2>3. /\ v \in Seq(Words) /\ Len(v) = Len(s)
        /\ \A i \in 1..Len(s) : v[i] = t[i]
    BY <1>1, <2>2, SubSeqProperties
  <2>4. Paths!IsPrefix(s, t) <=> u = v
    BY <1>2 DEF Paths!IsPrefix
  <2> HIDE DEF u, v
  <2>5. u = v <=> \A i \in 1..Len(s) : u[i] = v[i]
    BY <2>1, <2>3, SeqEqual
  <2> QED
    BY <1>2, <2>1, <2>3, <2>4, <2>5
<1>3. CASE ~(Len(s) <= Len(t))
    BY <1>3 DEF Paths!IsPrefix
<1> QED
    BY <1>2, <1>3

\* What begins a path with one more name is that path, or begins the path without it.
LEMMA PrefixAppend ==
    ASSUME NEW s \in Seq(Words), NEW t \in Seq(Words), NEW x \in Words
    PROVE  /\ Paths!IsPrefix(s, s)
           /\ Paths!IsPrefix(s, t) => Paths!IsPrefix(s, Append(t, x)) /\ s # Append(t, x)
           /\ Paths!IsPrefix(s, Append(t, x)) => s = Append(t, x) \/ Paths!IsPrefix(s, t)
           /\ Paths!IsPrefix(s, <<>>) => s = <<>>
<1>1. PICK m \in Nat, n \in Nat : m = Len(s) /\ n = Len(t)
    BY LenProperties
<1>2. PICK u \in Seq(Words) : u = Append(t, x)
    BY AppendProperties
<1>3. Len(u) = n + 1 /\ u[n + 1] = x /\ \A i \in 1..n : u[i] = t[i]
    BY <1>1, <1>2, AppendProperties
<1>4. Paths!IsPrefix(s, s)
    BY <1>1, PrefixIs
<1>5. Paths!IsPrefix(s, t) <=> m <= n /\ \A i \in 1..m : s[i] = t[i]
    BY <1>1, PrefixIs
<1>6. Paths!IsPrefix(s, u) <=> m <= n + 1 /\ \A i \in 1..m : s[i] = u[i]
    BY <1>1, <1>3, PrefixIs
<1>7. ASSUME Paths!IsPrefix(s, t) PROVE Paths!IsPrefix(s, u) /\ s # u
  <2>1. \A i \in 1..m : i \in 1..n
    BY <1>5, <1>7
  <2> QED
    BY <1>1, <1>3, <1>5, <1>6, <1>7, <2>1
<1>8. ASSUME Paths!IsPrefix(s, u) PROVE s = u \/ Paths!IsPrefix(s, t)
  <2>1. CASE m = n + 1
    BY <1>1, <1>3, <1>6, <1>8, <2>1, SeqEqual
  <2>2. CASE m # n + 1
    <3>1. m <= n /\ \A i \in 1..m : i \in 1..n
      BY <1>6, <1>8, <2>2
    <3> QED
      BY <1>3, <1>5, <1>6, <1>8, <3>1
  <2> QED
    BY <2>1, <2>2
<1>9. ASSUME Paths!IsPrefix(s, <<>>) PROVE s = <<>>
  <2>1. <<>> \in Seq(Words) /\ Len(<<>>) = 0
    OBVIOUS
  <2>2. m <= 0
    BY <1>1, <1>9, <2>1, PrefixIs
  <2> QED
    BY <1>1, <2>2, EmptySeq
<1> QED
    BY <1>2, <1>4, <1>7, <1>8, <1>9

\* What hangs below c: closed, and no part of it that holds c is.
Branch(k, T, c) ==
    /\ T \in SUBSET Nodes /\ c \in T /\ Closes(k, T)
    /\ \A S \in SUBSET T : c \in S /\ Closes(k, S) => S = T

\* A branch hangs in the tree without the root, and is entered at its top only.
LEMMA BranchHangs ==
    ASSUME NEW k, NEW h, Grown(k, h), NEW w \in h, NEW c \in ToSet(k[w]), NEW T, Branch(k, T, c)
    PROVE  /\ T \subseteq h \ {Root}
           /\ \A m \in h : \A d \in ToSet(k[m]) : d \in T /\ d # c => m \in T
<1>1. c \in h /\ c # Root
    BY DEF Grown, Closes
<1>2. T \subseteq h \ {Root}
  <2> DEFINE S == {m \in T : m \in h /\ m # Root}
  <2>1. S \in SUBSET T /\ c \in S /\ Closes(k, S)
    BY <1>1 DEF Grown, Closes, Branch
  <2>2. S = T
    BY <2>1 DEF Branch
  <2> QED
    BY <2>2
<1>3. ASSUME NEW m \in h, NEW d \in ToSet(k[m]), d \in T, d # c, m \notin T PROVE FALSE
  <2> DEFINE S == {x \in T : x # d}
  <2>1. S \in SUBSET T /\ c \in S
    BY <1>3 DEF Branch
  <2>2. ASSUME NEW x \in S, NEW e \in ToSet(k[x]) PROVE e \in S
    <3>1. e \in T /\ x \in Nodes /\ x \in h /\ m \in Nodes
      BY <1>2, <1>3 DEF Branch, Closes, Grown
    <3>2. e # d
      BY <1>3, <3>1 DEF Grown
    <3> QED
      BY <3>1, <3>2
  <2>3. S = T
    BY <2>1, <2>2 DEF Branch, Closes
  <2> QED
    BY <1>3, <2>3
<1> QED
    BY <1>2, <1>3

\* What hangs below a node is what has its path for a beginning, where it is a directory.
Beyond(f, p, c, m) == f[c].directory = TRUE /\ p[c] # p[m] /\ Paths!IsPrefix(p[c], p[m])

\* A directory's branch is what the promise lets go with its entry; a file's is the file.
LEMMA BranchIs ==
    ASSUME NEW k, NEW f, NEW p, NEW h, Layout(k, f, p, h),
           NEW w \in h, NEW c \in ToSet(k[w]), NEW T, Branch(k, T, c)
    PROVE  \A m \in h : m \in T <=> m = c \/ Beyond(f, p, c, m)
<1>1. f \in FileMaps /\ Grown(k, h) /\ Sorted(k, f, h) /\ Named(k, f, p, h)
    BY DEF Layout
<1>2. c \in h /\ T \subseteq h
    BY <1>1, BranchHangs DEF Grown, Closes
<1>3. \A m \in h : p[m] \in Seq(Words)
    BY <1>1 DEF Named
<1>4. ASSUME NEW m \in h, NEW d \in ToSet(k[m])
      PROVE  d \in h /\ f[m].directory = TRUE /\ f[d].name \in Words /\ p[d] = Append(p[m], f[d].name)
    BY <1>1 DEF Grown, Closes, Sorted, Named
<1>5. ASSUME NEW m \in T PROVE m = c \/ Beyond(f, p, c, m)
  <2> DEFINE S == {x \in T : x = c \/ Beyond(f, p, c, x)}
  <2>1. ASSUME NEW x \in S, NEW d \in ToSet(k[x]) PROVE d \in S
    <3>1. d \in T /\ x \in h
      BY <1>2 DEF Branch, Closes
    <3>2. f[c].directory = TRUE /\ Paths!IsPrefix(p[c], p[x])
      BY <1>2, <1>3, <1>4, <3>1, PrefixAppend DEF Beyond
    <3>3. PICK s \in Seq(Words), t \in Seq(Words), a \in Words :
             s = p[c] /\ t = p[x] /\ a = f[d].name /\ p[d] = Append(t, a)
      BY <1>2, <1>3, <1>4, <3>1
    <3>4. Paths!IsPrefix(s, Append(t, a)) /\ s # Append(t, a)
      BY <3>2, <3>3, PrefixAppend
    <3> QED
      BY <3>1, <3>2, <3>3, <3>4 DEF Beyond
  <2>2. S \in SUBSET T /\ c \in S /\ Closes(k, S)
    BY <2>1 DEF Branch, Closes
  <2>3. S = T
    BY <2>2 DEF Branch
  <2> QED
    BY <2>3
<1>6. ASSUME NEW m \in h, Beyond(f, p, c, m) PROVE m \in T
  <2> DEFINE S == {x \in h : Beyond(f, p, c, x) => x \in T}
  <2>1. ASSUME NEW x \in S, NEW d \in ToSet(k[x]), Beyond(f, p, c, d) PROVE d \in T
    <3>1. PICK s \in Seq(Words), t \in Seq(Words), a \in Words :
             s = p[c] /\ t = p[x] /\ a = f[d].name /\ p[d] = Append(t, a)
      BY <1>2, <1>3, <1>4
    <3>2. Paths!IsPrefix(s, t)
      BY <2>1, <3>1, PrefixAppend DEF Beyond
    <3>3. CASE s = t
      <4>1. x = c
        <5>1. OneEach(f, p, h)
          BY SamePlace, Zenon
        <5>2. f[x].directory = f[c].directory /\ p[x] = p[c]
          BY <1>4, <2>1, <3>1, <3>3 DEF Beyond
        <5> QED
          BY <1>2, <5>1, <5>2 DEF OneEach
      <4> QED
        BY <4>1 DEF Branch, Closes
    <3>4. CASE s # t
      BY <2>1, <3>1, <3>2, <3>4 DEF Beyond, Branch, Closes
    <3> QED
      BY <3>3, <3>4
  <2>2. Root \in S
    <3>1. ~Beyond(f, p, c, Root)
      BY <1>1, <1>2, <1>3, PrefixAppend DEF Beyond, Named
    <3> QED
      BY <1>1, <3>1 DEF Grown
  <2>3. S \in SUBSET h /\ Closes(k, S)
    BY <1>4, <2>1 DEF Closes
  <2>4. S = h
    BY <1>1, <2>2, <2>3 DEF Grown
  <2> QED
    BY <1>6, <2>4
<1> QED
    BY <1>2, <1>5, <1>6 DEF Branch

\* mkdir and touch: a fresh node, nobody's child, becomes one of w, where nothing has its
\* name and flag.
Adds(k, f, h, kk, w, n, a, dir) ==
    /\ f[w].directory = TRUE /\ n \in Nodes \ h /\ \A m \in Nodes : n \notin ToSet(k[m])
    /\ \A c \in ToSet(k[w]) : f[c] # File(a, dir)
    /\ ToSet(kk[n]) = {} /\ ToSet(kk[w]) = ToSet(k[w]) \cup {n}
    /\ \A m \in Nodes \ {n, w} : ToSet(kk[m]) = ToSet(k[m])

PathsWith(p, w, n, a) == [m \in Nodes |-> IF m = n THEN Append(p[w], a) ELSE p[m]]
FilesWith(f, n, a, dir) == [f EXCEPT ![n] = File(a, dir)]

\* The layout with the new node: its path is its parent's with its name.
LEMMA LayoutWith ==
    ASSUME NEW k, NEW f, NEW p, NEW h, Layout(k, f, p, h), NEW w \in h, NEW n \in Nodes,
           NEW a \in Words, NEW dir \in BOOLEAN, NEW kk, Adds(k, f, h, kk, w, n, a, dir)
    PROVE  Layout(kk, FilesWith(f, n, a, dir), PathsWith(p, w, n, a), h \cup {n})
<1> /\ f[w].directory = TRUE /\ n \in Nodes \ h /\ \A m \in Nodes : n \notin ToSet(k[m])
    /\ \A c \in ToSet(k[w]) : f[c] # File(a, dir)
    /\ ToSet(kk[n]) = {} /\ ToSet(kk[w]) = ToSet(k[w]) \cup {n}
    /\ \A m \in Nodes \ {n, w} : ToSet(kk[m]) = ToSet(k[m])
    BY DEF Adds
<1> DEFINE ff == [f EXCEPT ![n] = File(a, dir)]
           q == [m \in Nodes |-> IF m = n THEN Append(p[w], a) ELSE p[m]]
           hh == h \cup {n}
<1>1. /\ f \in FileMaps /\ Grown(k, h) /\ Sorted(k, f, h) /\ Named(k, f, p, h)
      /\ h \subseteq Nodes /\ n # Root /\ n # w
    BY DEF Layout, Grown
<1>2. /\ File(a, dir) \in [name : Words \cup {"~", ""}, directory : BOOLEAN]
      /\ File(a, dir).name = a
    BY DEF File
<1>3. ff \in FileMaps /\ ff[n] = File(a, dir) /\ \A m \in h : ff[m] = f[m]
    BY <1>1, <1>2 DEF FileMaps
<1>4. q[n] = Append(p[w], a) /\ \A m \in h : q[m] = p[m]
    BY <1>1
<1> HIDE DEF ff, q
<1>5. ASSUME NEW m \in hh, NEW c \in ToSet(kk[m])
      PROVE  m \in h /\ ((c \in ToSet(k[m]) /\ c \in h /\ c # n) \/ (m = w /\ c = n))
  <2>1. m \in h
    BY <1>5
  <2>2. c \in ToSet(k[m]) \/ (m = w /\ c = n)
    BY <1>1, <1>5, <2>1
  <2> QED
    BY <1>1, <2>1, <2>2 DEF Grown, Closes
<1>6. Grown(kk, hh)
  <2>1. ASSUME NEW m \in hh, NEW c \in ToSet(kk[m]), NEW x \in Nodes, c \in ToSet(kk[x]) PROVE x = m
    <3>1. c \in ToSet(k[x]) \/ (x = w /\ c = n)
      BY <1>1, <2>1
    <3> QED
      BY <1>1, <1>5, <2>1, <3>1 DEF Grown
  <2>2. ASSUME NEW S \in SUBSET hh, Root \in S, Closes(kk, S) PROVE S = hh
    <3> DEFINE R == {m \in S : m # n}
    <3>1. Root \in R /\ R \in SUBSET h
      BY <1>1, <2>2
    <3>2. ASSUME NEW m \in R, NEW c \in ToSet(k[m]) PROVE c \in R
      <4>1. m \in S /\ m \in h /\ c \in ToSet(kk[m])
        BY <1>1, <3>1, <3>2
      <4>2. c \in S /\ c # n
        BY <1>1, <2>2, <3>2, <4>1 DEF Closes
      <4> QED
        BY <4>2
    <3>3. R = h
      BY <1>1, <3>1, <3>2 DEF Grown, Closes
    <3>4. n \in S
      BY <2>2, <3>3 DEF Closes
    <3> QED
      BY <2>2, <3>3, <3>4
  <2>3. Closes(kk, hh)
    BY <1>5 DEF Closes
  <2>4. \A m \in hh : \A c \in ToSet(kk[m]) : c # Root
    BY <1>1, <1>5 DEF Grown
  <2> HIDE DEF hh
  <2>5. hh \in SUBSET Nodes /\ Root \in hh
    BY <1>1 DEF hh, Grown
  <2> QED
    BY <2>1, <2>2, <2>3, <2>4, <2>5 DEF Grown
<1>7. Sorted(kk, ff, hh)
  <2> SUFFICES ASSUME NEW m \in hh, NEW c \in ToSet(kk[m])
               PROVE  /\ ff[m].directory = TRUE /\ ff[c].name \in Words
                      /\ \A d \in ToSet(kk[m]) : ff[c] = ff[d] => c = d
    BY DEF Sorted
  <2>1. m \in h /\ ff[m] = f[m]
    BY <1>3, <1>5
  <2>2. CASE c \in ToSet(k[m]) /\ c \in h /\ c # n
    <3>1. f[m].directory = TRUE /\ f[c].name \in Words /\ ff[c] = f[c]
      BY <1>1, <1>3, <2>1, <2>2 DEF Sorted
    <3>2. ASSUME NEW d \in ToSet(kk[m]), ff[c] = ff[d] PROVE c = d
      BY <1>1, <1>3, <1>5, <2>1, <2>2, <3>1, <3>2 DEF Sorted
    <3> QED
      BY <2>1, <3>1, <3>2
  <2>3. CASE m = w /\ c = n
    <3>1. ASSUME NEW d \in ToSet(kk[m]), ff[c] = ff[d] PROVE c = d
      BY <1>3, <1>5, <2>1, <2>3, <3>1
    <3> QED
      BY <1>2, <1>3, <2>1, <2>3, <3>1
  <2> QED
    BY <1>5, <2>2, <2>3
<1>8. Named(kk, ff, q, hh)
  <2>1. q[Root] = <<>>
    BY <1>1, <1>4 DEF Grown, Named
  <2>2. ASSUME NEW m \in hh PROVE q[m] \in Seq(Words)
    <3>1. p[w] \in Seq(Words) /\ Append(p[w], a) \in Seq(Words)
      BY <1>1, AppendProperties DEF Named
    <3> QED
      BY <1>1, <1>4, <3>1 DEF Named
  <2>3. ASSUME NEW m \in hh, NEW c \in ToSet(kk[m]) PROVE q[c] = Append(q[m], ff[c].name)
    <3>1. m \in h /\ q[m] = p[m]
      BY <1>4, <1>5, <2>3
    <3>2. CASE c \in ToSet(k[m]) /\ c \in h
      <4>1. q[c] = p[c] /\ ff[c] = f[c]
        BY <1>3, <1>4, <3>2
      <4>2. p[c] = Append(p[m], f[c].name)
        BY <1>1, <3>1, <3>2 DEF Named
      <4> QED
        BY <3>1, <4>1, <4>2
    <3>3. CASE m = w /\ c = n
      BY <1>2, <1>3, <1>4, <3>1, <3>3
    <3> QED
      BY <1>5, <2>3, <3>2, <3>3
  <2> QED
    BY <2>1, <2>2, <2>3 DEF Named
<1>9. Layout(kk, ff, q, hh)
    BY <1>3, <1>6, <1>7, <1>8 DEF Layout
<1> QED
    BY <1>9 DEF ff, q, FilesWith, PathsWith

\* rm: a child goes, with all that hangs below it.
FilesWithout(f, T) == [m \in Nodes |-> IF m \in T THEN NoFile ELSE f[m]]
Goes(k, kk, T, c) ==
    \A m \in Nodes : ToSet(kk[m]) = IF m \in T THEN {} ELSE ToSet(k[m]) \ {c}

\* The layout without the branch: the paths are what they were.
LEMMA LayoutWithout ==
    ASSUME NEW k, NEW f, NEW p, NEW h, Layout(k, f, p, h),
           NEW w \in h, NEW c \in ToSet(k[w]), NEW T, Branch(k, T, c),
           NEW kk, Goes(k, kk, T, c)
    PROVE  Layout(kk, FilesWithout(f, T), p, h \ T)
<1> \A m \in Nodes : ToSet(kk[m]) = IF m \in T THEN {} ELSE ToSet(k[m]) \ {c}
    BY DEF Goes
<1> DEFINE ff == [m \in Nodes |-> IF m \in T THEN NoFile ELSE f[m]]
           hh == h \ T
<1>1. /\ f \in FileMaps /\ Grown(k, h) /\ Sorted(k, f, h) /\ Named(k, f, p, h)
      /\ h \subseteq Nodes /\ Root \in h
    BY DEF Layout, Grown
<1>2. /\ T \subseteq h \ {Root}
      /\ \A m \in h : \A d \in ToSet(k[m]) : d \in T /\ d # c => m \in T
    BY <1>1, BranchHangs
<1>3. ff \in FileMaps /\ \A m \in hh : ff[m] = f[m]
  <2>1. NoFile \in [name : Words \cup {"~", ""}, directory : BOOLEAN]
    BY DEF NoFile, File
  <2> QED
    BY <1>1, <2>1 DEF FileMaps
<1> HIDE DEF ff
<1>4. ASSUME NEW m \in hh, NEW d \in ToSet(kk[m]) PROVE m \in h /\ d \in ToSet(k[m]) /\ d \in hh
  <2>1. m \in h /\ m \in Nodes /\ m \notin T
    BY <1>1, <1>4
  <2>2. d \in ToSet(k[m]) /\ d # c
    BY <1>4, <2>1
  <2> QED
    BY <1>1, <1>2, <2>1, <2>2 DEF Grown, Closes
<1>5. Grown(kk, hh)
  <2>1. ASSUME NEW m \in hh, NEW d \in ToSet(kk[m])
        PROVE  d # Root /\ \A q \in Nodes : d \in ToSet(kk[q]) => q = m
    <3>1. \A q \in Nodes : d \in ToSet(kk[q]) => d \in ToSet(k[q])
      OBVIOUS
    <3> QED
      BY <1>1, <1>4, <3>1 DEF Grown
  <2>2. ASSUME NEW S \in SUBSET hh, Root \in S, Closes(kk, S) PROVE S = hh
    <3> DEFINE R == S \cup T
    <3>1. R \in SUBSET h /\ Root \in R
      BY <1>2, <2>2
    <3>2. ASSUME NEW m \in R, NEW d \in ToSet(k[m]) PROVE d \in R
      <4>1. CASE m \in T
        BY <3>2, <4>1 DEF Branch, Closes
      <4>2. CASE m \notin T
        <5>1. m \in S /\ m \in Nodes
          BY <1>1, <4>2
        <5>2. d = c \/ d \in ToSet(kk[m])
          BY <3>2, <4>2, <5>1
        <5> QED
          BY <2>2, <5>1, <5>2 DEF Branch, Closes
      <4> QED
        BY <4>1, <4>2
    <3>3. R = h
      BY <1>1, <3>1, <3>2 DEF Grown, Closes
    <3> QED
      BY <2>2, <3>3
  <2>3. Closes(kk, hh)
    BY <1>4 DEF Closes
  <2>4. hh \in SUBSET Nodes /\ Root \in hh
    BY <1>1, <1>2
  <2> HIDE DEF hh
  <2> QED
    BY <2>1, <2>2, <2>3, <2>4 DEF Grown
<1>6. Sorted(kk, ff, hh)
  <2> SUFFICES ASSUME NEW m \in hh, NEW x \in ToSet(kk[m])
               PROVE  /\ ff[m].directory = TRUE /\ ff[x].name \in Words
                      /\ \A d \in ToSet(kk[m]) : ff[x] = ff[d] => x = d
    BY DEF Sorted
  <2> QED
    BY <1>1, <1>3, <1>4 DEF Sorted
<1>7. Named(kk, ff, p, hh)
    BY <1>1, <1>3, <1>4 DEF Named
<1> QED
    BY <1>3, <1>5, <1>6, <1>7 DEF Layout, ff, FilesWithout

\* kill: the root alone is left, without children.
LEMMA LayoutGone ==
    ASSUME NEW k, NEW f, f \in FileMaps, ToSet(k[Root]) = {}
    PROVE  Layout(k, f, [m \in Nodes |-> <<>>], {Root})
BY TreeAssumption DEF Layout, Grown, Closes, Sorted, Named

\* The paths of the refinement mapping, for the lists k and the files f.
Steps(k, f, P, n) ==
    P = [i \in 0..n |->
           [m \in Nodes |-> IF i = 0 \/ m = Root THEN <<>>
                            ELSE Append(P[i - 1][CHOOSE q \in Nodes : m \in ToSet(k[q])], f[m].name)]]

PathIn(k, f, n) == (CHOOSE P : Steps(k, f, P, Cardinality(Nodes)))[Cardinality(Nodes)][n]

\* The mapping's path of a node is that one, in this state and in the next.
LEMMA PathIs == \A n : Path(n) = PathIn(kids, file, n)
BY Zenon DEF Path, Parent, PathIn, Steps

\* The same of the next state.
LEMMA PathIsNext == \A n : Path(n)' = PathIn(kids', file', n)
BY Zenon DEF Path, Parent, PathIn, Steps

\* For every length the recursion defines the paths up to it.
LEMMA StepsExist ==
    ASSUME NEW k, NEW f, NEW n \in Nat
    PROVE  \E P : Steps(k, f, P, n)
<1> DEFINE I == {i \in Nat : ~ \E P : Steps(k, f, P, i)}
           up(m) == CHOOSE q \in Nodes : m \in ToSet(k[q])
<1> HIDE DEF up
<1>1. ASSUME I # {} PROVE FALSE
  <2>1. PICK i \in I : \A j \in I : i <= j
    <3>1. I \subseteq Nat
      OBVIOUS
    <3> HIDE DEF I
    <3> QED
      BY <1>1, <3>1, MinIsFirst
  <2>2. CASE i = 0
    <3> DEFINE P == [j \in 0..0 |-> [m \in Nodes |-> <<>>]]
    <3>1. Steps(k, f, P, 0)
      BY DEF Steps
    <3> QED
      BY <2>1, <2>2, <3>1
  <2>3. CASE i # 0
    <3>1. i - 1 \in Nat /\ i \in Nat /\ i - 1 \notin I
      BY <2>1, <2>3
    <3>2. PICK G : Steps(k, f, G, i - 1)
      BY <3>1
    <3> DEFINE new == [m \in Nodes |-> IF m = Root THEN <<>> ELSE Append(G[i - 1][up(m)], f[m].name)]
               P == [j \in 0..i |-> IF j = i THEN new ELSE G[j]]
    <3>3. ASSUME NEW j \in 0..i
          PROVE  P[j] = [m \in Nodes |-> IF j = 0 \/ m = Root THEN <<>>
                                         ELSE Append(P[j - 1][up(m)], f[m].name)]
      <4>1. CASE j = i
        <5>1. P[j] = new /\ P[i - 1] = G[i - 1]
          BY <3>1, <4>1
        <5> HIDE DEF P
        <5> QED
          BY <2>3, <4>1, <5>1
      <4>2. CASE j # i
        <5>1. j \in 0..(i - 1) /\ P[j] = G[j]
          BY <3>1, <4>2
        <5>2. j # 0 => P[j - 1] = G[j - 1]
          BY <3>1, <5>1
        <5>3. G[j] = [m \in Nodes |-> IF j = 0 \/ m = Root THEN <<>>
                                      ELSE Append(G[j - 1][up(m)], f[m].name)]
          BY <3>2, <5>1 DEF Steps, up
        <5> HIDE DEF P
        <5> QED
          BY <5>1, <5>2, <5>3, Zenon
      <4> QED
        BY <4>1, <4>2
    <3>4. Steps(k, f, P, i)
      BY <3>3 DEF Steps, up
    <3> QED
      BY <2>1, <3>4
  <2> QED
    BY <2>2, <2>3
<1> QED
    BY <1>1

\* No path has more names than there are nodes: each of its nodes is one level above the next.
LEMMA PathShort ==
    ASSUME NEW k, NEW f, NEW p, NEW h, Layout(k, f, p, h), NEW n \in h
    PROVE  Len(p[n]) <= Cardinality(Nodes)
<1>1. Grown(k, h) /\ Sorted(k, f, h) /\ Named(k, f, p, h) /\ h \subseteq Nodes
    BY DEF Layout, Grown
<1> DEFINE Line(A, m) == /\ A \in SUBSET h /\ IsFiniteSet(A)
                         /\ Cardinality(A) = Len(p[m])
                         /\ \A x \in A : Len(p[x]) <= Len(p[m])
           S == {m \in h : \E A : Line(A, m)}
<1>2. Root \in S
  <2>1. Line({}, Root)
    BY <1>1, FS_EmptySet DEF Named
  <2> QED
    BY <1>1, <2>1 DEF Grown
<1>3. ASSUME NEW m \in S, NEW c \in ToSet(k[m]) PROVE c \in S
  <2>1. c \in h /\ m \in h
    BY <1>1 DEF Grown, Closes
  <2>2. \A x \in h : Len(p[x]) \in Nat
    BY <1>1, LenProperties DEF Named
  <2>3. Len(p[c]) = Len(p[m]) + 1
    BY <1>1, <2>1, AppendProperties DEF Named, Sorted
  <2>4. PICK A : Line(A, m)
    OBVIOUS
  <2>5. c \notin A
    BY <2>1, <2>2, <2>3, <2>4
  <2>6. IsFiniteSet(A \cup {c}) /\ Cardinality(A \cup {c}) = Cardinality(A) + 1
    BY <2>4, <2>5, FS_AddElement
  <2>7. \A x \in A \cup {c} : Len(p[x]) <= Len(p[c])
    BY <2>1, <2>2, <2>3, <2>4
  <2>8. Line(A \cup {c}, c)
    BY <2>1, <2>3, <2>4, <2>6, <2>7
  <2> QED
    BY <2>1, <2>8
<1>4. S = h
  <2>1. S \in SUBSET h /\ Closes(k, S)
    BY <1>3 DEF Closes
  <2> QED
    BY <1>1, <1>2, <2>1 DEF Grown
<1>5. PICK A : A \in SUBSET Nodes /\ Cardinality(A) = Len(p[n])
    BY <1>1, <1>4
<1>6. Cardinality(A) <= Cardinality(Nodes)
    BY <1>5, FileSystemAssumption, FS_Subset
<1> QED
    BY <1>5, <1>6

\* So the mapping's paths are the tree's.
LEMMA PathInTree ==
    ASSUME NEW k, NEW f, NEW p, NEW h, Layout(k, f, p, h), NEW n \in h
    PROVE  PathIn(k, f, n) = p[n]
<1> DEFINE N == Cardinality(Nodes)
           up(m) == CHOOSE q \in Nodes : m \in ToSet(k[q])
<1> HIDE DEF up
<1>1. N \in Nat
    BY FileSystemAssumption, FS_CardinalityType
<1>2. Grown(k, h) /\ Sorted(k, f, h) /\ Named(k, f, p, h) /\ h \subseteq Nodes
    BY DEF Layout, Grown
<1>3. \A m \in h : p[m] \in Seq(Words) /\ Len(p[m]) \in Nat /\ Len(p[m]) <= N
    BY <1>2, PathShort, LenProperties, Zenon DEF Named
<1> HIDE DEF N
<1>4. PICK P : Steps(k, f, P, N) /\ PathIn(k, f, n) = P[N][n]
  <2>1. \E P : Steps(k, f, P, N)
    BY <1>1, StepsExist
  <2> QED
    BY <2>1, Zenon DEF PathIn, N
<1>5. \A i \in 0..N : \A m \in Nodes :
         P[i][m] = IF i = 0 \/ m = Root THEN <<>> ELSE Append(P[i - 1][up(m)], f[m].name)
  <2>1. P = [i \in 0..N |->
               [m \in Nodes |-> IF i = 0 \/ m = Root THEN <<>>
                                ELSE Append(P[i - 1][up(m)], f[m].name)]]
    BY <1>4, Zenon DEF Steps, up
  <2> SUFFICES ASSUME NEW i \in 0..N, NEW m \in Nodes
               PROVE  P[i][m] = IF i = 0 \/ m = Root THEN <<>> ELSE Append(P[i - 1][up(m)], f[m].name)
    OBVIOUS
  <2>2. P[i] = [x \in Nodes |-> IF i = 0 \/ x = Root THEN <<>>
                                ELSE Append(P[i - 1][up(x)], f[x].name)]
    BY <2>1, Zenon
  <2> QED
    BY <2>2, Zenon
<1> DEFINE Right(i) == \A m \in h : Len(p[m]) <= i => P[i][m] = p[m]
           I == {i \in 0..N : ~Right(i)}
<1>6. ASSUME I # {} PROVE FALSE
  <2>1. PICK i \in I : \A j \in I : i <= j
    <3>1. I \subseteq Nat
      BY <1>1
    <3> HIDE DEF I
    <3> QED
      BY <1>6, <3>1, MinIsFirst
  <2>2. ASSUME NEW m \in h, Len(p[m]) <= i PROVE P[i][m] = p[m]
    <3>1. CASE m = Root
      BY <1>2, <1>5, <3>1 DEF Named
    <3>2. CASE m # Root
      <4>1. PICK q \in h : /\ m \in ToSet(k[q]) /\ p[q] \in Seq(Words) /\ f[m].name \in Words
                           /\ p[m] = Append(p[q], f[m].name) /\ p[m] # <<>>
        BY <3>2, RootOrChild
      <4>2. Len(p[m]) = Len(p[q]) + 1 /\ Len(p[q]) \in Nat
        BY <1>3, <4>1, AppendProperties
      <4>3. i # 0 /\ i - 1 \in 0..N /\ Len(p[q]) <= i - 1
        BY <1>1, <2>1, <2>2, <4>2
      <4>4. up(m) = q
        BY <1>2, <4>1 DEF Grown, up
      <4>5. P[i - 1][q] = p[q]
        BY <2>1, <4>3
      <4>6. P[i][m] = Append(P[i - 1][up(m)], f[m].name)
        BY <1>2, <1>5, <2>1, <3>2, <4>3
      <4> QED
        BY <4>1, <4>4, <4>5, <4>6
    <3> QED
      BY <3>1, <3>2
  <2> QED
    BY <2>1, <2>2
<1>7. Right(N)
    BY <1>1, <1>6
<1> QED
    BY <1>3, <1>4, <1>7

\* The names of the nodes on a way down from the root are the path of its last.
Way(k, s) ==
    /\ s \in Seq(Nodes) /\ Len(s) >= 1 /\ s[1] = Root
    /\ \A i \in 1..(Len(s) - 1) : s[i + 1] \in ToSet(k[s[i]])

Arrives(f, p, h, s) ==
    s[Len(s)] \in h /\ Tail([i \in DOMAIN s |-> f[s[i]].name]) = p[s[Len(s)]]

\* A way down arrives in the tree, at a node whose path it spells.
LEMMA WayIsPath ==
    ASSUME NEW k, NEW f, NEW p, NEW h, Layout(k, f, p, h), NEW s, Way(k, s)
    PROVE  Arrives(f, p, h, s)
<1> s \in Seq(Nodes) /\ Len(s) >= 1 /\ s[1] = Root
    BY DEF Way
<1>0. \A i \in 1..(Len(s) - 1) : s[i + 1] \in ToSet(k[s[i]])
    BY DEF Way
<1>1. /\ Grown(k, h) /\ Sorted(k, f, h) /\ Named(k, f, p, h) /\ h \subseteq Nodes
      /\ f \in FileMaps
    BY DEF Layout, Grown
<1>2. PICK n \in Nat \ {0} : n = Len(s)
    BY LenProperties
<1> DEFINE Right(i) == /\ s[i] \in h /\ p[s[i]] \in Seq(Words) /\ Len(p[s[i]]) = i - 1
                       /\ \A j \in 1..(i - 1) : p[s[i]][j] = f[s[j + 1]].name
           I == {i \in 1..n : ~Right(i)}
<1>3. Right(1)
    BY <1>1 DEF Grown, Named
<1> HIDE DEF Right
<1>4. ASSUME I # {} PROVE FALSE
  <2>1. PICK i \in I : \A j \in I : i <= j
    <3>1. I \subseteq Nat
      OBVIOUS
    <3> HIDE DEF I
    <3> QED
      BY <1>4, <3>1, MinIsFirst
  <2>2. i # 1
    BY <1>3, <2>1
  <2>3. i - 1 \in 1..(n - 1) /\ i - 1 \in 1..n /\ (i - 1) + 1 = i /\ i \in Nat
    BY <1>2, <2>1, <2>2
  <2>4. Right(i - 1)
    BY <2>1, <2>3
  <2>5. s[i] \in ToSet(k[s[i - 1]])
    BY <1>0, <1>2, <2>3
  <2>6. s[i] \in h /\ f[s[i]].name \in Words /\ p[s[i]] = Append(p[s[i - 1]], f[s[i]].name)
    <3>1. PICK m \in h : m = s[i - 1]
      BY <2>4 DEF Right
    <3>2. PICK c \in ToSet(k[m]) : c = s[i]
      BY <2>5, <3>1
    <3>3. c \in h /\ f[c].name \in Words /\ p[c] = Append(p[m], f[c].name)
      BY <1>1 DEF Grown, Closes, Sorted, Named
    <3> QED
      BY <3>1, <3>2, <3>3
  <2>7. PICK t \in Seq(Words), x \in Words : t = p[s[i - 1]] /\ x = f[s[i]].name
    BY <2>4, <2>6 DEF Right
  <2>8. Len(t) = i - 2 /\ \A j \in 1..(i - 2) : t[j] = f[s[j + 1]].name
    BY <2>3, <2>4, <2>7 DEF Right
  <2>9. PICK u \in Seq(Words) : u = Append(t, x)
    BY AppendProperties
  <2>10. Len(u) = i - 1 /\ u[i - 1] = x /\ \A j \in 1..(i - 2) : u[j] = t[j]
    BY <2>3, <2>8, <2>9, AppendProperties
  <2>11. \A j \in 1..(i - 1) : u[j] = f[s[j + 1]].name
    BY <2>3, <2>7, <2>8, <2>10
  <2>12. Right(i)
    BY <2>6, <2>7, <2>9, <2>10, <2>11 DEF Right
  <2> QED
    BY <2>1, <2>12
<1>5. Right(n)
    BY <1>2, <1>4
<1> HIDE DEF I
<1> DEFINE names == [i \in DOMAIN s |-> f[s[i]].name]
           W == Words \cup {"~", ""}
<1>6. names \in Seq(W) /\ Len(names) = n /\ \A i \in 1..n : names[i] = f[s[i]].name
  <2>1. DOMAIN s = 1..n /\ \A i \in 1..n : s[i] \in Nodes
    BY <1>2, ElementOfSeq
  <2>2. \A m \in Nodes : f[m].name \in W
    BY <1>1 DEF FileMaps
  <2>3. names = [i \in 1..n |-> f[s[i]].name] /\ \A i \in 1..n : f[s[i]].name \in W
    BY <2>1, <2>2
  <2> HIDE DEF names, W
  <2> QED
    BY <2>3
<1> HIDE DEF names, W
<1>7. names # <<>>
    BY <1>6
<1>8. /\ Tail(names) \in Seq(W) /\ Len(Tail(names)) = n - 1
      /\ \A i \in 1..(n - 1) : Tail(names)[i] = f[s[i + 1]].name
  <2>1. /\ Tail(names) \in Seq(W) /\ Len(Tail(names)) = n - 1
        /\ \A i \in 1..Len(Tail(names)) : Tail(names)[i] = names[i + 1]
    BY <1>6, <1>7, HeadTailProperties
  <2> QED
    BY <1>6, <2>1
<1>9. Tail(names) = p[s[n]]
  <2>1. p[s[n]] \in Seq(W)
    <3>1. ASSUME NEW t \in Seq(Words) PROVE t \in Seq(W)
      <4>1. PICK l \in Nat : t \in [1..l -> Words]
        BY LenProperties
      <4>2. t = [i \in 1..l |-> t[i]] /\ \A i \in 1..l : t[i] \in W
        BY <4>1 DEF W
      <4> QED
        BY <4>2
    <3> QED
      BY <1>5, <3>1 DEF Right
  <2>2. Len(p[s[n]]) = n - 1 /\ \A j \in 1..(n - 1) : p[s[n]][j] = f[s[j + 1]].name
    BY <1>5 DEF Right
  <2> QED
    BY <1>8, <2>1, <2>2, SeqEqual
<1> QED
    BY <1>2, <1>5, <1>9 DEF names, Right, Arrives

----------------------------------------------------------------------------
\* The refinement mapping's two values.
Entries == {[path |-> Path(n), directory |-> file[n].directory] : n \in Hanging \ {Root}}
Here == IF stack = <<>> THEN <<>> ELSE Tail(NamesOf(stack))

\* The same for any paths of the nodes in h.
EntriesOf(f, p, h) == {[path |-> p[n], directory |-> f[n].directory] : n \in h \ {Root}}

\* The nodes of the tree are the ones that hang below the root.
Below(k) == {m \in Nodes : \A S \in SUBSET Nodes :
                Root \in S /\ (\A x \in S : ToSet(k[x]) \subseteq S) => m \in S}

\* Whatever set the lists have grown, it is that one.
LEMMA BelowIs == ASSUME NEW k, NEW h, Grown(k, h) PROVE Below(k) = h
<1>1. ASSUME NEW m \in Below(k) PROVE m \in h
    BY DEF Below, Grown, Closes
<1>2. ASSUME NEW S \in SUBSET Nodes, Root \in S, \A x \in S : ToSet(k[x]) \subseteq S
      PROVE  h \subseteq S
  <2> DEFINE R == S \cap h
  <2>1. R \in SUBSET h /\ Root \in R /\ Closes(k, R)
    BY <1>2 DEF Grown, Closes
  <2>2. R = h
    BY <2>1 DEF Grown
  <2> QED
    BY <2>2
<1>3. ASSUME NEW m \in h PROVE m \in Below(k)
    BY <1>2 DEF Below, Grown
<1> QED
    BY <1>1, <1>3

\* What is laid out, now and next, is the tree and its entries.
LEMMA LaidNow ==
    ASSUME NEW p, NEW h, Layout(kids, file, p, h)
    PROVE  Hanging = h /\ Entries = EntriesOf(file, p, h)
<1>1. Hanging = Below(kids)
    BY DEF Hanging, Subtree, Closed, Below
<1>2. Hanging = h
    BY <1>1, BelowIs DEF Layout
<1>3. \A n \in h : Path(n) = p[n]
    BY PathIs, PathInTree
<1> QED
    BY <1>2, <1>3 DEF Entries, EntriesOf

\* The same of the next state.
LEMMA LaidNext ==
    ASSUME NEW p, NEW h, Layout(kids', file', p, h)
    PROVE  Hanging' = h /\ Entries' = EntriesOf(file', p, h)
<1>1. Hanging' = Below(kids')
    BY DEF Hanging, Subtree, Closed, Below
<1>2. Hanging' = h
    BY <1>1, BelowIs DEF Layout
<1>3. \A n \in h : Path(n)' = p[n]
    BY PathIsNext, PathInTree
<1> QED
    BY <1>2, <1>3 DEF Entries, EntriesOf

\* The working directory's path is that of the stack's last node.
LEMMA HereNow ==
    ASSUME OnWay, NEW p, NEW h, Layout(kids, file, p, h)
    PROVE  Cwd \in h /\ Here = p[Cwd]
<1>1. stack # <<>>
    BY DEF OnWay
<1>2. Way(kids, stack)
    BY DEF Way, OnWay
<1>3. Arrives(file, p, h, stack)
    BY <1>2, WayIsPath, Zenon
<1> QED
    BY <1>1, <1>3 DEF Arrives, Here, NamesOf, Cwd

\* The same of the next state.
LEMMA HereNext ==
    ASSUME OnWay', NEW p, NEW h, Layout(kids', file', p, h)
    PROVE  Cwd' \in h /\ Here' = p[Cwd']
<1>1. stack' # <<>>
    BY DEF OnWay
<1>2. Way(kids', stack')
    BY DEF Way, OnWay
<1>3. Arrives(file', p, h, stack')
    BY <1>2, WayIsPath, Zenon
<1> QED
    BY <1>1, <1>3 DEF Arrives, Here, NamesOf, Cwd

\* The promise's actions, of these values.
LEMMA MakeIs ==
    ASSUME NEW name \in Words, NEW dir \in BOOLEAN,
           Paths!Front(Paths!Entry(Append(Here, name), dir).path) = Here,
           Paths!Entry(Append(Here, name), dir) \notin Entries,
           Entries' = Entries \cup {Paths!Entry(Append(Here, name), dir)}, Here' = Here
    PROVE  Paths!Next
BY Zenon DEF Paths!Next, Paths!Make, Entries, Here

\* Delete: an entry of that name, with all that goes with it.
LEMMA DeleteIs ==
    \A name : Paths!Delete(name) <=>
       \E e \in Entries : /\ e.path = Append(Here, name)
                          /\ e.directory => Paths!Entry(e.path, FALSE) \notin Entries
                          /\ Entries' = Entries \ Paths!With(e) /\ Here' = Here
BY Zenon DEF Paths!Delete, Entries, Here

\* What goes with an entry.
LEMMA WithIs ==
    \A e : Paths!With(e) = {e} \cup
       {x \in Entries : e.directory /\ e.path # x.path /\ Paths!IsPrefix(e.path, x.path)}
BY Zenon DEF Paths!With, Entries

\* Enter: a directory of that name.
LEMMA EnterIs ==
    \A name : Paths!Enter(name) <=> /\ Paths!Entry(Append(Here, name), TRUE) \in Entries
                                    /\ Here' = Append(Here, name) /\ Entries' = Entries
BY Zenon DEF Paths!Enter, Entries, Here

\* Leave: up, not from the root.
LEMMA LeaveIs ==
    Paths!Leave <=> Here # <<>> /\ Here' = Paths!Front(Here) /\ Entries' = Entries
BY Zenon DEF Paths!Leave, Entries, Here

\* Close: nothing is left.
LEMMA CloseIs == Paths!Close <=> Entries' = {} /\ Here' = <<>>
BY Zenon DEF Paths!Close, Entries, Here

\* And a stutter.
LEMMA DirVarsAre == Entries' = Entries /\ Here' = Here => UNCHANGED Paths!dirVars
BY Zenon DEF Paths!dirVars, Entries, Here

\* A path without the name put last.
LEMMA FrontOfAppend ==
    ASSUME NEW s \in Seq(Words), NEW x \in Words
    PROVE  Paths!Front(Append(s, x)) = s /\ Append(s, x) # <<>>
<1>1. PICK n \in Nat, u \in Seq(Words) : n = Len(s) /\ u = Append(s, x)
    BY LenProperties, AppendProperties
<1>2. Len(u) = n + 1 /\ \A i \in 1..n : u[i] = s[i] /\ u[i] \in Words
    BY <1>1, AppendProperties, ElementOfSeq
<1>3. /\ SubSeq(u, 1, n) \in Seq(Words) /\ Len(SubSeq(u, 1, n)) = n
      /\ \A i \in 1..n : SubSeq(u, 1, n)[i] = s[i]
    BY <1>2, SubSeqProperties
<1>4. SubSeq(u, 1, n) = s
    BY <1>1, <1>3, SeqEqual
<1>5. (n + 1) - 1 = n
    OBVIOUS
<1> QED
    BY <1>1, <1>2, <1>4, <1>5 DEF Paths!Front

----------------------------------------------------------------------------
(***************************************************************************)
(* The invariant of the refinement: the tree has a layout, and the working *)
(* directory is one.                                                       *)
(***************************************************************************)
Laid == \E p : Layout(kids, file, p, Hanging)
InDirectory == state = "running" => file[Cwd].directory = TRUE

DirInv == Laid /\ InDirectory

\* What a command's step has to do: keep it, and keep the promise.
Kept == Laid' /\ InDirectory' /\ [Paths!Next]_(Paths!dirVars)

\* What is known when a command runs, and afterwards.
Turn(p) ==
    /\ Inv /\ NoDangling /\ OnWay /\ Root \in live /\ Hanging \subseteq live
    /\ file \in FileMaps /\ Layout(kids, file, p, Hanging) /\ file[Cwd].directory = TRUE
    /\ Inv' /\ NoDangling' /\ (state' = "running" => OnWay') /\ file' \in FileMaps

\* A command that leaves the tree alone leaves layout and entries alone.
LEMMA TreeStays ==
    ASSUME NEW p, Turn(p), SameTree
    PROVE  Layout(kids', file', p, Hanging) /\ Entries' = Entries /\ Laid' /\ Hanging' = Hanging
<1>1. kids' = kids /\ file' = file
    BY DEF SameTree
<1>2. Layout(kids', file', p, Hanging)
    BY <1>1 DEF Turn
<1>3. Hanging' = Hanging /\ Entries' = EntriesOf(file', p, Hanging)
    BY <1>2, LaidNext
<1>4. Entries = EntriesOf(file, p, Hanging)
    BY LaidNow DEF Turn
<1> QED
    BY <1>1, <1>2, <1>3, <1>4 DEF Laid

\* One that leaves the stack alone too stutters.
LEMMA NothingDone ==
    ASSUME NEW p, Turn(p), SameTree, stack' = stack
    PROVE  Kept
<1>1. Entries' = Entries /\ Laid'
    BY TreeStays
<1>2. Here' = Here /\ Cwd' = Cwd /\ file' = file
    BY DEF SameTree, Here, NamesOf, Cwd
<1>3. InDirectory'
    BY <1>2 DEF InDirectory, Turn
<1>4. UNCHANGED Paths!dirVars
    BY <1>1, <1>2, DirVarsAre
<1> QED
    BY <1>1, <1>3, <1>4 DEF Kept

\* Facts of the working directory: its path, and that of a child.
LEMMA CwdPath ==
    ASSUME NEW p, Turn(p)
    PROVE  /\ Cwd \in Hanging /\ Cwd \in Nodes /\ Here = p[Cwd] /\ Here \in Seq(Words)
           /\ \A c \in ToSet(kids[Cwd]) :
                 /\ c \in Hanging /\ c # Root /\ file[c].name \in Words
                 /\ p[c] = Append(p[Cwd], file[c].name)
<1>1. Cwd \in Hanging /\ Here = p[Cwd]
    BY HereNow DEF Turn
<1>2. Grown(kids, Hanging) /\ Sorted(kids, file, Hanging) /\ Named(kids, file, p, Hanging)
    BY DEF Turn, Layout
<1> QED
    BY <1>1, <1>2 DEF Grown, Closes, Sorted, Named

\* cd .. leaves, unless at the root.
LEMMA CdUpKept ==
    ASSUME NEW p, Turn(p), NEW a, CdUp(a), state = "running"
    PROVE  Kept
<1>1. CASE Len(stack) = 1
    BY <1>1, NothingDone DEF CdUp
<1>2. CASE Len(stack) # 1
  <2>1. PICK n \in Nat \ {0} : n = Len(stack) /\ n - 1 \in 1..(n - 1) /\ (n - 1) + 1 = n
    <3>1. PICK n \in Nat \ {0} : n = Len(stack)
      BY Stacked DEF Turn
    <3>2. n - 1 \in 1..(n - 1) /\ (n - 1) + 1 = n
      BY <1>2, <3>1
    <3> QED
      BY <3>1, <3>2
  <2>2. /\ stack' = SubSeq(stack, 1, n - 1) /\ SameTree /\ state' = "running"
    BY <1>2, <2>1 DEF CdUp, Front
  <2>3. Len(stack') = n - 1 /\ stack'[n - 1] = stack[n - 1]
    <3>1. \A j \in 1..(n - 1) : stack[j] \in Nodes
      BY <2>1, ElementOfSeq DEF Turn, OnWay
    <3>2. /\ Len(SubSeq(stack, 1, n - 1)) = n - 1
          /\ \A j \in 1..(n - 1) : SubSeq(stack, 1, n - 1)[j] = stack[j]
      BY <2>1, <3>1, SubSeqProperties
    <3> QED
      BY <2>1, <2>2, <3>2
  <2>4. Layout(kids', file', p, Hanging) /\ Entries' = Entries /\ Laid'
    BY <2>2, TreeStays
  <2>5. Cwd' \in Hanging /\ Here' = p[Cwd']
    BY <2>2, <2>4, HereNext DEF Turn
  <2>6. Cwd \in ToSet(kids[Cwd'])
    BY <2>1, <2>3 DEF Turn, OnWay, Cwd
  <2>7. /\ file[Cwd'].directory = TRUE /\ p[Cwd'] \in Seq(Words) /\ file[Cwd].name \in Words
        /\ p[Cwd] = Append(p[Cwd'], file[Cwd].name)
    BY <2>5, <2>6 DEF Turn, Layout, Sorted, Named
  <2>8. Here = Append(Here', file[Cwd].name)
    BY <2>5, <2>7, CwdPath
  <2>9. Here # <<>> /\ Here' = Paths!Front(Here)
    BY <2>5, <2>7, <2>8, FrontOfAppend
  <2>10. Paths!Next
    BY <2>4, <2>9, LeaveIs DEF Paths!Next
  <2>11. InDirectory'
    BY <2>2, <2>7 DEF InDirectory, SameTree
  <2> QED
    BY <2>4, <2>10, <2>11 DEF Kept
<1> QED
    BY <1>1, <1>2

\* cd enters a directory of that name, where the stack has a slot.
LEMMA CdDownKept ==
    ASSUME NEW p, Turn(p), NEW a, CdDown(a), state = "running"
    PROVE  Kept
<1>1. PICK c \in Child(a, TRUE, Cwd) :
         IF Len(stack) = StackCapacity
         THEN state' = "overrun" /\ stack' = stack
         ELSE stack' = Append(stack, c) /\ state' = state
    BY DEF CdDown
<1>2. SameTree
    BY DEF CdDown
<1>3. CASE stack' = stack
    BY <1>2, <1>3, NothingDone
<1>4. CASE stack' = Append(stack, c) /\ state' = state
  <2>1. c \in ToSet(kids[Cwd]) /\ file[c].name = a /\ file[c].directory = TRUE
    BY DEF Child, File
  <2>2. c \in Hanging /\ c # Root /\ a \in Words /\ p[c] = Append(Here, a)
    BY <2>1, CwdPath
  <2>3. Layout(kids', file', p, Hanging) /\ Entries' = Entries /\ Laid'
    BY <1>2, TreeStays
  <2>4. Cwd' = c
    <3>1. PICK n \in Nat : n = Len(stack)
      BY Stacked DEF Turn
    <3>2. c \in Nodes /\ stack \in Seq(Nodes)
      BY <2>1, ChildOffStack DEF Turn, OnWay
    <3> QED
      BY <1>4, <3>1, <3>2, AppendProperties DEF Cwd
  <2>5. Here' = Append(Here, a)
    BY <1>4, <2>2, <2>3, <2>4, HereNext DEF Turn
  <2>6. Paths!Entry(Append(Here, a), TRUE) \in Entries
    <3>1. Entries = EntriesOf(file, p, Hanging)
      BY LaidNow DEF Turn
    <3> QED
      BY <2>1, <2>2, <3>1 DEF EntriesOf, Paths!Entry
  <2>7. Paths!Enter(a)
    BY <2>3, <2>5, <2>6, EnterIs
  <2>8. Paths!Next
    BY <2>2, <2>7 DEF Paths!Next
  <2>9. InDirectory'
    BY <1>2, <2>1, <2>4 DEF InDirectory, SameTree
  <2> QED
    BY <2>3, <2>8, <2>9 DEF Kept
<1> QED
    BY <1>1, <1>3, <1>4

\* Files of other nodes are no part of the layout.
Agree(g, f, h) == g \in FileMaps /\ \A m \in h : g[m] = f[m]

SameLayout(k, g, f, p, h) == Layout(k, g, p, h) /\ EntriesOf(g, p, h) = EntriesOf(f, p, h)

\* So a change to files outside of the tree keeps the layout, and its entries.
LEMMA LayoutApart ==
    ASSUME NEW k, NEW f, NEW p, NEW h, Layout(k, f, p, h), NEW g, Agree(g, f, h)
    PROVE  SameLayout(k, g, f, p, h)
<1> g \in FileMaps /\ \A m \in h : g[m] = f[m]
    BY DEF Agree
<1>1. Grown(k, h) /\ Sorted(k, f, h) /\ Named(k, f, p, h)
    BY DEF Layout
<1>2. \A m \in h : \A c \in ToSet(k[m]) : c \in h
    BY <1>1 DEF Grown, Closes
<1>3. Sorted(k, g, h)
    BY <1>1, <1>2 DEF Sorted
<1>4. Named(k, g, p, h)
    BY <1>1, <1>2 DEF Named
<1> QED
    BY <1>1, <1>3, <1>4 DEF Layout, EntriesOf, SameLayout

\* What a list holds with one more at its end.
LEMMA AppendHolds ==
    ASSUME NEW s \in Seq(Nodes), NEW n \in Nodes
    PROVE  ToSet(Append(s, n)) = ToSet(s) \cup {n}
<1>1. PICK len \in Nat, t \in Seq(Nodes) : len = Len(s) /\ t = Append(s, n)
    BY LenProperties, AppendProperties
<1>2. Len(t) = len + 1 /\ t[len + 1] = n /\ \A i \in 1..len : t[i] = s[i]
    BY <1>1, AppendProperties
<1>3. DOMAIN s = 1..len /\ DOMAIN t = 1..(len + 1)
    BY <1>1, <1>2, LenProperties
<1>4. ASSUME NEW x \in ToSet(t) PROVE x \in ToSet(s) \cup {n}
  <2>1. PICK i \in 1..(len + 1) : x = t[i]
    BY <1>3 DEF ToSet
  <2>2. i = len + 1 \/ i \in 1..len
    OBVIOUS
  <2> QED
    BY <1>2, <1>3, <2>1, <2>2 DEF ToSet
<1>5. ASSUME NEW x \in ToSet(s) \cup {n} PROVE x \in ToSet(t)
  <2>1. \A i \in 1..len : i \in 1..(len + 1)
    OBVIOUS
  <2> QED
    BY <1>2, <1>3, <2>1 DEF ToSet
<1> QED
    BY <1>1, <1>4, <1>5

\* add_child for a new node: the lists it leaves.
LEMMA AttachHolds ==
    ASSUME NEW p, Turn(p), NEW n \in Nodes, n \notin live, Attach(Cwd, n)
    PROVE  /\ ToSet(kids'[n]) = {} /\ ToSet(kids'[Cwd]) = ToSet(kids[Cwd]) \cup {n}
           /\ \A m \in Nodes \ {n, Cwd} : ToSet(kids'[m]) = ToSet(kids[m])
<1>1. kids \in [Nodes -> Seq(Nodes)] /\ Cwd \in Nodes /\ Cwd # n
    BY CwdPath DEF Turn, Inv, TreeTypeOK
<1>2. /\ kids'[n] = <<>> /\ kids'[Cwd] = Append(kids[Cwd], n)
      /\ \A m \in Nodes \ {n, Cwd} : kids'[m] = kids[m]
    BY <1>1 DEF Attach
<1>3. ToSet(kids'[Cwd]) = ToSet(kids[Cwd]) \cup {n}
    BY <1>1, <1>2, AppendHolds
<1>4. ToSet(<<>>) = {}
    BY DEF ToSet
<1> QED
    BY <1>2, <1>3, <1>4

\* touch and mkdir: the promise makes an entry, unless add_child leaks the node.
LEMMA MakeKept ==
    ASSUME NEW p, Turn(p), NEW a \in Words \cup {""}, NEW dir \in BOOLEAN, Make(a, dir),
           state = "running"
    PROVE  Kept
<1>1. stack' = stack /\ state' = "running"
    BY DEF Make
<1>2. CASE SameTree
    BY <1>1, <1>2, NothingDone
<1>3. ASSUME a # "", Child(a, dir, Cwd) = {}, NEW n \in Nodes, AddNew(Cwd, n),
             file' = [file EXCEPT ![n] = File(a, dir)]
      PROVE  Kept
  <2> DEFINE h == Hanging
             e == Paths!Entry(Append(Here, a), dir)
  <2>1. n \notin live /\ n \notin h /\ a \in Words
    BY <1>3 DEF AddNew, Turn
  <2>2. /\ file \in FileMaps /\ file' \in FileMaps /\ Layout(kids, file, p, h)
        /\ \A m \in h : file'[m] = file[m]
    <3>1. /\ file \in FileMaps /\ file' \in FileMaps /\ Layout(kids, file, p, h) /\ h \subseteq Nodes
      BY DEF Turn, Layout, Grown
    <3>2. \A m \in Nodes : m # n => file'[m] = file[m]
      BY <1>3, <3>1 DEF FileMaps
    <3> QED
      BY <2>1, <3>1, <3>2
  <2>3. Cwd' = Cwd /\ Cwd \in h /\ Cwd \in Nodes /\ Here = p[Cwd] /\ Here \in Seq(Words)
    BY <1>1, CwdPath DEF Cwd
  <2>4. InDirectory'
    BY <2>2, <2>3 DEF InDirectory, Turn
  <2>5. CASE Leak(Cwd, n)
    <3>1. Layout(kids', file', p, h) /\ EntriesOf(file', p, h) = EntriesOf(file, p, h)
      <4>1. kids' = kids
        BY <2>5 DEF Leak
      <4>2. Layout(kids, file', p, h) /\ EntriesOf(file', p, h) = EntriesOf(file, p, h)
        <5>1. Agree(file', file, h)
          BY <2>2, Zenon DEF Agree
        <5>2. Layout(kids, file, p, h)
          BY <2>2
        <5>3. SameLayout(kids, file', file, p, h)
          BY <5>1, <5>2, LayoutApart, Zenon
        <5> QED
          BY <5>3, Zenon DEF SameLayout
      <4> QED
        BY <4>1, <4>2
    <3>2. Entries' = Entries /\ Laid'
      <4>1. Hanging' = h /\ Entries' = EntriesOf(file', p, h)
        BY <3>1, LaidNext, Zenon
      <4>2. Entries = EntriesOf(file, p, h)
        BY <2>2, LaidNow, Zenon
      <4>3. Laid'
        BY <3>1, <4>1 DEF Laid
      <4> QED
        BY <3>1, <4>1, <4>2, <4>3
    <3>3. Here' = Here
      BY <1>1, <2>3, <3>1, HereNext DEF Turn
    <3>4. UNCHANGED Paths!dirVars
      BY <3>2, <3>3, DirVarsAre
    <3> QED
      BY <2>4, <3>2, <3>4 DEF Kept
  <2>6. CASE Attach(Cwd, n)
    <3> DEFINE q == PathsWith(p, Cwd, n, a)
               hh == h \cup {n}
    <3>1. Layout(kids', file', q, hh)
      <4>1. \A m \in Nodes : n \notin ToSet(kids[m])
        BY <2>1 DEF Turn, NoDangling
      <4>2. \A c \in ToSet(kids[Cwd]) : file[c] # File(a, dir)
        BY <1>3 DEF Child
      <4>3. /\ ToSet(kids'[n]) = {} /\ ToSet(kids'[Cwd]) = ToSet(kids[Cwd]) \cup {n}
            /\ \A m \in Nodes \ {n, Cwd} : ToSet(kids'[m]) = ToSet(kids[m])
        BY <2>1, <2>6, AttachHolds
      <4>4. file[Cwd].directory = TRUE /\ n \in Nodes \ h
        BY <2>1 DEF Turn
      <4>5. Adds(kids, file, h, kids', Cwd, n, a, dir)
        BY <4>1, <4>2, <4>3, <4>4, Zenon DEF Adds
      <4>6. Layout(kids', FilesWith(file, n, a, dir), q, hh)
        BY <2>1, <2>2, <2>3, <4>5, LayoutWith, Zenon
      <4> QED
        BY <1>3, <4>6 DEF FilesWith
    <3>2. q[n] = Append(Here, a) /\ file'[n].directory = dir /\ \A m \in h : q[m] = p[m]
      <4>1. h \subseteq Nodes
        BY <2>2 DEF Layout, Grown
      <4> QED
        BY <1>3, <2>1, <2>2, <2>3, <4>1 DEF FileMaps, File, PathsWith
    <3> HIDE DEF q
    <3>3. n # Root
      BY <2>1, <2>2 DEF Layout, Grown
    <3>4. Entries = EntriesOf(file, p, h)
      BY <2>2, LaidNow
    <3>5. Laid' /\ Entries' = EntriesOf(file', q, hh)
      BY <3>1, LaidNext DEF Laid
    <3>6. EntriesOf(file', q, hh) = EntriesOf(file, p, h) \cup {e}
      BY <2>2, <3>2, <3>3 DEF EntriesOf, Paths!Entry
    <3>7. Here' = Here
      <4>1. Here' = q[Cwd']
        BY <1>1, <3>1, HereNext DEF Turn
      <4> QED
        BY <2>3, <3>2, <4>1
    <3>8. e \notin Entries
      <4> SUFFICES ASSUME NEW m \in h, p[m] = Append(p[Cwd], a), file[m].directory = dir
                   PROVE  FALSE
        BY <2>3, <3>4 DEF EntriesOf, Paths!Entry
      <4>1. Lists(kids, file, p, h, Cwd)
        BY <2>2, <2>3, InPlace DEF Turn
      <4>2. m \in ToSet(kids[Cwd]) /\ file[m].name = a
        BY <2>1, <4>1 DEF Lists
      <4>3. m \in Nodes
        BY <2>2 DEF Layout, Grown
      <4>4. file[m] = File(a, dir)
        BY <2>2, <4>2, <4>3 DEF FileMaps, File
      <4> QED
        BY <1>3, <4>2, <4>4 DEF Child
    <3>9. Paths!Front(e.path) = Here
      BY <2>1, <2>3, FrontOfAppend DEF Paths!Entry
    <3>10. Entries' = Entries \cup {e}
      BY <3>4, <3>5, <3>6
    <3>11. Paths!Next
      BY <2>1, <3>7, <3>8, <3>9, <3>10, MakeIs, Zenon
    <3> QED
      BY <2>4, <3>5, <3>11 DEF Kept
  <2> QED
    BY <1>3, <2>5, <2>6 DEF AddNew
<1> QED
    BY <1>2, <1>3 DEF Make

\* remove_child leaves the list without the child, and only that.
LEMMA RemovedHolds ==
    ASSUME NEW s \in Seq(Nodes), Distinct(s), NEW e
    PROVE  ToSet(RemoveFirst(s, e)) = ToSet(s) \ {e}
<1> DEFINE I == {k \in 1 .. Len(s) : s[k] = e}
<1>1. CASE I = {}
  <2>1. RemoveFirst(s, e) = s /\ DOMAIN s = 1..Len(s)
    BY <1>1, LenProperties DEF RemoveFirst
  <2> QED
    BY <1>1, <2>1 DEF ToSet
<1>2. CASE I # {}
  <2>1. PICK k \in I : RemoveFirst(s, e) = RemoveAt(s, k)
    <3>1. I \subseteq Nat
      OBVIOUS
    <3>2. RemoveFirst(s, e) = RemoveAt(s, Min(I))
      BY <1>2 DEF RemoveFirst, SelectInSeq
    <3> HIDE DEF I
    <3> QED
      BY <1>2, <3>1, <3>2, MinIsFirst
  <2>2. PICK n \in Nat : n = Len(s)
    BY LenProperties
  <2>3. k \in 1..n /\ s[k] = e /\ \A j \in 1..n : s[j] = e => j = k
    BY <2>2 DEF Distinct
  <2> HIDE DEF I
  <2>4. PICK t \in Seq(Nodes) : t = RemoveFirst(s, e) /\ t = RemoveAt(s, k)
    BY <2>1, <2>2, <2>3, RemoveAtShortens
  <2>5. Len(t) = n - 1 /\ \A i \in 1..(n - 1) : t[i] = IF i < k THEN s[i] ELSE s[i + 1]
    <3>1. /\ Len(RemoveAt(s, k)) = n - 1
          /\ \A i \in 1..(n - 1) : RemoveAt(s, k)[i] = IF i < k THEN s[i] ELSE s[i + 1]
      BY <2>2, <2>3, RemoveAtPlaces
    <3> QED
      BY <2>4, <3>1, Zenon
  <2>6. DOMAIN t = 1..(n - 1) /\ DOMAIN s = 1..n
    BY <2>2, <2>5, LenProperties
  <2>7. ASSUME NEW x \in ToSet(t) PROVE x \in ToSet(s) /\ x # e
    <3>1. PICK i \in 1..(n - 1) : x = t[i]
      BY <2>6, <2>7 DEF ToSet
    <3>2. PICK j \in 1..n : x = s[j] /\ j # k
      BY <2>2, <2>3, <2>5, <3>1
    <3> QED
      BY <2>3, <2>6, <3>2 DEF ToSet
  <2>8. ASSUME NEW x \in ToSet(s), x # e PROVE x \in ToSet(t)
    <3>1. PICK j \in 1..n : x = s[j]
      BY <2>6, <2>8 DEF ToSet
    <3>2. j # k
      BY <2>3, <2>8, <3>1
    <3>3. CASE j < k
      <4>1. j \in 1..(n - 1) /\ t[j] = x
        BY <2>3, <2>5, <3>1, <3>3
      <4> QED
        BY <2>6, <4>1 DEF ToSet
    <3>4. CASE j > k
      <4>1. j - 1 \in 1..(n - 1) /\ t[j - 1] = x
        BY <2>3, <2>5, <3>1, <3>4
      <4> QED
        BY <2>6, <4>1 DEF ToSet
    <3> QED
      BY <2>3, <3>2, <3>3, <3>4
  <2> QED
    BY <2>4, <2>7, <2>8
<1> QED
    BY <1>1, <1>2

\* What rm frees is a branch, and no other list changes but for the child.
LEMMA DetachHolds ==
    ASSUME NEW p, Turn(p), NEW c \in ToSet(kids[Cwd]), RemoveChild(Cwd, c)
    PROVE  /\ Branch(kids, Subtree(c), c)
           /\ \A m \in Nodes : ToSet(kids'[m]) = IF m \in Subtree(c) THEN {} ELSE ToSet(kids[m]) \ {c}
<1>1. TreeTypeOK /\ NoDangling /\ Cwd \in Nodes /\ c \in Nodes /\ kids \in [Nodes -> Seq(Nodes)]
    BY CwdPath, ChildOffStack DEF Turn, Inv, TreeTypeOK
<1>2. /\ c \in Subtree(c) /\ Subtree(c) \subseteq Nodes /\ Closed(Subtree(c))
      /\ \A S \in SUBSET Nodes : c \in S /\ Closed(S) => Subtree(c) \subseteq S
    BY <1>1, SubtreeClosed, SubtreeLeast
<1>3. Branch(kids, Subtree(c), c)
  <2>1. \A S : Closed(S) <=> Closes(kids, S)
    BY DEF Closed, Closes
  <2> QED
    BY <1>2, <2>1 DEF Branch
<1>4. \A m \in Nodes : kids'[m] = IF m \in Subtree(c) THEN <<>>
                                  ELSE IF m = Cwd THEN RemoveFirst(kids[Cwd], c) ELSE kids[m]
    BY DEF RemoveChild, Detach
<1>5. ToSet(RemoveFirst(kids[Cwd], c)) = ToSet(kids[Cwd]) \ {c}
  <2>1. Distinct(kids[Cwd])
    BY <1>1, Linked, Zenon DEF Distinct
  <2> QED
    BY <1>1, <2>1, RemovedHolds
<1>6. \A m \in Nodes : m # Cwd => c \notin ToSet(kids[m])
    BY <1>1, OneParent
<1>7. ToSet(<<>>) = {}
    BY DEF ToSet
<1> QED
    BY <1>3, <1>4, <1>5, <1>6, <1>7

\* Whose name rm was given: no file has it if a directory goes.
LEMMA DoomedIs ==
    ASSUME NEW p, Turn(p), NEW a, NEW c \in Doomed(a)
    PROVE  /\ c \in ToSet(kids[Cwd]) /\ file[c].name = a /\ file[c].directory \in BOOLEAN
           /\ file[c].directory = TRUE => Child(a, FALSE, Cwd) = {}
<1>1. Doomed(a) = IF Child(a, FALSE, Cwd) # {} THEN Child(a, FALSE, Cwd) ELSE Child(a, TRUE, Cwd)
    BY DEF Doomed
<1>2. ASSUME NEW dir \in BOOLEAN, c \in Child(a, dir, Cwd)
      PROVE  c \in ToSet(kids[Cwd]) /\ file[c].name = a /\ file[c].directory = dir
    BY <1>2 DEF Child, File
<1>3. CASE Child(a, FALSE, Cwd) # {}
  <2>1. c \in ToSet(kids[Cwd]) /\ file[c].name = a /\ file[c].directory = FALSE
    BY <1>1, <1>2, <1>3
  <2> QED
    BY <2>1
<1>4. CASE Child(a, FALSE, Cwd) = {}
  <2>1. c \in ToSet(kids[Cwd]) /\ file[c].name = a /\ file[c].directory = TRUE
    BY <1>1, <1>2, <1>4
  <2> QED
    BY <1>4, <2>1
<1> QED
    BY <1>3, <1>4

\* The entries that go are those of the branch.
EntryIs(e, p, c) == e = [path |-> p[c], directory |-> file[c].directory]
GoneWith(e, g, p, h) == e \in Entries /\ EntriesOf(g, p, h) = Entries \ Paths!With(e)

\* Taking the branch out of the tree takes them out of the entries.
LEMMA EntriesGo ==
    ASSUME NEW p, Turn(p), NEW c \in ToSet(kids[Cwd]), NEW T, Branch(kids, T, c),
           NEW g, Agree(g, file, Hanging \ T),
           NEW e, EntryIs(e, p, c)
    PROVE  GoneWith(e, g, p, Hanging \ T)
<1> e = [path |-> p[c], directory |-> file[c].directory]
    BY DEF EntryIs
<1> DEFINE E(m) == [path |-> p[m], directory |-> file[m].directory]
<1>1. Entries = {E(m) : m \in Hanging \ {Root}}
    BY LaidNow DEF Turn, EntriesOf
<1>2. c \in Hanging /\ c # Root /\ Cwd \in Hanging /\ Hanging \subseteq Nodes /\ file \in FileMaps
    BY CwdPath DEF Turn, Layout, Grown
<1>3. ASSUME NEW m \in Hanging \ {Root} PROVE m \in T <=> E(m) \in Paths!With(e)
  <2>1. m \in T <=> m = c \/ Beyond(file, p, c, m)
    BY <1>2, BranchIs, Zenon DEF Turn
  <2>2. E(m) = e <=> m = c
    <3>1. OneEach(file, p, Hanging)
      BY SamePlace, Zenon DEF Turn
    <3> QED
      BY <1>2, <3>1 DEF OneEach
  <2>3. E(m) \in Paths!With(e) <=>
           E(m) = e \/ (E(m) \in Entries /\ e.directory /\ e.path # p[m] /\ Paths!IsPrefix(e.path, p[m]))
    BY WithIs
  <2>4. file[c].directory \in BOOLEAN
    BY <1>2 DEF FileMaps
  <2>5. e.path = p[c] /\ (e.directory <=> file[c].directory = TRUE) /\ E(m) \in Entries
    BY <1>1, <2>4
  <2> QED
    BY <2>1, <2>2, <2>3, <2>5 DEF Beyond
<1>4. EntriesOf(g, p, Hanging \ T) = {E(m) : m \in {x \in Hanging \ {Root} : x \notin T}}
    BY DEF EntriesOf, Agree
<1> HIDE DEF E
<1>5. {E(m) : m \in {x \in Hanging \ {Root} : x \notin T}} = Entries \ Paths!With(e)
    BY <1>1, <1>3
<1>6. e \in Entries
    BY <1>1, <1>2 DEF E
<1> QED
    BY <1>4, <1>5, <1>6 DEF GoneWith

\* rm: the promise deletes the entry with what is below it; a directory only when no file
\* has its name.
LEMMA RmKept ==
    ASSUME NEW p, Turn(p), NEW a \in Words \cup {""}, Rm(a), state = "running"
    PROVE  Kept
<1>1. stack' = stack /\ state' = "running"
    BY DEF Rm
<1>2. CASE SameTree
    BY <1>1, <1>2, NothingDone
<1>3. ASSUME NEW c \in Doomed(a), RemoveChild(Cwd, c),
             file' = [m \in Nodes |-> IF m \in Subtree(c) THEN NoFile ELSE file[m]]
      PROVE  Kept
  <2>1. PICK T : T = Subtree(c)
    OBVIOUS
  <2>2. /\ c \in ToSet(kids[Cwd]) /\ file[c].name = a /\ file[c].directory \in BOOLEAN
        /\ file[c].directory = TRUE => Child(a, FALSE, Cwd) = {}
    BY DoomedIs
  <2>3. /\ c \in Hanging /\ a \in Words /\ p[c] = Append(Here, a)
        /\ Cwd \in Hanging /\ Here = p[Cwd] /\ Cwd' = Cwd
    BY <1>1, <2>2, CwdPath DEF Cwd
  <2>4. /\ Branch(kids, T, c)
        /\ \A m \in Nodes : ToSet(kids'[m]) = IF m \in T THEN {} ELSE ToSet(kids[m]) \ {c}
    BY <1>3, <2>1, <2>2, DetachHolds
  <2>5. file' = [m \in Nodes |-> IF m \in T THEN NoFile ELSE file[m]]
    BY <1>3, <2>1
  <2>6. Layout(kids', file', p, Hanging \ T)
    <3>1. Layout(kids, file, p, Hanging)
      BY DEF Turn
    <3>2. Goes(kids, kids', T, c)
      BY <2>4, Zenon DEF Goes
    <3>3. Layout(kids', FilesWithout(file, T), p, Hanging \ T)
      BY <2>2, <2>3, <2>4, <3>1, <3>2, LayoutWithout, Zenon
    <3> QED
      BY <2>5, <3>3 DEF FilesWithout
  <2>7. Laid' /\ Entries' = EntriesOf(file', p, Hanging \ T)
    BY <2>6, LaidNext DEF Laid
  <2>8. Here' = Here /\ Cwd \in Hanging \ T
    <3>1. Cwd' \in Hanging \ T /\ Here' = p[Cwd']
      BY <1>1, <2>6, HereNext DEF Turn
    <3> QED
      BY <2>3, <3>1
  <2>9. \A m \in Hanging \ T : file'[m] = file[m]
    BY <2>5 DEF Turn, Layout, Grown
  <2>10. PICK e : e = [path |-> p[c], directory |-> file[c].directory]
    OBVIOUS
  <2>11. e \in Entries /\ Entries' = Entries \ Paths!With(e)
    <3>1. Agree(file', file, Hanging \ T)
      BY <2>9 DEF Agree, Turn
    <3>2. EntryIs(e, p, c)
      BY <2>10 DEF EntryIs
    <3>3. GoneWith(e, file', p, Hanging \ T)
      BY <2>2, <2>4, <3>1, <3>2, EntriesGo, Zenon
    <3> QED
      BY <2>7, <3>3 DEF GoneWith
  <2>12. e.directory => Paths!Entry(e.path, FALSE) \notin Entries
    <3> SUFFICES ASSUME file[c].directory = TRUE,
                        NEW m \in Hanging, p[m] = p[c], file[m].directory = FALSE
                 PROVE  FALSE
      <4>1. Entries = EntriesOf(file, p, Hanging)
        BY LaidNow DEF Turn
      <4> QED
        BY <2>2, <2>10, <4>1 DEF EntriesOf, Paths!Entry
    <3>1. Lists(kids, file, p, Hanging, Cwd)
      BY <2>3, InPlace, Zenon DEF Turn
    <3>2. m \in ToSet(kids[Cwd]) /\ file[m].name = a
      BY <2>3, <3>1 DEF Lists
    <3>3. m \in Nodes /\ file \in FileMaps
      BY DEF Turn, Layout, Grown
    <3>4. file[m] = File(a, FALSE)
      BY <3>2, <3>3 DEF FileMaps, File
    <3> QED
      BY <2>2, <3>2, <3>4 DEF Child
  <2>13. Paths!Delete(a)
    <3>1. e.path = Append(Here, a)
      BY <2>3, <2>10
    <3> QED
      BY <2>8, <2>11, <2>12, <3>1, DeleteIs
  <2>14. Paths!Next
    BY <2>3, <2>13 DEF Paths!Next
  <2>15. InDirectory'
    BY <2>3, <2>8, <2>9 DEF InDirectory, Turn
  <2> QED
    BY <2>7, <2>14, <2>15 DEF Kept
<1> QED
    BY <1>2, <1>3 DEF Rm

\* kill closes: no entry is left, and no working directory.
LEMMA KillKept ==
    ASSUME NEW p, Turn(p), Kill
    PROVE  Kept
<1>1. state' = "bye" /\ stack' = <<>>
    BY DEF Kill
<1>2. ToSet(kids'[Root]) = {}
  <2>1. Root \in Hanging /\ Root \in Nodes
    BY TreeAssumption DEF Turn, Layout, Grown
  <2>2. kids'[Root] = <<>>
    BY <2>1 DEF Kill, Destroy
  <2> QED
    BY <2>2 DEF ToSet
<1>3. Layout(kids', file', [m \in Nodes |-> <<>>], {Root})
    BY <1>2, LayoutGone DEF Turn
<1>4. Laid' /\ Entries' = EntriesOf(file', [m \in Nodes |-> <<>>], {Root})
    BY <1>3, LaidNext DEF Laid
<1>5. Entries' = {}
    BY <1>4 DEF EntriesOf
<1>6. Here' = <<>>
    BY <1>1 DEF Here
<1>7. Paths!Next
    BY <1>5, <1>6, CloseIs DEF Paths!Next
<1>8. InDirectory'
    BY <1>1 DEF InDirectory
<1> QED
    BY <1>4, <1>7, <1>8 DEF Kept

\* Every command, on whichever argument its line leaves in the buffer.
LEMMA CommandKept ==
    ASSUME NEW p, Turn(p), NEW c, NEW a \in Words \cup {""}, Do(c, a), state = "running"
    PROVE  Kept
<1>1. Cd(a) => Kept
  <2>1. CdNowhere(a) => Kept
    BY NothingDone DEF CdNowhere
  <2> QED
    BY <2>1, CdUpKept, CdDownKept DEF Cd
<1>2. ASSUME NEW dir \in BOOLEAN, Make(a, dir) PROVE Kept
    BY <1>2, MakeKept
<1>3. Rm(a) => Kept
    BY RmKept
<1>4. ASSUME NEW dir, Find(a, dir) PROVE Kept
    BY <1>4, NothingDone DEF Find
<1>5. Kill => Kept
    BY KillKept
<1>6. Idle => Kept
    BY NothingDone DEF Idle
<1>7. Make(a, TRUE) \/ Make(a, FALSE) => Kept
    BY <1>2
<1> QED
    BY <1>1, <1>3, <1>4, <1>5, <1>6, <1>7, Zenon DEF Do

\* At first there is no entry, and the working directory is the root.
LEMMA InitDir == Init => DirInv /\ Paths!Init
<1> SUFFICES ASSUME Init PROVE DirInv /\ Paths!Init
    OBVIOUS
<1>1. /\ kids[Root] = <<>> /\ file[Root] = File("~", TRUE) /\ stack = <<Root>>
      /\ Root \in Nodes
    BY TreeAssumption DEF Init, TreeInit
<1>2. OnWay /\ file \in FileMaps
    BY InitFsInv, InitShellInv DEF FsInv, Init, ShellInv, RootNamed
<1>3. Layout(kids, file, [m \in Nodes |-> <<>>], {Root})
  <2>1. ToSet(kids[Root]) = {}
    BY <1>1 DEF ToSet
  <2> QED
    BY <1>2, <2>1, LayoutGone
<1>4. Hanging = {Root} /\ Entries = EntriesOf(file, [m \in Nodes |-> <<>>], {Root})
    BY <1>3, LaidNow
<1>5. Entries = {}
    BY <1>4 DEF EntriesOf
<1>6. Here = <<>> /\ Cwd = Root
  <2>1. Cwd = Root
    BY <1>1 DEF Cwd
  <2> QED
    BY <1>1, <1>2, <1>3, <2>1, HereNow
<1>7. DirInv
    BY <1>1, <1>3, <1>4, <1>6 DEF DirInv, Laid, InDirectory, File
<1>8. Paths!Init
    BY <1>5, <1>6, Zenon DEF Paths!Init, Entries, Here
<1> QED
    BY <1>7, <1>8

\* Every step keeps the promise.
LEMMA StepDir ==
    FsInv /\ ShellInv /\ TypeOK /\ DirInv /\ [Next]_vars
        => DirInv' /\ [Paths!Next]_(Paths!dirVars)
<1> SUFFICES ASSUME FsInv, ShellInv, TypeOK, DirInv, [Next]_vars
             PROVE  DirInv' /\ [Paths!Next]_(Paths!dirVars)
    OBVIOUS
<1>1. PICK p : Layout(kids, file, p, Hanging)
    BY DEF DirInv, Laid
<1>2. FsInv' /\ ShellInv' /\ TypeOK'
    BY StepFsInv, StepShellInv
<1>3. CASE UNCHANGED vars
  <2>1. kids' = kids /\ file' = file /\ stack' = stack /\ state' = state
    BY <1>3 DEF vars
  <2>2. Layout(kids', file', p, Hanging)
    BY <1>1, <2>1
  <2>3. Laid' /\ Entries' = Entries
    <3>1. Hanging' = Hanging /\ Entries' = EntriesOf(file', p, Hanging)
      BY <2>2, LaidNext
    <3>2. Entries = EntriesOf(file, p, Hanging)
      BY <1>1, LaidNow
    <3> QED
      BY <2>1, <2>2, <3>1, <3>2 DEF Laid
  <2>4. Here' = Here /\ InDirectory'
    BY <2>1 DEF Here, NamesOf, InDirectory, Cwd, DirInv
  <2> QED
    BY <2>3, <2>4, DirVarsAre DEF DirInv
<1>4. ASSUME state = "running", NEW c, Do(c, argument') PROVE Kept
  <2>1. argument' \in Words \cup {""}
    BY LineTypes
  <2>2. /\ Inv /\ NoDangling /\ OnWay /\ Root \in live /\ Hanging \subseteq live
    BY <1>4, HangingLives DEF FsInv, OnWay, Inv
  <2>3. file \in FileMaps /\ file' \in FileMaps
    BY <1>2 DEF ShellInv, RootNamed
  <2>4. Turn(p)
    BY <1>1, <1>2, <1>4, <2>2, <2>3 DEF Turn, FsInv, DirInv, InDirectory
  <2> QED
    BY <1>4, <2>1, <2>4, CommandKept
<1> QED
    BY <1>3, <1>4, LineTypes DEF Kept, DirInv

\* The shell carries out the promise: whatever is typed, its nodes and pointers behave as a
\* set of named entries and a working directory, and each command does to them what its name
\* says, or nothing.
THEOREM ShellIsADirectory == Spec => ImplementsDirectory
BY InitFsInv, StepFsInv, InitShellInv, StepShellInv, InitDir, StepDir, PTL
   DEF Spec, ImplementsDirectory, Paths!Spec
==============================================================================
