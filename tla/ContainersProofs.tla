-------------------------- MODULE ContainersProofs --------------------------
(***************************************************************************)
(* The table of hash.c represents a map, for every set of keys and values, *)
(* every hash function and every first size, whichever resizes fail.  The  *)
(* array of lesson 5 never becomes full, for every initial capacity and    *)
(* every point at which realloc refuses.  The array, the lists and the     *)
(* table of people are lists of items, for every number of lists, nodes,   *)
(* values and names; kth_last counts from the end of any list.             *)
(***************************************************************************)
EXTENDS MCContainers, SequenceTheorems, FiniteSetTheorems, WellFoundedInduction, TLAPS

\* A set of positions has a first one, and Min is it.
LEMMA MinIsFirst ==
    ASSUME NEW I, I \subseteq Nat, I # {}
    PROVE  Min(I) \in I /\ \A k \in I : Min(I) <= k
<1>1. PICK m \in I : \A k \in I : ~(<<k, m>> \in OpToRel(<, Nat))
    BY NatLessThanWellFounded, WFMin
<1>2. ASSUME NEW k \in I PROVE m =< k
  <2>1. k \in Nat /\ m \in Nat
    OBVIOUS
  <2>2. ~(<<k, m>> \in Nat \X Nat /\ k < m)
    BY <1>1, Zenon DEF OpToRel
  <2> QED
    BY <2>1, <2>2
<1> QED
    BY <1>2 DEF Min

(***************************************************************************)
(* The relation between a table of n buckets and the map f it stands for:  *)
(* every node is in the bucket its key hashes to and has the value f gives *)
(* the key, no key has two nodes, and every key f knows has one.           *)
(***************************************************************************)
Nodes == [key : Keys, value : Values \cup {NULL}]
Maps == [Keys -> Values \cup {NULL, ABSENT}]

Represents(t, n, f) ==
    /\ t \in [0 .. n - 1 -> Seq(Nodes)]
    /\ \A b \in 0 .. n - 1 : \A p \in 1 .. Len(t[b]) :
          /\ Hash[t[b][p].key] % n = b
          /\ f[t[b][p].key] = t[b][p].value
          /\ \A q \in 1 .. Len(t[b]) : t[b][p].key = t[b][q].key => p = q
    /\ \A k \in Keys : f[k] # ABSENT =>
          \E p \in 1 .. Len(t[Hash[k] % n]) : t[Hash[k] % n][p].key = k

\* A key has a bucket in every table.
LEMMA Home ==
    ASSUME NEW k \in Keys, NEW n \in Nat \ {0}
    PROVE  Hash[k] % n \in 0 .. n - 1
<1>1. Hash[k] \in Nat
    BY HashMapAssumption
<1>2. \A a \in Nat : a % n \in 0 .. n - 1
    OBVIOUS
<1> QED
    BY <1>1, <1>2

\* An empty table stands for the empty map.
LEMMA EmptyRepresents ==
    ASSUME NEW n \in Nat \ {0}, NEW t, t = [b \in 0 .. n - 1 |-> <<>>],
           NEW f, \A k \in Keys : f[k] = ABSENT
    PROVE  Represents(t, n, f)
<1>1. t \in [0 .. n - 1 -> Seq(Nodes)] /\ \A b \in 0 .. n - 1 : Len(t[b]) = 0
    OBVIOUS
<1> QED
    BY <1>1 DEF Represents

\* Find's answer for a chain: no node of the key, or the place of one.
LEMMA FindPlace ==
    ASSUME NEW s \in Seq(Nodes), NEW k, NEW p, p = Find(s, k)
    PROVE  \/ p = 0 /\ \A i \in 1 .. Len(s) : s[i].key # k
           \/ p # 0 /\ p \in 1 .. Len(s) /\ s[p].key = k
<1> DEFINE I == {i \in 1 .. Len(s) : s[i].key = k}
<1>1. p = IF I = {} THEN 0 ELSE Min(I)
    BY DEF Find, SelectInSeq
<1>2. I # {} => Min(I) \in I
  <2>1. I \subseteq Nat
    OBVIOUS
  <2> HIDE DEF I
  <2> QED
    BY <2>1, MinIsFirst
<1>3. CASE I = {}
    BY <1>1, <1>3
<1>4. CASE I # {}
    BY <1>1, <1>2, <1>4
<1> QED
    BY <1>3, <1>4

\* A key that Find does not see is not in the map.
LEMMA NotFound ==
    ASSUME NEW n \in Nat \ {0}, NEW t, NEW f, Represents(t, n, f), NEW k \in Keys,
           NEW p, p = Find(t[Hash[k] % n], k)
    PROVE  p = 0 => f[k] = ABSENT
<1>1. PICK b \in 0 .. n - 1 : b = Hash[k] % n
    BY Home
<1>2. PICK s \in Seq(Nodes) : s = t[b]
    BY DEF Represents
<1>3. p = Find(s, k)
    BY <1>1, <1>2
<1>4. \/ p = 0 /\ \A i \in 1 .. Len(s) : s[i].key # k
      \/ p # 0 /\ p \in 1 .. Len(s) /\ s[p].key = k
    BY <1>3, FindPlace
<1> QED
    BY <1>1, <1>2, <1>4 DEF Represents

\* One that it sees is, with the value Find's node has.
LEMMA FindFinds ==
    ASSUME NEW n \in Nat \ {0}, NEW t, NEW f, Represents(t, n, f), NEW k \in Keys,
           NEW p, p = Find(t[Hash[k] % n], k), p # 0
    PROVE  /\ p \in 1 .. Len(t[Hash[k] % n])
           /\ t[Hash[k] % n][p].key = k /\ t[Hash[k] % n][p].value = f[k]
           /\ f[k] # ABSENT
<1>1. PICK b \in 0 .. n - 1 : b = Hash[k] % n
    BY Home
<1>2. PICK s \in Seq(Nodes) : s = t[b]
    BY DEF Represents
<1>3. p \in 1 .. Len(s) /\ s[p].key = k
  <2>1. p = Find(s, k)
    BY <1>1, <1>2
  <2> QED
    BY <2>1, FindPlace
<1>4. s[p].value = f[k]
    BY <1>1, <1>2, <1>3 DEF Represents
<1>5. s[p] \in Nodes
    BY <1>3, ElementOfSeq
<1>6. f[k] # ABSENT
    BY <1>4, <1>5, HashMapAssumption DEF Nodes
<1> QED
    BY <1>1, <1>2, <1>3, <1>4, <1>6

\* A chain's keys, each once.
NoKeyTwice(chain) ==
    \A p, q \in 1 .. Len(chain) : chain[p].key = chain[q].key => p = q

\* The chain of one bucket b of n, for the map f.
ChainFor(s, f, b, n) ==
    /\ NoKeyTwice(s)
    /\ \A i \in 1 .. Len(s) :
          /\ s[i] \in Nodes /\ s[i].key \in Keys
          /\ Hash[s[i].key] % n = b /\ f[s[i].key] = s[i].value
    /\ \A j \in Keys : Hash[j] % n = b /\ f[j] # ABSENT => \E i \in 1 .. Len(s) : s[i].key = j

\* What a table that stands for f has in each bucket.
LEMMA ChainOf ==
    ASSUME NEW n \in Nat \ {0}, NEW t, NEW f, Represents(t, n, f), NEW b \in 0 .. n - 1
    PROVE  \E s \in Seq(Nodes) : s = t[b] /\ ChainFor(s, f, b, n)
<1>1. PICK s \in Seq(Nodes) : s = t[b]
    BY DEF Represents
<1>2. \A i \in 1 .. Len(s) : s[i] \in Nodes
    BY ElementOfSeq
<1>3. \A i \in 1 .. Len(s) : s[i].key \in Keys
    BY <1>2 DEF Nodes
<1>4. \A i \in 1 .. Len(s) : Hash[s[i].key] % n = b /\ f[s[i].key] = s[i].value
    BY <1>1 DEF Represents
<1>5. NoKeyTwice(s)
    BY <1>1 DEF Represents, NoKeyTwice
<1>6. \A j \in Keys : Hash[j] % n = b /\ f[j] # ABSENT => \E i \in 1 .. Len(s) : s[i].key = j
    BY <1>1 DEF Represents
<1> QED
    BY <1>1, <1>2, <1>3, <1>4, <1>5, <1>6 DEF ChainFor

\* A table with another chain in the bucket of k: it stands for g if the chain does, and g
\* is f but for k.
LEMMA BucketRepresents ==
    ASSUME NEW n \in Nat \ {0}, NEW t, NEW f \in Maps, NEW g \in Maps, Represents(t, n, f),
           NEW k \in Keys, NEW b \in 0 .. n - 1, b = Hash[k] % n,
           \A j \in Keys \ {k} : g[j] = f[j],
           NEW w \in Seq(Nodes), ChainFor(w, g, b, n)
    PROVE  Represents([t EXCEPT ![b] = w], n, g)
<1> DEFINE u == [t EXCEPT ![b] = w]
<1>1. t \in [0 .. n - 1 -> Seq(Nodes)]
    BY DEF Represents
<1>2. u \in [0 .. n - 1 -> Seq(Nodes)] /\ u[b] = w /\ \A c \in (0 .. n - 1) \ {b} : u[c] = t[c]
    BY <1>1
<1> HIDE DEF u
<1>3. ASSUME NEW c \in 0 .. n - 1, NEW p \in 1 .. Len(u[c])
      PROVE  /\ Hash[u[c][p].key] % n = c
             /\ g[u[c][p].key] = u[c][p].value
             /\ \A q \in 1 .. Len(u[c]) : u[c][p].key = u[c][q].key => p = q
  <2>1. CASE c = b
    <3>1. u[c] = w
      BY <1>2, <2>1
    <3>2. \A q \in 1 .. Len(w) : w[p].key = w[q].key => p = q
      BY <1>3, <3>1 DEF ChainFor, NoKeyTwice
    <3> QED
      BY <1>3, <2>1, <3>1, <3>2 DEF ChainFor
  <2>2. CASE c # b
    <3>1. u[c] = t[c] /\ t[c] \in Seq(Nodes)
      BY <1>1, <1>2, <2>2
    <3>2. t[c][p] \in Nodes /\ Hash[t[c][p].key] % n = c /\ f[t[c][p].key] = t[c][p].value
      BY <1>3, <3>1, ElementOfSeq DEF Represents
    <3>3. t[c][p].key \in Keys /\ t[c][p].key # k
      BY <2>2, <3>2 DEF Nodes
    <3> QED
      BY <1>3, <3>1, <3>2, <3>3 DEF Represents
  <2> QED
    BY <2>1, <2>2
<1>4. ASSUME NEW j \in Keys, g[j] # ABSENT
      PROVE  \E p \in 1 .. Len(u[Hash[j] % n]) : u[Hash[j] % n][p].key = j
  <2>1. CASE Hash[j] % n = b
    <3>1. \E p \in 1 .. Len(w) : w[p].key = j
      BY <1>4, <2>1 DEF ChainFor
    <3> QED
      BY <1>2, <2>1, <3>1
  <2>2. CASE Hash[j] % n # b
    <3>1. Hash[j] % n \in 0 .. n - 1 /\ f[j] # ABSENT
      BY <1>4, <2>2, Home
    <3>2. u[Hash[j] % n] = t[Hash[j] % n]
      BY <1>2, <2>2, <3>1
    <3>3. \E p \in 1 .. Len(t[Hash[j] % n]) : t[Hash[j] % n][p].key = j
      BY <3>1 DEF Represents
    <3> QED
      BY <3>2, <3>3
  <2> QED
    BY <2>1, <2>2
<1> QED
  <2>1. Represents(u, n, g)
    BY <1>2, <1>3, <1>4 DEF Represents
  <2> QED
    BY <2>1 DEF u

\* A node of a new key, at the end of its chain, adds the key to the map.
LEMMA ChainedRepresents ==
    ASSUME NEW n \in Nat \ {0}, NEW t, NEW f \in Maps, Represents(t, n, f),
           NEW node \in Nodes, f[node.key] = ABSENT
    PROVE  Represents(Chained(t, n, node), n, [f EXCEPT ![node.key] = node.value])
<1>1. PICK k \in Keys : k = node.key
    BY DEF Nodes
<1>2. PICK b \in 0 .. n - 1 : b = Hash[k] % n
    BY Home
<1>3. PICK s \in Seq(Nodes) : s = t[b] /\ ChainFor(s, f, b, n)
    BY ChainOf
<1>4. PICK len \in Nat : len = Len(s)
    BY LenProperties
<1>5. PICK w : w = Append(s, node)
    OBVIOUS
<1>6. /\ w \in Seq(Nodes) /\ Len(w) = len + 1 /\ w[len + 1] = node
      /\ \A i \in 1 .. len : w[i] = s[i]
    BY <1>4, <1>5, AppendProperties
<1> DEFINE g == [f EXCEPT ![k] = node.value]
<1>7. g \in Maps /\ g[k] = node.value /\ \A j \in Keys \ {k} : g[j] = f[j]
    BY <1>1 DEF Maps, Nodes
<1> HIDE DEF g
<1>8. \A i \in 1 .. len : /\ s[i] \in Nodes /\ s[i].key \in Keys
                          /\ Hash[s[i].key] % n = b /\ f[s[i].key] = s[i].value
    BY <1>3, <1>4 DEF ChainFor
<1>9. \A i, j \in 1 .. len : s[i].key = s[j].key => i = j
    BY <1>3, <1>4 DEF ChainFor, NoKeyTwice
<1>10. ASSUME NEW i \in 1 .. len PROVE s[i].key # k
  <2>1. s[i].value # ABSENT
    BY <1>8, HashMapAssumption DEF Nodes
  <2> QED
    BY <1>1, <1>8, <2>1
<1>11. ASSUME NEW i \in 1 .. (len + 1)
       PROVE  /\ w[i] \in Nodes /\ w[i].key \in Keys
              /\ Hash[w[i].key] % n = b /\ g[w[i].key] = w[i].value
  <2>1. CASE i = len + 1
    BY <1>1, <1>2, <1>6, <1>7, <2>1
  <2>2. CASE i # len + 1
    <3>1. i \in 1 .. len /\ w[i] = s[i]
      BY <1>6, <2>2
    <3> QED
      BY <1>7, <1>8, <1>10, <3>1
  <2> QED
    BY <2>1, <2>2
<1>12. ASSUME NEW i \in 1 .. (len + 1), NEW j \in 1 .. (len + 1), w[i].key = w[j].key
       PROVE  i = j
  <2>1. \A m \in 1 .. len : w[m].key = s[m].key /\ w[m].key # k
    BY <1>6, <1>10
  <2>2. w[len + 1].key = k
    BY <1>1, <1>6
  <2>3. CASE i \in 1 .. len /\ j \in 1 .. len
    BY <1>9, <1>12, <2>1, <2>3
  <2> QED
    BY <1>12, <2>1, <2>2, <2>3
<1>13. ASSUME NEW j \in Keys, Hash[j] % n = b, g[j] # ABSENT
       PROVE  \E i \in 1 .. (len + 1) : w[i].key = j
  <2>1. CASE j = k
    BY <1>1, <1>6, <2>1
  <2>2. CASE j # k
    <3>1. PICK i \in 1 .. len : s[i].key = j
      BY <1>3, <1>4, <1>7, <1>13, <2>2 DEF ChainFor
    <3> QED
      BY <1>6, <3>1
  <2> QED
    BY <2>1, <2>2
<1>14. ChainFor(w, g, b, n)
    BY <1>6, <1>11, <1>12, <1>13 DEF ChainFor, NoKeyTwice
<1>15. Represents([t EXCEPT ![b] = w], n, g)
    BY <1>2, <1>6, <1>7, <1>14, BucketRepresents
<1>16. Chained(t, n, node) = [t EXCEPT ![b] = w]
    BY <1>1, <1>2, <1>3, <1>5 DEF Chained
<1> QED
    BY <1>1, <1>15, <1>16 DEF g

----------------------------------------------------------------------------
\* The tables of Moved, from the first to the one after m nodes.
Moves(t, n, chain, T, m) ==
    T = [p \in 0 .. m |-> IF p = 0 THEN t ELSE Chained(T[p - 1], n, chain[p])]

\* For every number of nodes the recursion defines them: the least number for which it
\* does not would extend the tables of the one before.
LEMMA MovesExist ==
    ASSUME NEW t, NEW n, NEW chain, NEW m \in Nat
    PROVE  \E T : Moves(t, n, chain, T, m)
<1> DEFINE I == {k \in Nat : ~ \E T : Moves(t, n, chain, T, k)}
<1>1. ASSUME I # {} PROVE FALSE
  <2>1. PICK k \in I : \A j \in I : k <= j
    <3>1. I \subseteq Nat
      OBVIOUS
    <3> HIDE DEF I
    <3> QED
      BY <1>1, <3>1, MinIsFirst
  <2>2. CASE k = 0
    <3> DEFINE T == [p \in 0 .. 0 |-> t]
    <3>1. Moves(t, n, chain, T, 0)
      BY DEF Moves
    <3> QED
      BY <2>1, <2>2, <3>1
  <2>3. CASE k # 0
    <3>1. k - 1 \in Nat /\ k \in Nat /\ k - 1 \notin I
      BY <2>1, <2>3
    <3>2. PICK G : Moves(t, n, chain, G, k - 1)
      BY <3>1
    <3> DEFINE T == [p \in 0 .. k |-> IF p = k THEN Chained(G[k - 1], n, chain[k]) ELSE G[p]]
    <3>3. ASSUME NEW p \in 0 .. k
          PROVE  T[p] = IF p = 0 THEN t ELSE Chained(T[p - 1], n, chain[p])
      <4>1. CASE p = k
        <5>1. T[p] = Chained(G[k - 1], n, chain[k]) /\ T[k - 1] = G[k - 1]
          BY <3>1, <4>1
        <5> QED
          BY <2>3, <4>1, <5>1
      <4>2. CASE p # k
        <5>1. p \in 0 .. (k - 1) /\ T[p] = G[p]
          BY <3>1, <4>2
        <5>2. p # 0 => T[p - 1] = G[p - 1]
          BY <3>1, <5>1
        <5>3. G[p] = IF p = 0 THEN t ELSE Chained(G[p - 1], n, chain[p])
          BY <3>2, <5>1 DEF Moves
        <5> HIDE DEF T
        <5> QED
          BY <5>1, <5>2, <5>3, Zenon
      <4> QED
        BY <4>1, <4>2
    <3>4. Moves(t, n, chain, T, k)
      BY <3>3 DEF Moves
    <3> QED
      BY <2>1, <3>4
  <2> QED
    BY <2>2, <2>3
<1> QED
  BY <1>1

\* The map g is f with the nodes of a chain of new keys.
Extends(g, f, chain) ==
    /\ \A p \in 1 .. Len(chain) :
          f[chain[p].key] = ABSENT /\ g[chain[p].key] = chain[p].value
    /\ \A k \in Keys : (\A p \in 1 .. Len(chain) : chain[p].key # k) => g[k] = f[k]

\* Moving a chain of new keys, node by node, adds them to the map.
LEMMA MovedRepresents ==
    ASSUME NEW n \in Nat \ {0}, NEW t, NEW f \in Maps, NEW g \in Maps, Represents(t, n, f),
           NEW chain \in Seq(Nodes), NoKeyTwice(chain), Extends(g, f, chain)
    PROVE  Represents(Moved(t, n, chain), n, g)
<1>1. PICK len \in Nat : len = Len(chain)
    BY LenProperties
<1> DEFINE M == CHOOSE T : Moves(t, n, chain, T, len)
           h(p) == [k \in Keys |-> IF \E i \in 1 .. p : chain[i].key = k THEN g[k] ELSE f[k]]
           I == {p \in 0 .. len : ~ Represents(M[p], n, h(p))}
<1>2. Moves(t, n, chain, M, len)
    BY <1>1, MovesExist, Zenon
<1>3. Moved(t, n, chain) = M[len]
    BY <1>1, Zenon DEF Moved, Moves
<1>4. M[0] = t /\ \A p \in 1 .. len : M[p] = Chained(M[p - 1], n, chain[p])
  <2> HIDE DEF M
  <2> QED
    BY <1>2 DEF Moves
<1>5. h(0) = f
    BY DEF Maps
<1>6. h(len) = g
    BY <1>1 DEF Maps, Extends
<1>7. \A p \in 0 .. len : h(p) \in Maps
    BY DEF Maps
<1>8. ASSUME NEW p \in 1 .. len
      PROVE  /\ h(p - 1)[chain[p].key] = ABSENT
             /\ h(p) = [h(p - 1) EXCEPT ![chain[p].key] = chain[p].value]
  <2>1. chain[p] \in Nodes /\ chain[p].key \in Keys
    <3>1. chain[p] \in Nodes
      BY <1>1, ElementOfSeq
    <3> QED
      BY <3>1 DEF Nodes
  <2>2. f[chain[p].key] = ABSENT /\ g[chain[p].key] = chain[p].value
    BY <1>1 DEF Extends
  <2>3. \A i \in 1 .. (p - 1) : chain[i].key # chain[p].key
    BY <1>1 DEF NoKeyTwice
  <2>4. h(p - 1)[chain[p].key] = ABSENT
    BY <2>1, <2>2, <2>3
  <2>5. ASSUME NEW k \in Keys
        PROVE  h(p)[k] = [h(p - 1) EXCEPT ![chain[p].key] = chain[p].value][k]
    <3>1. CASE k = chain[p].key
      BY <2>1, <2>2, <3>1
    <3>2. CASE k # chain[p].key
      <4>1. (\E i \in 1 .. p : chain[i].key = k) <=> (\E i \in 1 .. (p - 1) : chain[i].key = k)
        BY <3>2
      <4> QED
        BY <3>2, <4>1
    <3> QED
      BY <3>1, <3>2
  <2> QED
    BY <2>4, <2>5
<1> HIDE DEF M, h
<1>9. ASSUME I # {} PROVE FALSE
  <2>1. PICK p \in I : \A j \in I : p <= j
    <3>1. I \subseteq Nat
      OBVIOUS
    <3> HIDE DEF I
    <3> QED
      BY <1>9, <3>1, MinIsFirst
  <2>2. p # 0
    BY <1>4, <1>5, <2>1
  <2>3. p \in 1 .. len /\ p - 1 \in 0 .. len /\ p - 1 \notin I
    BY <2>1, <2>2
  <2>4. Represents(M[p - 1], n, h(p - 1)) /\ h(p - 1) \in Maps
    BY <1>7, <2>3
  <2>5. chain[p] \in Nodes /\ h(p - 1)[chain[p].key] = ABSENT
    BY <1>1, <1>8, <2>3, ElementOfSeq
  <2>6. Represents(Chained(M[p - 1], n, chain[p]), n,
                   [h(p - 1) EXCEPT ![chain[p].key] = chain[p].value])
    BY <2>4, <2>5, ChainedRepresents
  <2>7. Represents(M[p], n, h(p))
    BY <1>4, <1>8, <2>3, <2>6
  <2> QED
    BY <2>1, <2>7
<1>10. len \in 0 .. len
    OBVIOUS
<1> QED
    BY <1>3, <1>6, <1>9, <1>10

\* The tables of hashmap_resize, from the empty one to the one after m buckets.
Grows(n, T, m) ==
    T = [i \in 0 .. m |->
          IF i = 0 THEN [b \in 0 .. n - 1 |-> <<>>] ELSE Moved(T[i - 1], n, data[i - 1])]

\* For every number of buckets the recursion defines them.
LEMMA GrowsExist ==
    ASSUME NEW n, NEW m \in Nat
    PROVE  \E T : Grows(n, T, m)
<1> DEFINE I == {k \in Nat : ~ \E T : Grows(n, T, k)}
           empty == [b \in 0 .. n - 1 |-> <<>>]
<1>1. ASSUME I # {} PROVE FALSE
  <2>1. PICK k \in I : \A j \in I : k <= j
    <3>1. I \subseteq Nat
      OBVIOUS
    <3> HIDE DEF I
    <3> QED
      BY <1>1, <3>1, MinIsFirst
  <2>2. CASE k = 0
    <3> DEFINE T == [i \in 0 .. 0 |-> empty]
    <3>1. Grows(n, T, 0)
      BY DEF Grows
    <3> QED
      BY <2>1, <2>2, <3>1
  <2>3. CASE k # 0
    <3>1. k - 1 \in Nat /\ k \in Nat /\ k - 1 \notin I
      BY <2>1, <2>3
    <3>2. PICK G : Grows(n, G, k - 1)
      BY <3>1
    <3> DEFINE T == [i \in 0 .. k |-> IF i = k THEN Moved(G[k - 1], n, data[k - 1]) ELSE G[i]]
    <3>3. ASSUME NEW i \in 0 .. k
          PROVE  T[i] = IF i = 0 THEN empty ELSE Moved(T[i - 1], n, data[i - 1])
      <4>1. CASE i = k
        <5>1. T[i] = Moved(G[k - 1], n, data[k - 1]) /\ T[k - 1] = G[k - 1]
          BY <3>1, <4>1
        <5> QED
          BY <2>3, <4>1, <5>1
      <4>2. CASE i # k
        <5>1. i \in 0 .. (k - 1) /\ T[i] = G[i]
          BY <3>1, <4>2
        <5>2. i # 0 => T[i - 1] = G[i - 1]
          BY <3>1, <5>1
        <5>3. G[i] = IF i = 0 THEN empty ELSE Moved(G[i - 1], n, data[i - 1])
          BY <3>2, <5>1 DEF Grows
        <5> HIDE DEF T, empty
        <5> QED
          BY <5>1, <5>2, <5>3, Zenon
      <4> QED
        BY <4>1, <4>2
    <3>4. Grows(n, T, k)
      BY <3>3 DEF Grows
    <3> QED
      BY <2>1, <3>4
  <2> QED
    BY <2>2, <2>3
<1> QED
  BY <1>1

\* The new table stands for the map of the old one: after i buckets, for what they held.
LEMMA ResizedRepresents ==
    ASSUME NEW f \in Maps, size \in Nat \ {0}, Represents(data, size, f), NEW n \in Nat \ {0}
    PROVE  Represents(Resized(n), n, f)
<1> DEFINE R == CHOOSE T : Grows(n, T, size)
           h(i) == [k \in Keys |-> IF Hash[k] % size < i THEN f[k] ELSE ABSENT]
           I == {i \in 0 .. size : ~ Represents(R[i], n, h(i))}
<1>1. Grows(n, R, size)
    BY GrowsExist, Zenon
<1>2. Resized(n) = R[size]
    BY Zenon DEF Resized, Grows
<1>3. /\ R[0] = [b \in 0 .. n - 1 |-> <<>>]
      /\ \A i \in 1 .. size : R[i] = Moved(R[i - 1], n, data[i - 1])
  <2> HIDE DEF R
  <2>1. 0 \in 0 .. size /\ \A i \in 1 .. size : i \in 0 .. size /\ i # 0
    OBVIOUS
  <2> QED
    BY <1>1, <2>1, Zenon DEF Grows
<1>4. \A k \in Keys : Hash[k] % size \in 0 .. size - 1
    BY Home
<1>5. \A k \in Keys : h(0)[k] = ABSENT
    BY <1>4
<1>6. h(size) = f
    BY <1>4 DEF Maps
<1>7. \A i \in 0 .. size : h(i) \in Maps
    BY DEF Maps
<1>8. ASSUME NEW i \in 1 .. size
      PROVE  /\ data[i - 1] \in Seq(Nodes) /\ NoKeyTwice(data[i - 1])
             /\ Extends(h(i), h(i - 1), data[i - 1])
  <2>1. PICK c \in 0 .. size - 1 : c = i - 1
    OBVIOUS
  <2>2. PICK s \in Seq(Nodes) : s = data[c]
    BY DEF Represents
  <2>3. \A p \in 1 .. Len(s) : Hash[s[p].key] % size = c /\ f[s[p].key] = s[p].value
    BY <2>2 DEF Represents
  <2>4. NoKeyTwice(s)
    BY <2>2 DEF Represents, NoKeyTwice
  <2>5. \A p \in 1 .. Len(s) : s[p].key \in Keys
    <3>1. \A p \in 1 .. Len(s) : s[p] \in Nodes
      BY ElementOfSeq
    <3> QED
      BY <3>1 DEF Nodes
  <2>6. ASSUME NEW p \in 1 .. Len(s)
        PROVE  h(i - 1)[s[p].key] = ABSENT /\ h(i)[s[p].key] = s[p].value
    BY <2>1, <2>3, <2>5
  <2>7. ASSUME NEW k \in Keys, \A p \in 1 .. Len(s) : s[p].key # k
        PROVE  h(i)[k] = h(i - 1)[k]
    <3>1. CASE Hash[k] % size = c
      <4>1. f[k] = ABSENT
        BY <2>2, <2>7, <3>1 DEF Represents
      <4> QED
        BY <4>1
    <3>2. CASE Hash[k] % size # c
      <4>1. Hash[k] % size < i <=> Hash[k] % size < i - 1
        BY <1>4, <2>1, <3>2
      <4> QED
        BY <4>1
    <3> QED
      BY <3>1, <3>2
  <2> HIDE DEF h
  <2> QED
    BY <2>1, <2>2, <2>4, <2>6, <2>7 DEF Extends
<1> HIDE DEF R, h
<1>9. ASSUME I # {} PROVE FALSE
  <2>1. PICK i \in I : \A j \in I : i <= j
    <3>1. I \subseteq Nat
      OBVIOUS
    <3> HIDE DEF I
    <3> QED
      BY <1>9, <3>1, MinIsFirst
  <2>2. i # 0
    <3>1. Represents(R[0], n, h(0))
      BY <1>3, <1>5, EmptyRepresents
    <3> QED
      BY <2>1, <3>1
  <2>3. i \in 1 .. size /\ i - 1 \in 0 .. size /\ i - 1 \notin I
    BY <2>1, <2>2
  <2>4. Represents(R[i - 1], n, h(i - 1)) /\ h(i - 1) \in Maps /\ h(i) \in Maps
    BY <1>7, <2>3
  <2>5. Represents(Moved(R[i - 1], n, data[i - 1]), n, h(i))
    BY <1>8, <2>3, <2>4, MovedRepresents
  <2>6. Represents(R[i], n, h(i))
    BY <1>3, <2>3, <2>5
  <2> QED
    BY <2>1, <2>6
<1>10. size \in 0 .. size
    OBVIOUS
<1> QED
    BY <1>2, <1>6, <1>9, <1>10

----------------------------------------------------------------------------
\* Another value in the node of k is another value of k.
LEMMA ValueRepresents ==
    ASSUME NEW n \in Nat \ {0}, NEW t, NEW f \in Maps, Represents(t, n, f),
           NEW k \in Keys, NEW p, p = Find(t[Hash[k] % n], k), p # 0,
           NEW v \in Values \cup {NULL}
    PROVE  Represents([t EXCEPT ![Hash[k] % n][p].value = v], n, [f EXCEPT ![k] = v])
<1>1. PICK b \in 0 .. n - 1 : b = Hash[k] % n
    BY Home
<1>2. PICK s \in Seq(Nodes) : s = t[b] /\ ChainFor(s, f, b, n)
    BY ChainOf
<1>3. PICK len \in Nat : len = Len(s)
    BY LenProperties
<1>4. p \in 1 .. len /\ s[p].key = k
    BY <1>1, <1>2, <1>3, FindFinds
<1>5. \A i \in 1 .. len : s[i] \in Nodes /\ s[i].key \in Keys
    BY <1>2, <1>3 DEF ChainFor
<1>6. \A i \in 1 .. len : Hash[s[i].key] % n = b /\ f[s[i].key] = s[i].value
    BY <1>2, <1>3 DEF ChainFor
<1>7. \A i, j \in 1 .. len : s[i].key = s[j].key => i = j
    BY <1>2, <1>3 DEF ChainFor, NoKeyTwice
<1> DEFINE node == [s[p] EXCEPT !.value = v]
           w == [s EXCEPT ![p] = node]
           g == [f EXCEPT ![k] = v]
<1>8. node \in Nodes /\ node.key = k /\ node.value = v
    BY <1>4, <1>5 DEF Nodes
<1>9. w \in Seq(Nodes) /\ Len(w) = len
    BY <1>3, <1>4, <1>8, ExceptSeq
<1>10. w[p] = node /\ \A i \in 1 .. len : i # p => w[i] = s[i]
    BY <1>3, <1>4
<1>11. g \in Maps /\ g[k] = v /\ \A j \in Keys \ {k} : g[j] = f[j]
    BY DEF Maps
<1>12. [t EXCEPT ![b][p].value = v] = [t EXCEPT ![b] = w]
    BY <1>2 DEF Represents
<1> HIDE DEF node, w, g
<1>13. \A i \in 1 .. len : w[i].key = s[i].key
    BY <1>4, <1>8, <1>10
<1>14. NoKeyTwice(w)
    BY <1>7, <1>9, <1>13 DEF NoKeyTwice
<1>15. ASSUME NEW i \in 1 .. len PROVE Hash[w[i].key] % n = b /\ g[w[i].key] = w[i].value
  <2>1. CASE i = p
    BY <1>1, <1>8, <1>10, <1>11, <2>1
  <2>2. CASE i # p
    <3>1. w[i] = s[i] /\ s[i].key # k
      BY <1>4, <1>7, <1>10, <2>2
    <3> QED
      BY <1>5, <1>6, <1>11, <3>1
  <2> QED
    BY <2>1, <2>2
<1>16. ASSUME NEW j \in Keys, Hash[j] % n = b, g[j] # ABSENT
       PROVE  \E i \in 1 .. len : w[i].key = j
  <2>1. CASE j = k
    BY <1>4, <1>13, <2>1
  <2>2. CASE j # k
    <3>1. \E i \in 1 .. len : s[i].key = j
      BY <1>2, <1>3, <1>11, <1>16, <2>2 DEF ChainFor
    <3> QED
      BY <1>13, <3>1
  <2> QED
    BY <2>1, <2>2
<1>17. \A i \in 1 .. len : w[i] \in Nodes /\ w[i].key \in Keys
    BY <1>5, <1>8, <1>10, <1>13
<1>18. ChainFor(w, g, b, n)
    BY <1>9, <1>14, <1>15, <1>16, <1>17 DEF ChainFor
<1>19. Represents([t EXCEPT ![b] = w], n, g)
    BY <1>1, <1>9, <1>11, <1>18, BucketRepresents
<1> QED
    BY <1>1, <1>12, <1>19 DEF g

\* Unlinking the node of a chain at place p: what it leaves, place by place.
LEMMA RemoveAtPlaces ==
    ASSUME NEW S, NEW s \in Seq(S), NEW len \in Nat, Len(s) = len, NEW p \in 1 .. len
    PROVE  /\ Len(RemoveAt(s, p)) = len - 1
           /\ \A i \in 1 .. (len - 1) : RemoveAt(s, p)[i] = IF i < p THEN s[i] ELSE s[i + 1]
  BY DEF RemoveAt

\* Unlinking the node of k leaves a table of the map without k.
LEMMA RemovedRepresents ==
    ASSUME NEW n \in Nat \ {0}, NEW t, NEW f \in Maps, Represents(t, n, f),
           NEW k \in Keys, NEW p, p = Find(t[Hash[k] % n], k), p # 0
    PROVE  Represents([t EXCEPT ![Hash[k] % n] = RemoveAt(t[Hash[k] % n], p)], n,
                      [f EXCEPT ![k] = ABSENT])
<1>1. PICK b \in 0 .. n - 1 : b = Hash[k] % n
    BY Home
<1>2. PICK s \in Seq(Nodes) : s = t[b] /\ ChainFor(s, f, b, n)
    BY ChainOf
<1>3. PICK len \in Nat : len = Len(s)
    BY LenProperties
<1>4. p \in 1 .. len /\ s[p].key = k
    BY <1>1, <1>2, <1>3, FindFinds
<1>5. \A i \in 1 .. len : s[i] \in Nodes /\ s[i].key \in Keys
    BY <1>2, <1>3 DEF ChainFor
<1>6. \A i \in 1 .. len : Hash[s[i].key] % n = b /\ f[s[i].key] = s[i].value
    BY <1>2, <1>3 DEF ChainFor
<1>7. \A i, j \in 1 .. len : s[i].key = s[j].key => i = j
    BY <1>2, <1>3 DEF ChainFor, NoKeyTwice
<1> DEFINE w == RemoveAt(s, p)
           g == [f EXCEPT ![k] = ABSENT]
           place(i) == IF i < p THEN i ELSE i + 1
<1>8. Len(w) = len - 1 /\ \A i \in 1 .. (len - 1) : w[i] = IF i < p THEN s[i] ELSE s[i + 1]
    BY <1>3, <1>4, RemoveAtPlaces
<1>9. g \in Maps /\ g[k] = ABSENT /\ \A j \in Keys \ {k} : g[j] = f[j]
    BY DEF Maps
<1>10. w \in Seq(Nodes)
    BY <1>3, <1>4 DEF RemoveAt
<1> HIDE DEF w, g
<1>11. ASSUME NEW i \in 1 .. (len - 1)
       PROVE  place(i) \in 1 .. len /\ place(i) # p /\ w[i] = s[place(i)] /\ s[place(i)].key # k
  <2>1. place(i) \in 1 .. len /\ place(i) # p
    BY <1>4
  <2>2. w[i] = s[place(i)]
    BY <1>8
  <2> QED
    BY <1>4, <1>7, <2>1, <2>2
<1>12. ASSUME NEW i \in 1 .. Len(w), NEW j \in 1 .. Len(w), w[i].key = w[j].key PROVE i = j
  <2>1. i \in 1 .. (len - 1) /\ j \in 1 .. (len - 1)
    BY <1>8, <1>12
  <2>2. PICK x \in 1 .. len : x = place(i) /\ w[i] = s[x]
    BY <1>11, <2>1
  <2>3. PICK y \in 1 .. len : y = place(j) /\ w[j] = s[y]
    BY <1>11, <2>1
  <2>4. x = y
    BY <1>7, <1>12, <2>2, <2>3
  <2> QED
    BY <1>4, <2>1, <2>2, <2>3, <2>4
<1>13. NoKeyTwice(w)
    BY <1>12 DEF NoKeyTwice
<1>14. ASSUME NEW i \in 1 .. Len(w) PROVE Hash[w[i].key] % n = b /\ g[w[i].key] = w[i].value
  <2>1. PICK m \in 1 .. len : w[i] = s[m] /\ s[m].key # k
    BY <1>8, <1>11
  <2> QED
    BY <1>5, <1>6, <1>9, <2>1
<1>15. ASSUME NEW j \in Keys, Hash[j] % n = b, g[j] # ABSENT
       PROVE  \E i \in 1 .. Len(w) : w[i].key = j
  <2>1. j # k /\ f[j] # ABSENT
    BY <1>9, <1>15
  <2>2. PICK m \in 1 .. len : s[m].key = j
    BY <1>2, <1>3, <1>15, <2>1 DEF ChainFor
  <2>3. CASE m < p
    BY <1>4, <1>8, <2>2, <2>3
  <2>4. CASE m > p
    <3>1. m - 1 \in 1 .. (len - 1) /\ w[m - 1] = s[m]
      BY <1>4, <1>8, <2>4
    <3> QED
      BY <1>8, <2>2, <3>1
  <2> QED
    BY <1>4, <2>1, <2>2, <2>3, <2>4
<1>16. \A i \in 1 .. Len(w) : w[i] \in Nodes /\ w[i].key \in Keys
    BY <1>5, <1>8, <1>11
<1>17. ChainFor(w, g, b, n)
    BY <1>13, <1>14, <1>15, <1>16 DEF ChainFor
<1>18. Represents([t EXCEPT ![b] = w], n, g)
    BY <1>1, <1>9, <1>10, <1>17, BucketRepresents
<1> QED
    BY <1>1, <1>2, <1>18 DEF g, w

----------------------------------------------------------------------------
\* The map a table of n buckets is read as: kvBar, for any table.
Reading(t, n) ==
    [k \in Keys |->
        LET chain == t[Hash[k] % n]
            p     == Find(chain, k)
        IN  IF p = 0 THEN ABSENT ELSE chain[p].value]

\* A table that stands for a map is read as that map.
LEMMA ReadingIs ==
    ASSUME NEW n \in Nat \ {0}, NEW t, NEW f \in Maps, Represents(t, n, f)
    PROVE  Reading(t, n) = f
<1>1. ASSUME NEW k \in Keys PROVE Reading(t, n)[k] = f[k]
  <2>1. PICK p : p = Find(t[Hash[k] % n], k)
    OBVIOUS
  <2>2. Reading(t, n)[k] = IF p = 0 THEN ABSENT ELSE t[Hash[k] % n][p].value
    BY <2>1 DEF Reading
  <2>3. p = 0 => f[k] = ABSENT
    BY <1>1, <2>1, NotFound
  <2>4. ASSUME p # 0 PROVE t[Hash[k] % n][p].value = f[k]
    BY <1>1, <2>1, <2>4, FindFinds
  <2> QED
    BY <2>2, <2>3, <2>4
<1>2. Reading(t, n) = [k \in Keys |-> Reading(t, n)[k]]
    BY DEF Reading
<1>3. f = [k \in Keys |-> f[k]]
    BY DEF Maps
<1> QED
    BY <1>1, <1>2, <1>3

\* The nodes of a table are the entries of its map, one for each key: as many as its keys.
LEMMA NodesAreEntries ==
    ASSUME NEW n \in Nat \ {0}, NEW t, NEW f \in Maps, Represents(t, n, f),
           NEW N, N = UNION {ToSet(chain) : chain \in {t[b] : b \in DOMAIN t}},
           NEW P, P = {k \in Keys : f[k] # ABSENT}, IsFiniteSet(P)
    PROVE  N \subseteq Nodes /\ Cardinality(N) = Cardinality(P)
<1> DEFINE e == [k \in P |-> Node(k, f[k])]
<1>1. DOMAIN t = 0 .. n - 1
    BY DEF Represents
<1>2. ASSUME NEW node \in N PROVE node \in Nodes /\ node.key \in P /\ node = e[node.key]
  <2>1. PICK b \in 0 .. n - 1 : node \in ToSet(t[b])
    BY <1>1
  <2>2. PICK s \in Seq(Nodes) : s = t[b]
    BY DEF Represents
  <2>3. PICK p \in 1 .. Len(s) : node = s[p]
    BY <2>1, <2>2 DEF ToSet
  <2>4. node \in Nodes
    BY <2>3, ElementOfSeq
  <2>5. f[node.key] = node.value
    BY <2>2, <2>3 DEF Represents
  <2>6. node.key \in Keys /\ node.value # ABSENT /\ node = Node(node.key, node.value)
    BY <2>4, HashMapAssumption DEF Nodes, Node
  <2> QED
    BY <2>4, <2>5, <2>6
<1>3. ASSUME NEW k \in P PROVE e[k] \in N
  <2>1. PICK b \in 0 .. n - 1 : b = Hash[k] % n
    BY Home
  <2>2. PICK s \in Seq(Nodes) : s = t[b]
    BY DEF Represents
  <2>3. PICK p \in 1 .. Len(s) : s[p].key = k
    BY <2>1, <2>2 DEF Represents
  <2>4. s[p] \in N
    BY <1>1, <2>2 DEF ToSet
  <2> QED
    BY <1>2, <2>3, <2>4
<1>4. e \in Bijection(P, N)
  <2>1. e \in [P -> N]
    BY <1>3
  <2>2. \A j, k \in P : e[j] = e[k] => j = k
    BY DEF Node
  <2>3. \A node \in N : \E k \in P : e[k] = node
    BY <1>2
  <2> QED
    BY <2>1, <2>2, <2>3 DEF Bijection, Injection, Surjection, IsInjective
<1>5. Cardinality(N) = Cardinality(P)
    BY <1>4, FS_Bijection DEF ExistsBijection
<1> QED
    BY <1>2, <1>5

----------------------------------------------------------------------------
\* The inductive invariant: the table stands for the abstract map, of which every key
\* counts one element; and the load factor's limit.
Stored(f) == {k \in Keys : f[k] # ABSENT}
Loaded == refused \/ 4 * elements <= 3 * size
Types ==
    /\ size \in Nat \ {0} /\ elements \in Nat
    /\ ret \in Values \cup {NULL} \cup Nat
    /\ status \in {"live", "destroyed", "crashed"} /\ refused \in BOOLEAN
MapInv ==
    /\ Types
    /\ kvBar \in Maps /\ Represents(data, size, kvBar)
    /\ IsFiniteSet(Stored(kvBar))
    /\ Live => elements = Cardinality(Stored(kvBar)) /\ Loaded

\* The table the next state has is read as the map it stands for.
LEMMA NextReading ==
    ASSUME NEW n \in Nat \ {0}, size' = n, NEW g \in Maps, Represents(data', n, g)
    PROVE  kvBar' = g
<1>1. kvBar' = Reading(data', n)
    BY DEF kvBar, Bucket, Reading
<1> QED
    BY <1>1, ReadingIs

\* So a step keeps the table's part of the invariant when it leaves a table of a map.
LEMMA NextRepresents ==
    ASSUME NEW n \in Nat \ {0}, size' = n, NEW g \in Maps, Represents(data', n, g),
           IsFiniteSet(Stored(g))
    PROVE  /\ kvBar' = g /\ kvBar' \in Maps /\ Represents(data', size', kvBar')
           /\ IsFiniteSet(Stored(kvBar'))
<1>1. kvBar' = g
    BY NextReading
<1> QED
    BY <1>1

\* The keys of a map with a key given a value.
LEMMA StoredWith ==
    ASSUME NEW f \in Maps, IsFiniteSet(Stored(f)), NEW k \in Keys, NEW v \in Values \cup {NULL},
           NEW g, g = [f EXCEPT ![k] = v]
    PROVE  /\ g \in Maps /\ IsFiniteSet(Stored(g))
           /\ Cardinality(Stored(g)) =
                IF f[k] = ABSENT THEN Cardinality(Stored(f)) + 1 ELSE Cardinality(Stored(f))
<1>1. v # ABSENT
    BY HashMapAssumption
<1>2. g \in Maps
    BY DEF Maps
<1>3. Stored(g) = Stored(f) \cup {k} /\ (k \in Stored(f) <=> f[k] # ABSENT)
    BY <1>1 DEF Stored, Maps
<1>4. IsFiniteSet(Stored(g)) /\ Cardinality(Stored(g)) =
          IF k \in Stored(f) THEN Cardinality(Stored(f)) ELSE Cardinality(Stored(f)) + 1
    BY <1>3, FS_AddElement
<1> QED
    BY <1>2, <1>3, <1>4

\* And those of a map without one of its keys.
LEMMA StoredWithout ==
    ASSUME NEW f \in Maps, IsFiniteSet(Stored(f)), NEW k \in Keys, f[k] # ABSENT,
           NEW g, g = [f EXCEPT ![k] = ABSENT]
    PROVE  /\ g \in Maps /\ IsFiniteSet(Stored(g))
           /\ Cardinality(Stored(g)) = Cardinality(Stored(f)) - 1
<1>1. g \in Maps
    BY DEF Maps
<1>2. Stored(g) = Stored(f) \ {k} /\ k \in Stored(f)
    BY DEF Stored, Maps
<1>3. IsFiniteSet(Stored(g)) /\ Cardinality(Stored(g)) = Cardinality(Stored(f)) - 1
    BY <1>2, FS_RemoveElement
<1> QED
    BY <1>1, <1>3

\* The map starts empty.
LEMMA InitMap == Init => MapInv /\ Map!MapInit
<1> SUFFICES ASSUME Init PROVE MapInv /\ Map!MapInit
    OBVIOUS
<1> DEFINE f == [k \in Keys |-> ABSENT]
<1>1. f \in Maps /\ Stored(f) = {}
    BY DEF Maps, Stored
<1>2. size \in Nat \ {0} /\ size = InitSize
    BY HashMapAssumption DEF Init
<1>3. Represents(data, size, f)
    BY <1>2, EmptyRepresents DEF Init
<1> HIDE DEF f
<1>4. kvBar = f
  <2>1. kvBar = Reading(data, size)
    BY DEF kvBar, Bucket, Reading
  <2> QED
    BY <1>1, <1>2, <1>3, <2>1, ReadingIs
<1>5. IsFiniteSet(Stored(kvBar)) /\ Cardinality(Stored(kvBar)) = 0
    BY <1>1, <1>4, FS_EmptySet
<1>6. Types /\ Loaded /\ elements = 0
  <2>1. elements = 0 /\ ret = NULL /\ status = "live" /\ refused = FALSE
    BY DEF Init
  <2>2. 4 * 0 <= 3 * size
    BY <1>2
  <2> QED
    BY <1>2, <2>1, <2>2 DEF Types, Loaded
<1>7. MapInv
    BY <1>1, <1>3, <1>4, <1>5, <1>6 DEF MapInv
<1>8. Map!MapInit
    BY <1>4 DEF f, Init, Map!MapInit
<1> QED
    BY <1>7, <1>8

\* Whatever calloc answers, the table an insertion goes on with is the same map, and one
\* element more is within its limit, or a resize has been refused.
LEMMA TableRepresents ==
    ASSUME MapInv, Live, NEW n \in Sizes
    PROVE  /\ n \in Nat \ {0}
           /\ Represents(Table(n), n, kvBar)
           /\ refused \/ (Crowded /\ n = size) \/ 4 * (elements + 1) <= 3 * n
           /\ refused \/ (Crowded /\ n = size) \/ 4 * elements <= 3 * n
<1>1. size \in Nat \ {0} /\ elements \in Nat /\ (refused \/ 4 * elements <= 3 * size)
    BY DEF MapInv, Types, Loaded
<1>2. n = size \/ (n = 2 * size /\ Crowded)
    BY DEF Sizes
<1>3. n \in Nat \ {0}
    BY <1>1, <1>2
<1>4. Represents(Table(n), n, kvBar)
    BY <1>1, <1>2, <1>3, ResizedRepresents DEF Table, MapInv
<1>5. refused \/ (Crowded /\ n = size) \/ 4 * (elements + 1) <= 3 * n
    BY <1>1, <1>2 DEF Crowded
<1>6. refused \/ (Crowded /\ n = size) \/ 4 * elements <= 3 * n
    BY <1>1, <1>3, <1>5
<1> QED
    BY <1>3, <1>4, <1>5, <1>6

\* The three ways hashmap_insert ends: the value is replaced, a node is made, or malloc's
\* NULL is used.
Replaces(t, n, k, p, v) ==
    /\ data' = [t EXCEPT ![Hash[k] % n][p].value = v] /\ ret' = NULL
    /\ elements' = elements /\ status' = status
Makes(t, n, k, v) ==
    /\ data' = Chained(t, n, Node(k, v)) /\ ret' = NULL
    /\ elements' = elements + 1 /\ status' = status
Crashes(t) ==
    data' = t /\ ret' = ret /\ elements' = elements /\ status' = "crashed"

\* It ends in one of them, with a table of one of the sizes.
LEMMA InsertEnds ==
    ASSUME NEW k, NEW v, Insert(k, v)
    PROVE  /\ Live
           /\ \E n \in Sizes : \E t, p :
                /\ t = Table(n) /\ p = Find(t[Hash[k] % n], k)
                /\ size' = n /\ refused' = (refused \/ (Crowded /\ n = size))
                /\ \/ p # 0 /\ Replaces(t, n, k, p, v)
                   \/ p = 0 /\ (Makes(t, n, k, v) \/ Crashes(t))
  BY Zenon DEF Insert, Replaces, Makes, Crashes

\* hashmap_insert, its resize and its crash included.
LEMMA InsertStep ==
    ASSUME MapInv, NEW k \in Keys, NEW v \in Values, Insert(k, v)
    PROVE  MapInv' /\ (Map!MapInsert(k, v) \/ Map!MapCrash(k))
<1>1. PICK f \in Maps : f = kvBar /\ IsFiniteSet(Stored(f))
    BY DEF MapInv
<1>2. Live /\ status = "live" /\ Types /\ elements = Cardinality(Stored(f))
    BY <1>1, InsertEnds DEF MapInv, Live
<1>3. PICK n \in Sizes : \E t, p :
         /\ t = Table(n) /\ p = Find(t[Hash[k] % n], k)
         /\ size' = n /\ refused' = (refused \/ (Crowded /\ n = size))
         /\ \/ p # 0 /\ Replaces(t, n, k, p, v)
            \/ p = 0 /\ (Makes(t, n, k, v) \/ Crashes(t))
    BY InsertEnds, Zenon
<1>4. PICK t, p :
         /\ t = Table(n) /\ p = Find(t[Hash[k] % n], k)
         /\ size' = n /\ refused' = (refused \/ (Crowded /\ n = size))
         /\ \/ p # 0 /\ Replaces(t, n, k, p, v)
            \/ p = 0 /\ (Makes(t, n, k, v) \/ Crashes(t))
    BY <1>3, Zenon
<1>5. p = Find(t[Hash[k] % n], k)
    BY <1>4
<1>6. /\ n \in Nat \ {0} /\ Represents(t, n, f) /\ size' = n
      /\ refused' = (refused \/ (Crowded /\ n = size)) /\ refused' \in BOOLEAN
    BY <1>1, <1>2, <1>4, TableRepresents DEF Types
<1>7. /\ elements \in Nat
      /\ refused' \/ 4 * (elements + 1) <= 3 * size'
      /\ refused' \/ 4 * elements <= 3 * size'
    BY <1>2, <1>6, TableRepresents DEF Types
<1> DEFINE g == [f EXCEPT ![k] = v]
<1>8. /\ g \in Maps /\ IsFiniteSet(Stored(g))
      /\ Cardinality(Stored(g)) =
           IF f[k] = ABSENT THEN Cardinality(Stored(f)) + 1 ELSE Cardinality(Stored(f))
    BY <1>1, StoredWith
<1> HIDE DEF g
<1>9. CASE p # 0
  <2>1. /\ data' = [t EXCEPT ![Hash[k] % n][p].value = v] /\ ret' = NULL
        /\ elements' = elements /\ status' = status
    BY <1>4, <1>9 DEF Replaces
  <2>2. f[k] # ABSENT
    BY <1>5, <1>6, <1>9, FindFinds, SMTT(30)
  <2>3. Represents(data', n, g)
    BY <1>5, <1>6, <1>9, <2>1, ValueRepresents DEF g
  <2>4. /\ kvBar' = g /\ kvBar' \in Maps /\ Represents(data', size', kvBar')
        /\ IsFiniteSet(Stored(kvBar'))
    BY <1>6, <1>8, <2>3, NextRepresents
  <2>5. Types' /\ Loaded' /\ elements' = Cardinality(Stored(kvBar'))
    BY <1>2, <1>6, <1>7, <1>8, <2>1, <2>2, <2>4 DEF Types, Loaded
  <2>6. MapInv'
    BY <2>4, <2>5 DEF MapInv
  <2>7. Map!MapInsert(k, v)
    BY <1>1, <2>1, <2>4 DEF Map!MapInsert, g
  <2> QED
    BY <2>6, <2>7
<1>10. CASE p = 0
  <2>1. f[k] = ABSENT
    BY <1>5, <1>6, <1>10, NotFound
  <2>2. CASE Makes(t, n, k, v)
    <3> USE DEF Makes
    <3>1. Node(k, v) \in Nodes /\ Node(k, v).key = k /\ Node(k, v).value = v
      BY DEF Node, Nodes
    <3>2. Represents(data', n, g)
      BY <1>6, <2>1, <2>2, <3>1, ChainedRepresents DEF g
    <3>3. /\ kvBar' = g /\ kvBar' \in Maps /\ Represents(data', size', kvBar')
          /\ IsFiniteSet(Stored(kvBar'))
      BY <1>6, <1>8, <3>2, NextRepresents
    <3>4. Types' /\ Loaded' /\ elements' = Cardinality(Stored(kvBar'))
      BY <1>2, <1>6, <1>7, <1>8, <2>1, <2>2, <3>3 DEF Types, Loaded
    <3>5. MapInv'
      BY <3>3, <3>4 DEF MapInv
    <3>6. Map!MapInsert(k, v)
      BY <1>1, <2>2, <3>3 DEF Map!MapInsert, g
    <3> QED
      BY <3>5, <3>6
  <2>3. CASE Crashes(t)
    <3> USE DEF Crashes
    <3>1. /\ kvBar' = f /\ kvBar' \in Maps /\ Represents(data', size', kvBar')
          /\ IsFiniteSet(Stored(kvBar'))
      BY <1>1, <1>6, <2>3, NextRepresents
    <3>2. Types' /\ ~Live'
      BY <1>2, <1>6, <2>3 DEF Types, Live
    <3>3. MapInv'
      BY <3>1, <3>2 DEF MapInv
    <3>4. Map!MapCrash(k)
      BY <1>1, <2>1, <2>3, <3>1 DEF Map!MapCrash, Map!Present
    <3> QED
      BY <3>3, <3>4
  <2> QED
    BY <1>4, <1>10, <2>2, <2>3
<1> QED
    BY <1>9, <1>10

\* The calls that leave the table: hashmap_get and hashmap_size, and nothing at all.
LEMMA ReadStep ==
    ASSUME MapInv, UNCHANGED <<data, size, elements, status, refused>>,
           ret' \in Values \cup {NULL} \cup Nat
    PROVE  MapInv' /\ kvBar' = kvBar
<1>1. kvBar' = kvBar
    BY DEF kvBar, Bucket
<1> QED
    BY <1>1 DEF MapInv, Types, Loaded, Live

\* What a key is looked up as: its value, if it has one, and NULL.
LEMMA LookedUp ==
    ASSUME MapInv, NEW k \in Keys, NEW p, p = Find(data[Bucket(k)], k)
    PROVE  /\ (IF p = 0 THEN NULL ELSE data[Bucket(k)][p].value) = Map!ValueOf(k)
           /\ p # 0 <=> k \in Map!Present
           /\ Map!ValueOf(k) \in Values \cup {NULL}
<1>1. PICK f \in Maps : f = kvBar
    BY DEF MapInv
<1>2. PICK n \in Nat \ {0} : n = size
    BY DEF MapInv, Types
<1>3. Represents(data, n, f) /\ p = Find(data[Hash[k] % n], k)
    BY <1>1, <1>2 DEF MapInv, Bucket
<1>4. k \in Map!Present <=> f[k] # ABSENT
    BY <1>1 DEF Map!Present
<1>5. p = 0 => f[k] = ABSENT
    BY <1>3, NotFound
<1>6. ASSUME p # 0 PROVE f[k] # ABSENT /\ data[Hash[k] % n][p].value = f[k]
    BY <1>3, <1>6, FindFinds
<1>7. f[k] \in Values \cup {NULL, ABSENT}
    BY DEF Maps
<1> QED
    BY <1>1, <1>2, <1>4, <1>5, <1>6, <1>7 DEF Map!ValueOf, Bucket

\* hashmap_get.
LEMMA GetStep ==
    ASSUME MapInv, NEW k \in Keys, Get(k)
    PROVE  MapInv' /\ Map!MapGet(k)
<1>1. ret' = Map!ValueOf(k) /\ ret' \in Values \cup {NULL}
    BY LookedUp DEF Get
<1>2. MapInv' /\ kvBar' = kvBar
    BY <1>1, ReadStep DEF Get
<1> QED
    BY <1>1, <1>2 DEF Get, Map!MapGet

\* hashmap_size.
LEMMA SizeStep ==
    ASSUME MapInv, Size
    PROVE  MapInv' /\ Map!MapSize
<1>1. elements \in Nat /\ elements = Cardinality(Stored(kvBar)) /\ Stored(kvBar) = Map!Present
    BY DEF Size, MapInv, Types, Stored, Map!Present
<1>2. MapInv' /\ kvBar' = kvBar
    BY <1>1, ReadStep DEF Size
<1>3. ret' = Cardinality(Map!Present) /\ status' = status
    BY <1>1 DEF Size
<1> QED
    BY <1>2, <1>3 DEF Map!MapSize, Map!Cardinality, Cardinality

\* hashmap_remove_value: the key keeps its entry.
LEMMA RemoveValueStep ==
    ASSUME MapInv, NEW k \in Keys, RemoveValue(k)
    PROVE  MapInv' /\ Map!MapRemoveValue(k)
<1>1. PICK f \in Maps : f = kvBar /\ IsFiniteSet(Stored(f))
    BY DEF MapInv
<1>2. PICK n \in Nat \ {0} : n = size
    BY DEF MapInv, Types
<1>3. PICK p : p = Find(data[Hash[k] % n], k)
    OBVIOUS
<1>4. /\ ret' = Map!ValueOf(k) /\ ret' \in Values \cup {NULL}
      /\ p # 0 <=> k \in Map!Present
    BY <1>2, <1>3, LookedUp DEF RemoveValue, Bucket
<1>5. Live /\ Types /\ Loaded /\ elements = Cardinality(Stored(f)) /\ Represents(data, n, f)
    BY <1>1, <1>2 DEF RemoveValue, MapInv
<1>6. size' = n /\ elements' = elements /\ status' = status /\ refused' = refused
    BY <1>2 DEF RemoveValue
<1>7. Types' /\ Loaded'
    BY <1>2, <1>4, <1>5, <1>6 DEF Types, Loaded
<1>8. CASE p = 0
  <2>1. data' = data
    BY <1>2, <1>3, <1>8 DEF RemoveValue, Bucket
  <2>2. UNCHANGED <<data, size, elements, status, refused>> /\ ret' \in Values \cup {NULL}
    BY <1>2, <1>4, <1>6, <2>1
  <2>3. MapInv' /\ kvBar' = kvBar
    BY <2>2, ReadStep
  <2> QED
    BY <1>4, <1>6, <1>8, <2>3 DEF Map!MapRemoveValue
<1>9. CASE p # 0
  <2> DEFINE g == [f EXCEPT ![k] = NULL]
  <2>1. data' = [data EXCEPT ![Hash[k] % n][p].value = NULL]
    BY <1>2, <1>3, <1>9 DEF RemoveValue, Bucket
  <2>2. f[k] # ABSENT
    BY <1>3, <1>5, <1>9, FindFinds, SMTT(30)
  <2>3. Represents(data', n, g)
    BY <1>3, <1>5, <1>9, <2>1, ValueRepresents
  <2>4. g \in Maps /\ IsFiniteSet(Stored(g)) /\ Cardinality(Stored(g)) = Cardinality(Stored(f))
    BY <1>1, <2>2, StoredWith
  <2> HIDE DEF g
  <2>5. /\ kvBar' = g /\ kvBar' \in Maps /\ Represents(data', size', kvBar')
        /\ IsFiniteSet(Stored(kvBar'))
    BY <1>6, <2>3, <2>4, NextRepresents
  <2>6. MapInv'
    BY <1>5, <1>6, <1>7, <2>4, <2>5 DEF MapInv
  <2>7. Map!MapRemoveValue(k)
    BY <1>1, <1>4, <1>6, <1>9, <2>5 DEF Map!MapRemoveValue, g
  <2> QED
    BY <2>6, <2>7
<1> QED
    BY <1>8, <1>9

\* hashmap_remove_entry: the key loses it, and the map one element.
LEMMA RemoveEntryStep ==
    ASSUME MapInv, NEW k \in Keys, RemoveEntry(k)
    PROVE  MapInv' /\ Map!MapRemoveEntry(k)
<1>1. PICK f \in Maps : f = kvBar /\ IsFiniteSet(Stored(f))
    BY DEF MapInv
<1>2. PICK n \in Nat \ {0} : n = size
    BY DEF MapInv, Types
<1>3. PICK p : p = Find(data[Hash[k] % n], k)
    OBVIOUS
<1>4. /\ ret' = Map!ValueOf(k) /\ ret' \in Values \cup {NULL}
      /\ p # 0 <=> k \in Map!Present
    BY <1>2, <1>3, LookedUp DEF RemoveEntry, Bucket
<1>5. Live /\ Types /\ Loaded /\ elements = Cardinality(Stored(f)) /\ Represents(data, n, f)
    BY <1>1, <1>2 DEF RemoveEntry, MapInv
<1>6. size' = n /\ status' = status /\ refused' = refused
    BY <1>2 DEF RemoveEntry
<1> DEFINE g == [f EXCEPT ![k] = ABSENT]
<1>7. CASE p = 0
  <2>1. data' = data /\ elements' = elements
    BY <1>2, <1>3, <1>7 DEF RemoveEntry, Bucket
  <2>2. MapInv' /\ kvBar' = kvBar
    BY <1>4, <1>6, <2>1, ReadStep DEF RemoveEntry
  <2>3. f[k] = ABSENT
    BY <1>1, <1>4, <1>7 DEF Map!Present
  <2>4. g = f
    BY <2>3 DEF Maps
  <2> QED
    BY <1>1, <1>4, <1>6, <2>2, <2>4 DEF Map!MapRemoveEntry
<1>8. CASE p # 0
  <2>1. /\ data' = [data EXCEPT ![Hash[k] % n] = RemoveAt(data[Hash[k] % n], p)]
        /\ elements' = elements - 1
    BY <1>2, <1>3, <1>8 DEF RemoveEntry, Bucket
  <2>2. f[k] # ABSENT
    BY <1>3, <1>5, <1>8, FindFinds
  <2>3. Represents(data', n, g)
    BY <1>3, <1>5, <1>8, <2>1, RemovedRepresents
  <2>4. /\ g \in Maps /\ IsFiniteSet(Stored(g))
        /\ Cardinality(Stored(g)) = Cardinality(Stored(f)) - 1
    BY <1>1, <2>2, StoredWithout
  <2> HIDE DEF g
  <2>5. /\ kvBar' = g /\ kvBar' \in Maps /\ Represents(data', size', kvBar')
        /\ IsFiniteSet(Stored(kvBar'))
    BY <1>6, <2>3, <2>4, NextRepresents
  <2>6. elements' = Cardinality(Stored(kvBar')) /\ elements' \in Nat
    BY <1>5, <2>1, <2>4, <2>5, FS_CardinalityType
  <2>7. Types' /\ Loaded'
    BY <1>2, <1>4, <1>5, <1>6, <2>1, <2>6 DEF Types, Loaded
  <2>8. MapInv'
    BY <2>5, <2>6, <2>7 DEF MapInv
  <2>9. Map!MapRemoveEntry(k)
    BY <1>1, <1>4, <1>6, <2>5 DEF Map!MapRemoveEntry, g
  <2> QED
    BY <2>8, <2>9
<1> QED
    BY <1>7, <1>8

\* hashmap_destroy.
LEMMA DestroyStep ==
    ASSUME MapInv, Destroy
    PROVE  MapInv' /\ Map!MapDestroy
<1> DEFINE g == [k \in Keys |-> ABSENT]
<1>1. g \in Maps /\ Stored(g) = {} /\ \A k \in Keys : g[k] = ABSENT
    BY DEF Maps, Stored
<1>2. PICK n \in Nat \ {0} : n = size /\ n = size'
    BY DEF MapInv, Types, Destroy
<1> HIDE DEF g
<1>3. Represents(data', n, g)
    BY <1>1, <1>2, EmptyRepresents DEF Destroy
<1>4. IsFiniteSet(Stored(g))
    BY <1>1, FS_EmptySet
<1>5. /\ kvBar' = g /\ kvBar' \in Maps /\ Represents(data', size', kvBar')
      /\ IsFiniteSet(Stored(kvBar'))
    BY <1>1, <1>2, <1>3, <1>4, NextRepresents
<1>6. Types' /\ ~Live'
    BY DEF Destroy, MapInv, Types, Live
<1> QED
    BY <1>5, <1>6 DEF MapInv, Destroy, Map!MapDestroy, g

\* Every call keeps the invariant, and is the abstract map's.
LEMMA NextMap == MapInv /\ [Next]_vars => MapInv' /\ [Map!MapNext]_(Map!mapVars)
<1> SUFFICES ASSUME MapInv, [Next]_vars PROVE MapInv' /\ [Map!MapNext]_(Map!mapVars)
    OBVIOUS
<1>1. ASSUME NEW k \in Keys, NEW v \in Values, Insert(k, v)
      PROVE  MapInv' /\ Map!MapNext
  <2>1. status = "live"
    BY <1>1 DEF Insert, Live
  <2> QED
    BY <1>1, <2>1, InsertStep DEF Map!MapNext
<1>2. ASSUME NEW k \in Keys, Get(k) \/ RemoveValue(k) \/ RemoveEntry(k)
      PROVE  MapInv' /\ Map!MapNext
  <2>1. status = "live"
    BY <1>2 DEF Get, RemoveValue, RemoveEntry, Live
  <2> QED
    BY <1>2, <2>1, GetStep, RemoveValueStep, RemoveEntryStep DEF Map!MapNext
<1>3. CASE Size \/ Destroy
  <2>1. status = "live"
    BY <1>3 DEF Size, Destroy, Live
  <2> QED
    BY <1>3, <2>1, SizeStep, DestroyStep DEF Map!MapNext
<1>4. CASE UNCHANGED vars
  <2>1. MapInv' /\ kvBar' = kvBar
    BY <1>4, ReadStep DEF vars, MapInv, Types
  <2> QED
    BY <1>4, <2>1 DEF vars, Map!mapVars
<1> QED
    BY <1>1, <1>2, <1>3, <1>4 DEF Next, Ended

\* The invariant in the words of the run's: a node is in the bucket of its key, no key has
\* two, the count is right and the load factor below its limit.
LEMMA MapWellPlaced == MapInv => WellPlaced
<1> SUFFICES ASSUME MapInv PROVE WellPlaced
    OBVIOUS
<1>1. PICK f \in Maps : f = kvBar /\ IsFiniteSet(Stored(f))
    BY DEF MapInv
<1>2. PICK n \in Nat \ {0} : n = size
    BY DEF MapInv, Types
<1>3. Represents(data, n, f)
    BY <1>1, <1>2 DEF MapInv
<1>4. AllNodes \subseteq Nodes /\ Cardinality(AllNodes) = Cardinality(Stored(f))
    BY <1>1, <1>3, NodesAreEntries DEF AllNodes, Chains, Stored
<1>5. DOMAIN data = 0 .. size - 1 /\ \A b \in DOMAIN data : data[b] \in Seq(Nodes)
    BY <1>2, <1>3 DEF Represents
<1>6. TypeOK
    BY <1>4, <1>5 DEF TypeOK, MapInv, Types, Nodes
<1>7. ASSUME NEW b \in DOMAIN data, NEW p \in DOMAIN data[b]
      PROVE  /\ Hash[data[b][p].key] % size = b
             /\ \A q \in DOMAIN data[b] : data[b][p].key = data[b][q].key => p = q
  <2>1. b \in 0 .. n - 1 /\ DOMAIN data[b] = 1 .. Len(data[b])
    BY <1>2, <1>5
  <2> QED
    BY <1>2, <1>3, <1>7, <2>1 DEF Represents
<1>8. Live => elements = Cardinality(AllNodes) /\ (refused \/ 4 * elements <= 3 * size)
    BY <1>1, <1>4 DEF MapInv, Loaded
<1> QED
    BY <1>6, <1>7, <1>8 DEF WellPlaced

\* hash.c's table is well placed after every call, for every set of keys and values, every
\* hash function and first size, and every resize that calloc grants or refuses.
THEOREM TableWellPlaced == Spec => []WellPlaced
  BY InitMap, NextMap, MapWellPlaced, PTL DEF Spec

\* hash.c implements the map of hash.h: every call does to the map its table stands for,
\* and returns, what KeyMap.tla promises of it, however the table has grown.
THEOREM TableIsAMap == Spec => ImplementsMap
<1>1. Init => Map!MapInit /\ MapInv
    BY InitMap
<1>2. MapInv /\ [Next]_vars => MapInv' /\ [Map!MapNext]_(Map!mapVars)
    BY NextMap
<1> QED
    BY <1>1, <1>2, PTL DEF Spec, ImplementsMap, Map!MapSpec

----------------------------------------------------------------------------
\* The array starts unmade.
LEMMA InitNeverFull == Array!DynArrayAssumption /\ Array!Init => NeverFull
<1> SUFFICES ASSUME Array!DynArrayAssumption, Array!Init PROVE NeverFull
    OBVIOUS
<1>1. capacity \in Nat /\ count \in Nat /\ DOMAIN cells = 0..(capacity - 1)
    BY DEF Array!Init, Array!DynArrayAssumption
<1> QED
    BY <1>1 DEF Array!Init, NeverFull, Array!NeverFull, Array!TypeOK

\* dyn_array_add keeps one cell free: it grows the array when the new element is the last
\* that fits (line 42), and then leaves half of the cells.
LEMMA AddKeepsACell ==
    ASSUME NeverFull, NEW v \in Numbers, Array!Add(v) \/ Array!AddGrowing(v)
    PROVE  NeverFull'
<1> USE DEF NeverFull, Array!NeverFull, Array!TypeOK
<1>1. CASE Array!Add(v)
  <2>1. count' < capacity' /\ count' \in Nat /\ capacity' = capacity
    BY <1>1 DEF Array!Add, Array!BecomesFull
  <2>2. DOMAIN cells' = DOMAIN cells
    BY <1>1 DEF Array!Add
  <2> QED
    BY <1>1, <2>1, <2>2 DEF Array!Add
<1>2. CASE Array!AddGrowing(v)
  <2>1. count' = capacity /\ capacity' = 2 * capacity /\ capacity > 0
    BY <1>2 DEF Array!AddGrowing, Array!BecomesFull
  <2>2. count' < capacity' /\ count' \in Nat /\ capacity' \in Nat
    BY <2>1
  <2>3. DOMAIN cells' = 0..(capacity' - 1)
    BY <1>2, <2>1, <2>2 DEF Array!AddGrowing, Array!Resized
  <2> QED
    BY <1>2, <2>2, <2>3 DEF Array!AddGrowing
<1> QED
    BY <1>1, <1>2

\* Every call keeps NeverFull.
LEMMA NextNeverFull ==
    NeverFull /\ Array!DynArrayAssumption /\ [Array!Next]_(Array!vars) => NeverFull'
<1> SUFFICES ASSUME NeverFull, Array!DynArrayAssumption, [Array!Next]_(Array!vars)
             PROVE  NeverFull'
    OBVIOUS
<1>1. ASSUME NEW v \in Numbers, Array!Make(v) PROVE NeverFull'
  <2>1. capacity' \in Nat /\ count' \in Nat /\ count' < capacity'
    BY <1>1 DEF Array!Make, Array!DynArrayAssumption
  <2>2. DOMAIN cells' = 0..(capacity' - 1)
    BY <1>1 DEF Array!Make
  <2> QED
    BY <1>1, <2>1, <2>2 DEF Array!Make, NeverFull, Array!NeverFull, Array!TypeOK
<1>2. ASSUME NEW v \in Numbers, Array!Add(v) \/ Array!AddGrowing(v) PROVE NeverFull'
    BY <1>2, AddKeepsACell
<1> USE DEF NeverFull, Array!NeverFull, Array!TypeOK
<1>3. ASSUME NEW i \in -1..MaxCapacity, Array!DeleteAt(i) PROVE NeverFull'
  <2>1. count' \in Nat /\ count' < capacity' /\ capacity' = capacity
    BY <1>3 DEF Array!DeleteAt
  <2>2. DOMAIN cells' = 0..(capacity' - 1)
    BY <1>3, <2>1 DEF Array!DeleteAt, Array!Shifted
  <2> QED
    BY <1>3, <2>1, <2>2 DEF Array!DeleteAt
<1>4. ASSUME NEW i \in -1..MaxCapacity, Array!Get(i) PROVE NeverFull'
    BY <1>4 DEF Array!Get
<1>5. CASE Array!MakeRefused \/ Array!DeleteFromEmpty \/ Array!UseLost
    BY <1>5 DEF Array!MakeRefused, Array!DeleteFromEmpty, Array!UseLost
<1>6. CASE Array!AddRefused \/ Array!Free
    BY <1>6 DEF Array!AddRefused, Array!Free
<1>7. CASE UNCHANGED Array!vars
    BY <1>7 DEF Array!vars
<1> QED
    BY <1>1, <1>2, <1>3, <1>4, <1>5, <1>6, <1>7 DEF Array!Next

\* In every state of every run a made array has a cell to spare, and its pointer is into
\* the block it is in: dyn_array_add never writes outside the block.
THEOREM NeverFullAlways == Array!Spec => []NeverFull
  BY MCArrayAssumption, InitNeverFull, NextNeverFull, PTL DEF Array!Spec

\* Whichever container is used, the table is well placed and a map, and the array has a
\* cell to spare: what is proved of each alone holds of the run that checks them together.
THEOREM ContainersSafe == ContainersSpec => [](WellPlaced /\ NeverFull) /\ ImplementsMap
<1>1. ContainersInit => Init /\ Array!Init
    BY DEF ContainersInit
<1>2. ContainersNext => [Next]_vars /\ [Array!Next]_(Array!vars)
    BY DEF ContainersNext, OnMap, OnArray, OnHeap, OnPeople, array, Array!vars
<1>3. UNCHANGED <<used, vars, array, heap, db>> => UNCHANGED vars /\ UNCHANGED Array!vars
    BY DEF array, Array!vars
<1>4. ContainersSpec => Spec /\ Array!Spec
    BY <1>1, <1>2, <1>3, PTL DEF ContainersSpec, Spec, Array!Spec
<1> QED
    BY <1>4, TableWellPlaced, TableIsAMap, NeverFullAlways, PTL

----------------------------------------------------------------------------
(***************************************************************************)
(* The lists of nodes.                                                     *)
(***************************************************************************)

\* What is at place i of a list of nodes, and NULL behind its end.
At(s, i) == IF i \in 1 .. Len(s) THEN s[i] ELSE NULL

\* The nodes of s are different, and each points to the one behind it.
Threaded(s, nx) ==
    /\ s \in Seq(Memory)
    /\ \A i, j \in 1 .. Len(s) : s[i] = s[j] => i = j
    /\ \A i \in 1 .. Len(s) : nx[s[i]] = At(s, i + 1)

\* What Along computes, from the walks of no node to those of up to m nodes.
Walks(nx, W, m) ==
    W = [k \in 0 .. m |->
          [x \in Memory \cup {NULL} |->
              IF x = NULL \/ k = 0 THEN <<>> ELSE <<x>> \o W[k - 1][nx[x]]]]

\* For every number of nodes the recursion defines them.
LEMMA WalksExist ==
    ASSUME NEW nx, NEW m \in Nat
    PROVE  \E W : Walks(nx, W, m)
<1> DEFINE I == {k \in Nat : ~ \E W : Walks(nx, W, k)}
<1>1. ASSUME I # {} PROVE FALSE
  <2>1. PICK k \in I : \A j \in I : k <= j
    <3>1. I \subseteq Nat
      OBVIOUS
    <3> HIDE DEF I
    <3> QED
      BY <1>1, <3>1, MinIsFirst
  <2>2. CASE k = 0
    <3> DEFINE W == [j \in 0 .. 0 |-> [x \in Memory \cup {NULL} |-> <<>>]]
    <3>1. Walks(nx, W, 0)
      BY DEF Walks
    <3> QED
      BY <2>1, <2>2, <3>1
  <2>3. CASE k # 0
    <3>1. k - 1 \in Nat /\ k \in Nat /\ k - 1 \notin I
      BY <2>1, <2>3
    <3>2. PICK G : Walks(nx, G, k - 1)
      BY <3>1
    <3> DEFINE new == [x \in Memory \cup {NULL} |->
                          IF x = NULL THEN <<>> ELSE <<x>> \o G[k - 1][nx[x]]]
               W == [j \in 0 .. k |-> IF j = k THEN new ELSE G[j]]
    <3>3. ASSUME NEW j \in 0 .. k
          PROVE  W[j] = [x \in Memory \cup {NULL} |->
                            IF x = NULL \/ j = 0 THEN <<>> ELSE <<x>> \o W[j - 1][nx[x]]]
      <4>1. CASE j = k
        <5>1. W[j] = new /\ W[k - 1] = G[k - 1]
          BY <3>1, <4>1
        <5> HIDE DEF W
        <5> QED
          BY <2>3, <4>1, <5>1
      <4>2. CASE j # k
        <5>1. j \in 0 .. (k - 1) /\ W[j] = G[j]
          BY <3>1, <4>2
        <5>2. j # 0 => W[j - 1] = G[j - 1]
          BY <3>1, <5>1
        <5>3. G[j] = [x \in Memory \cup {NULL} |->
                         IF x = NULL \/ j = 0 THEN <<>> ELSE <<x>> \o G[j - 1][nx[x]]]
          BY <3>2, <5>1 DEF Walks
        <5> HIDE DEF W
        <5> QED
          BY <5>1, <5>2, <5>3, Zenon
      <4> QED
        BY <4>1, <4>2
    <3>4. Walks(nx, W, k)
      BY <3>3 DEF Walks
    <3> QED
      BY <2>1, <3>4
  <2> QED
    BY <2>2, <2>3
<1> QED
  BY <1>1

\* The memory is finite, and NULL is not in it.
LEMMA MemoryFinite == IsFiniteSet(Memory) /\ NULL \notin Memory
BY MCPointersAssumption DEF Linked!PointersAssumption, Linked!IsFiniteSet, IsFiniteSet

\* Both kinds of lists count the nodes as everyone does.
LEMMA MemoryCounted ==
    /\ Linked!Cardinality(Memory) = Cardinality(Memory)
    /\ Ring!Cardinality(Memory) = Cardinality(Memory)
BY DEF Linked!Cardinality, Ring!Cardinality, Cardinality

\* Both walk alike.
LEMMA SameWalk ==
    ASSUME NEW nx, NEW n
    PROVE  Ring!Along(nx, n) = Linked!Along(nx, n)
BY DEF Ring!Along, Linked!Along, Ring!Cardinality, Linked!Cardinality

\* A list of different nodes is no longer than the memory.
LEMMA ListFits ==
    ASSUME NEW s \in Seq(Memory), \A i, j \in 1 .. Len(s) : s[i] = s[j] => i = j
    PROVE  Len(s) <= Cardinality(Memory) /\ Cardinality(Memory) \in Nat
<1>1. IsFiniteSet(Memory)
    BY MemoryFinite
<1>2. s \in Injection(1 .. Len(s), Memory)
    BY DEF Injection, IsInjective
<1>3. Cardinality(1 .. Len(s)) <= Cardinality(Memory)
    BY <1>1, <1>2, FS_Injection
<1>4. Cardinality(1 .. Len(s)) = Len(s)
    BY FS_Interval
<1> QED
    BY <1>1, <1>3, <1>4, FS_CardinalityType

\* A list from place j on is what is there and the list from the next place on.
LEMMA RestOf ==
    ASSUME NEW S, NEW s \in Seq(S), NEW j \in 1 .. Len(s)
    PROVE  <<s[j]>> \o SubSeq(s, j + 1, Len(s)) = SubSeq(s, j, Len(s))
<1>1. Len(s) \in Nat /\ s[j] \in S
    BY LenProperties, ElementOfSeq
<1> DEFINE a == SubSeq(s, j + 1, Len(s))
           b == SubSeq(s, j, Len(s))
           c == <<s[j]>> \o a
<1>2. Len(a) = Len(s) - j /\ \A i \in 1 .. (Len(s) - j) : a[i] = s[j + i]
    BY <1>1
<1>3. Len(b) = Len(s) + 1 - j /\ \A i \in 1 .. (Len(s) + 1 - j) : b[i] = s[j + i - 1]
    BY <1>1
<1>4. a \in Seq(S) /\ b \in Seq(S) /\ <<s[j]>> \in Seq(S)
    BY <1>1
<1> HIDE DEF a, b
<1>5. c \in Seq(S) /\ Len(c) = 1 + Len(a)
    BY <1>4
<1>6. ASSUME NEW i \in 1 .. Len(b) PROVE c[i] = b[i]
  <2>1. CASE i = 1
    <3>1. c[1] = s[j]
      BY <1>1, <1>4
    <3>2. b[1] = s[j]
      BY <1>1, <1>3
    <3> QED
      BY <2>1, <3>1, <3>2
  <2>2. CASE i # 1
    <3>1. c[i] = a[i - 1]
      <4>1. i \in 1 .. (1 + Len(a)) /\ i > 1
        BY <1>1, <1>2, <1>3, <1>6, <2>2
      <4> QED
        BY <1>1, <1>4, <4>1, ConcatProperties
    <3> QED
      <4>1. i - 1 \in 1 .. (Len(s) - j) /\ j + (i - 1) = j + i - 1
        BY <1>1, <1>3, <1>6, <2>2
      <4>2. a[i - 1] = s[j + (i - 1)]
        BY <1>2, <4>1
      <4>3. b[i] = s[j + i - 1]
        BY <1>1, <1>3, <1>6
      <4> QED
        BY <3>1, <4>1, <4>2, <4>3
  <2> QED
    BY <2>1, <2>2
<1>7. c = b
  <2>1. Len(c) = Len(b)
    BY <1>1, <1>2, <1>3, <1>5
  <2> HIDE DEF c
  <2> QED
    BY <1>4, <1>5, <1>6, <2>1, SeqEqual
<1> QED
    BY <1>7 DEF a, b

\* Along finds the rest of a list from any of its places on.
LEMMA AlongIs ==
    ASSUME NEW nx, NEW s, Threaded(s, nx), NEW p \in 1 .. (Len(s) + 1)
    PROVE  Linked!Along(nx, At(s, p)) = SubSeq(s, p, Len(s))
<1> DEFINE N == Cardinality(Memory)
<1>1. s \in Seq(Memory) /\ Len(s) \in Nat /\ Len(s) <= N /\ N \in Nat
  <2>1. s \in Seq(Memory) /\ \A i, j \in 1 .. Len(s) : s[i] = s[j] => i = j
    BY DEF Threaded
  <2>2. Len(s) <= N /\ N \in Nat
    BY <2>1, ListFits
  <2> QED
    BY <2>1, <2>2, LenProperties
<1>2. NULL \notin Memory
    BY MemoryFinite
<1> HIDE DEF N
<1>3. PICK W : Walks(nx, W, N) /\ Linked!Along(nx, At(s, p)) = W[N][At(s, p)]
  <2>1. \E W : Walks(nx, W, N)
    BY <1>1, WalksExist
  <2>2. Linked!Along(nx, At(s, p)) =
          (CHOOSE W : Walks(nx, W, Linked!Cardinality(Memory)))[Linked!Cardinality(Memory)][At(s, p)]
    BY Zenon DEF Linked!Along, Walks
  <2>3. Linked!Along(nx, At(s, p)) = (CHOOSE W : Walks(nx, W, N))[N][At(s, p)]
    BY <2>2, MemoryCounted, Zenon DEF N
  <2> QED
    BY <2>1, <2>3, Zenon
<1>4. ASSUME NEW k \in 0 .. N, NEW x \in Memory \cup {NULL}
      PROVE  W[k][x] = IF x = NULL \/ k = 0 THEN <<>> ELSE <<x>> \o W[k - 1][nx[x]]
  <2>1. W[k] = [y \in Memory \cup {NULL} |->
                   IF y = NULL \/ k = 0 THEN <<>> ELSE <<y>> \o W[k - 1][nx[y]]]
    BY <1>3, Zenon DEF Walks
  <2> QED
    BY <2>1, Zenon
<1> DEFINE Right(k) == \A j \in 1 .. (Len(s) + 1) :
                          Len(s) + 1 - j <= k => W[k][At(s, j)] = SubSeq(s, j, Len(s))
           I == {k \in 0 .. N : ~Right(k)}
<1>5. ASSUME I # {} PROVE FALSE
  <2>1. PICK k \in I : \A j \in I : k <= j
    <3>1. I \subseteq Nat
      BY <1>1
    <3> HIDE DEF I
    <3> QED
      BY <1>5, <3>1, MinIsFirst
  <2>2. ASSUME NEW j \in 1 .. (Len(s) + 1), Len(s) + 1 - j <= k
        PROVE  W[k][At(s, j)] = SubSeq(s, j, Len(s))
    <3>1. CASE j = Len(s) + 1
      <4>1. At(s, j) = NULL
        BY <1>1, <3>1 DEF At
      <4>2. SubSeq(s, j, Len(s)) = <<>>
        BY <1>1, <3>1
      <4> QED
        BY <1>4, <2>1, <4>1, <4>2
    <3>2. CASE j # Len(s) + 1
      <4>1. j \in 1 .. Len(s) /\ j + 1 \in 1 .. (Len(s) + 1)
        BY <1>1, <3>2
      <4>2. At(s, j) = s[j] /\ s[j] \in Memory /\ s[j] # NULL
        BY <1>1, <1>2, <4>1 DEF At
      <4>3. k # 0 /\ k - 1 \in 0 .. N /\ Len(s) + 1 - (j + 1) <= k - 1
        BY <1>1, <2>1, <2>2, <4>1
      <4>4. Right(k - 1)
        BY <2>1, <4>3
      <4>5. W[k - 1][At(s, j + 1)] = SubSeq(s, j + 1, Len(s))
        BY <4>1, <4>3, <4>4
      <4>6. nx[s[j]] = At(s, j + 1)
        BY <4>1 DEF Threaded
      <4>7. W[k][At(s, j)] = <<s[j]>> \o SubSeq(s, j + 1, Len(s))
        <5>1. k \in 0 .. N /\ s[j] \in Memory \cup {NULL} /\ k # 0 /\ s[j] # NULL
          BY <2>1, <4>2, <4>3
        <5>2. W[k][s[j]] = <<s[j]>> \o W[k - 1][nx[s[j]]]
          BY <1>4, <5>1, Zenon
        <5> QED
          BY <4>2, <4>5, <4>6, <5>2, Zenon
      <4>8. <<s[j]>> \o SubSeq(s, j + 1, Len(s)) = SubSeq(s, j, Len(s))
        BY <1>1, <4>1, RestOf
      <4> QED
        BY <4>7, <4>8
    <3> QED
      BY <3>1, <3>2
  <2>3. Right(k)
    BY <2>2
  <2> QED
    BY <2>1, <2>3
<1>6. Right(N)
  <2>1. N \in 0 .. N /\ I = {}
    BY <1>1, <1>5
  <2> QED
    BY <2>1
<1>7. Len(s) + 1 - p <= N
    BY <1>1
<1> QED
    BY <1>3, <1>6, <1>7

----------------------------------------------------------------------------
\* The nodes of the lists c.
Held(c) == {n \in Memory : \E l \in Lists : \E i \in 1 .. Len(c[l]) : c[l][i] = n}

\* No node is in the lists twice.
Disjoint(c) ==
    \A l, m \in Lists : \A i \in 1 .. Len(c[l]) : \A j \in 1 .. Len(c[m]) :
        c[l][i] = c[m][j] => l = m /\ i = j

(***************************************************************************)
(* The lists c are what the client's pointers hd and the nodes allocated   *)
(* lv say: every list begins at its pointer, no node is in two places, and *)
(* every node allocated is in one.                                         *)
(***************************************************************************)
Laid(c, hd, lv) ==
    /\ c \in [Lists -> Seq(Memory)]
    /\ Disjoint(c)
    /\ hd = [l \in Lists |-> At(c[l], 1)]
    /\ lv = Held(c)

\* The nodes of a sequence are different.
Different(s) == \A i, j \in 1 .. Len(s) : s[i] = s[j] => i = j

\* What a layout says of one of its lists.
LEMMA LaidList ==
    ASSUME NEW c, NEW hd, NEW lv, Laid(c, hd, lv), NEW l \in Lists
    PROVE  /\ c[l] \in Seq(Memory) /\ Len(c[l]) \in Nat
           /\ Different(c[l])
           /\ hd[l] = At(c[l], 1)
           /\ \A i \in 1 .. Len(c[l]) : c[l][i] \in Memory /\ c[l][i] \in lv
<1>1. c[l] \in Seq(Memory)
    BY DEF Laid
<1>2. Len(c[l]) \in Nat /\ \A i \in 1 .. Len(c[l]) : c[l][i] \in Memory
    BY <1>1, LenProperties, ElementOfSeq
<1>3. Different(c[l])
    BY DEF Laid, Disjoint, Different
<1>4. hd[l] = At(c[l], 1)
    BY DEF Laid
<1>5. ASSUME NEW i \in 1 .. Len(c[l]) PROVE c[l][i] \in lv
    BY <1>2 DEF Laid, Held
<1> QED
    BY <1>1, <1>2, <1>3, <1>4, <1>5

\* The nodes of a sequence are in none of the lists of c but l.
Apart(c, l, s) ==
    \A m \in Lists \ {l} : \A i \in 1 .. Len(c[m]) : \A j \in 1 .. Len(s) : c[m][i] # s[j]

\* A list that becomes another one.
LEMMA LaidNew ==
    ASSUME NEW c, NEW hd, NEW lv, Laid(c, hd, lv), NEW l \in Lists,
           NEW s \in Seq(Memory), Different(s), Apart(c, l, s),
           NEW d, d = [c EXCEPT ![l] = s]
    PROVE  Laid(d, [hd EXCEPT ![l] = At(s, 1)], Held(d))
<1>1. d \in [Lists -> Seq(Memory)]
    BY DEF Laid
<1>2. d[l] = s /\ \A m \in Lists : m # l => d[m] = c[m]
    BY DEF Laid
<1>3. Disjoint(d)
  <2> SUFFICES ASSUME NEW m1 \in Lists, NEW m2 \in Lists,
                      NEW i \in 1 .. Len(d[m1]), NEW j \in 1 .. Len(d[m2]), d[m1][i] = d[m2][j]
               PROVE  m1 = m2 /\ i = j
    BY DEF Disjoint
  <2>1. CASE m1 = l /\ m2 = l
    BY <1>2, <2>1 DEF Different
  <2>2. CASE m1 = l /\ m2 # l
    BY <1>2, <2>2 DEF Apart
  <2>3. CASE m1 # l /\ m2 = l
    BY <1>2, <2>3 DEF Apart
  <2>4. CASE m1 # l /\ m2 # l
    BY <1>2, <2>4 DEF Laid, Disjoint
  <2> QED
    BY <2>1, <2>2, <2>3, <2>4
<1>4. [hd EXCEPT ![l] = At(s, 1)] = [m \in Lists |-> At(d[m], 1)]
    BY <1>2 DEF Laid
<1> QED
    BY <1>1, <1>3, <1>4 DEF Laid

\* A node that is not allocated comes to the end of a list.
LEMMA LaidWith ==
    ASSUME NEW c, NEW hd, NEW lv, Laid(c, hd, lv), NEW l \in Lists,
           NEW n \in Memory, n \notin lv,
           NEW d, d = [c EXCEPT ![l] = Append(c[l], n)]
    PROVE  Laid(d, [hd EXCEPT ![l] = IF c[l] = <<>> THEN n ELSE hd[l]], lv \cup {n})
<1>1. /\ c[l] \in Seq(Memory) /\ Len(c[l]) \in Nat /\ Different(c[l]) /\ hd[l] = At(c[l], 1)
      /\ \A i \in 1 .. Len(c[l]) : c[l][i] \in Memory /\ c[l][i] \in lv
    BY LaidList
<1> DEFINE s == Append(c[l], n)
           L == Len(c[l])
<1>2. /\ s \in Seq(Memory) /\ Len(s) = L + 1 /\ s[L + 1] = n
      /\ \A i \in 1 .. L : s[i] = c[l][i]
    BY <1>1, AppendProperties
<1>3. d = [c EXCEPT ![l] = s]
    OBVIOUS
<1> HIDE DEF s
<1>4. Different(s)
  <2> SUFFICES ASSUME NEW i \in 1 .. (L + 1), NEW j \in 1 .. (L + 1), s[i] = s[j] PROVE i = j
    BY <1>2 DEF Different
  <2>1. CASE i \in 1 .. L /\ j \in 1 .. L
    BY <1>1, <1>2, <2>1 DEF Different
  <2>2. CASE i = L + 1 /\ j \in 1 .. L
    BY <1>1, <1>2, <2>2
  <2>3. CASE i \in 1 .. L /\ j = L + 1
    BY <1>1, <1>2, <2>3
  <2>4. (i \in 1 .. L \/ i = L + 1) /\ (j \in 1 .. L \/ j = L + 1)
    BY <1>1
  <2> QED
    BY <2>1, <2>2, <2>3, <2>4
<1>5. Apart(c, l, s)
  <2> SUFFICES ASSUME NEW m \in Lists \ {l}, NEW i \in 1 .. Len(c[m]),
                      NEW j \in 1 .. (L + 1), c[m][i] = s[j]
               PROVE  FALSE
    BY <1>2 DEF Apart
  <2>1. CASE j \in 1 .. L
    BY <1>2, <2>1 DEF Laid, Disjoint
  <2>2. CASE j = L + 1
    BY <1>2, <2>2, LaidList
  <2> QED
    BY <1>1, <2>1, <2>2
<1>6. Laid(d, [hd EXCEPT ![l] = At(s, 1)], Held(d))
    BY <1>2, <1>3, <1>4, <1>5, LaidNew
<1>7. At(s, 1) = IF c[l] = <<>> THEN n ELSE hd[l]
  <2>1. CASE c[l] = <<>>
    BY <1>2, <2>1 DEF At
  <2>2. CASE c[l] # <<>>
    <3>1. L > 0
      BY <1>1, <2>2, EmptySeq
    <3> QED
      BY <1>1, <1>2, <2>2, <3>1 DEF At
  <2> QED
    BY <2>1, <2>2
<1>8. d[l] = s /\ \A m \in Lists : m # l => d[m] = c[m]
    BY <1>3 DEF Laid
<1>9. Held(d) = lv \cup {n}
  <2>1. ASSUME NEW x \in Held(d) PROVE x \in lv \cup {n}
    <3>1. PICK m \in Lists : \E i \in 1 .. Len(d[m]) : d[m][i] = x
      BY <2>1 DEF Held
    <3>2. PICK i \in 1 .. Len(d[m]) : d[m][i] = x
      BY <3>1
    <3>3. CASE m = l
      BY <1>1, <1>2, <1>8, <3>2, <3>3
    <3>4. CASE m # l
      BY <1>8, <3>2, <3>4, LaidList
    <3> QED
      BY <3>3, <3>4
  <2>2. ASSUME NEW x \in lv PROVE x \in Held(d)
    <3>1. PICK m \in Lists : x \in Memory /\ \E i \in 1 .. Len(c[m]) : c[m][i] = x
      BY <2>2 DEF Laid, Held
    <3>2. \E i \in 1 .. Len(d[m]) : d[m][i] = x
      <4>1. CASE m = l
        BY <1>1, <1>2, <1>8, <3>1, <4>1
      <4>2. CASE m # l
        BY <1>8, <3>1, <4>2
      <4> QED
        BY <4>1, <4>2
    <3> QED
      BY <3>1, <3>2 DEF Held
  <2>3. n \in Held(d)
    <3>1. L + 1 \in 1 .. Len(d[l]) /\ d[l][L + 1] = n
      BY <1>1, <1>2, <1>8
    <3> QED
      BY <3>1 DEF Held
  <2> QED
    BY <2>1, <2>2, <2>3
<1> QED
    BY <1>6, <1>7, <1>9

\* What is left of a sequence without one of its places.
LEMMA RemoveAtIn ==
    ASSUME NEW S, NEW s \in Seq(S), NEW p \in 1 .. Len(s)
    PROVE  RemoveAt(s, p) \in Seq(S)
<1>1. Len(s) \in Nat
    BY LenProperties
<1>2. SubSeq(s, 1, p - 1) \in Seq(S)
    BY <1>1, SubSeqProperties
<1>3. SubSeq(s, p + 1, Len(s)) \in Seq(S)
    BY <1>1, SubSeqProperties
<1> QED
    BY <1>2, <1>3, ConcatProperties DEF RemoveAt

\* The first place of an item in a sequence is where it is found and taken out.
LEMMA FirstPlace ==
    ASSUME NEW S, NEW s \in Seq(S), NEW x, NEW p \in 1 .. Len(s), s[p] = x,
           \A i \in 1 .. (p - 1) : s[i] # x
    PROVE  /\ {i \in 1 .. Len(s) : s[i] = x} # {}
           /\ Min({i \in 1 .. Len(s) : s[i] = x}) = p
           /\ Contents!RemoveFirst(s, x) = RemoveAt(s, p)
<1> DEFINE I == {i \in 1 .. Len(s) : s[i] = x}
<1>1. p \in I /\ I \subseteq Nat /\ I # {} /\ \A i \in I : p <= i
    OBVIOUS
<1>2. Contents!SelectInSeq(s, LAMBDA y : y = x) = IF I # {} THEN Min(I) ELSE 0
    BY DEF Contents!SelectInSeq, Contents!Min, Min
<1>3. Contents!RemoveFirst(s, x) =
        Contents!RemoveAt(s, Contents!SelectInSeq(s, LAMBDA y : y = x))
    BY <1>1 DEF Contents!RemoveFirst
<1> HIDE DEF I
<1>4. Min(I) = p
  <2>1. Min(I) \in I /\ \A k \in I : Min(I) <= k
    BY <1>1, MinIsFirst
  <2>2. Min(I) \in Nat /\ p \in Nat /\ p <= Min(I) /\ Min(I) <= p
    BY <1>1, <2>1
  <2> QED
    BY <2>2
<1>5. Contents!RemoveFirst(s, x) = RemoveAt(s, p)
    BY <1>1, <1>2, <1>3, <1>4 DEF Contents!RemoveAt, RemoveAt
<1> QED
    BY <1>1, <1>4, <1>5 DEF I

\* Taking out an item that a sequence has once, at place p.
LEMMA RemoveFirstAt ==
    ASSUME NEW S, NEW s \in Seq(S), Different(s), NEW p \in 1 .. Len(s)
    PROVE  Contents!RemoveFirst(s, s[p]) = RemoveAt(s, p)
<1>1. PICK x : x = s[p]
    OBVIOUS
<1>2. ASSUME NEW i \in 1 .. (p - 1) PROVE s[i] # x
  <2>1. i \in 1 .. Len(s) /\ i # p
    BY LenProperties
  <2> QED
    BY <1>1, <2>1 DEF Different
<1>3. Contents!RemoveFirst(s, x) = RemoveAt(s, p)
    BY <1>1, <1>2, FirstPlace
<1> QED
    BY <1>1, <1>3

\* Taking out an item that a sequence has not.
LEMMA RemoveFirstNot ==
    ASSUME NEW s, NEW x, \A i \in 1 .. Len(s) : s[i] # x
    PROVE  Contents!RemoveFirst(s, x) = s
BY DEF Contents!RemoveFirst

\* A node leaves its list.
LEMMA LaidWithout ==
    ASSUME NEW c, NEW hd, NEW lv, Laid(c, hd, lv), NEW l \in Lists, NEW p \in 1 .. Len(c[l]),
           NEW d, d = [c EXCEPT ![l] = RemoveAt(c[l], p)]
    PROVE  Laid(d, [hd EXCEPT ![l] = At(RemoveAt(c[l], p), 1)], lv \ {c[l][p]})
<1>1. /\ c[l] \in Seq(Memory) /\ Len(c[l]) \in Nat /\ Different(c[l])
      /\ \A i \in 1 .. Len(c[l]) : c[l][i] \in Memory /\ c[l][i] \in lv
    BY LaidList
<1> DEFINE s == RemoveAt(c[l], p)
           L == Len(c[l])
           x == c[l][p]
<1>2. Len(s) = L - 1 /\ \A i \in 1 .. (L - 1) : s[i] = IF i < p THEN c[l][i] ELSE c[l][i + 1]
    BY <1>1, RemoveAtPlaces
<1>3. s \in Seq(Memory)
    BY <1>1, RemoveAtIn
<1>4. d = [c EXCEPT ![l] = s]
    OBVIOUS
<1> HIDE DEF s
<1>5. Different(s)
  <2> SUFFICES ASSUME NEW i \in 1 .. (L - 1), NEW j \in 1 .. (L - 1), s[i] = s[j] PROVE i = j
    BY <1>2 DEF Different
  <2> DEFINE g(k) == IF k < p THEN k ELSE k + 1
  <2>1. g(i) \in 1 .. L /\ g(j) \in 1 .. L /\ (g(i) = g(j) => i = j)
    BY <1>1
  <2>2. s[i] = c[l][g(i)] /\ s[j] = c[l][g(j)]
    BY <1>2
  <2> HIDE DEF g
  <2> QED
    BY <1>1, <2>1, <2>2 DEF Different
<1>6. Apart(c, l, s)
  <2> SUFFICES ASSUME NEW m \in Lists \ {l}, NEW i \in 1 .. Len(c[m]),
                      NEW j \in 1 .. (L - 1), c[m][i] = s[j]
               PROVE  FALSE
    BY <1>2 DEF Apart
  <2>1. PICK k \in 1 .. L : c[l][k] = s[j]
    <3>1. j \in 1 .. L /\ j + 1 \in 1 .. L
      BY <1>1
    <3> QED
      BY <1>2, <3>1
  <2> QED
    BY <2>1 DEF Laid, Disjoint
<1>7. Laid(d, [hd EXCEPT ![l] = At(s, 1)], Held(d))
    BY <1>3, <1>4, <1>5, <1>6, LaidNew
<1>8. d[l] = s /\ \A m \in Lists : m # l => d[m] = c[m]
    BY <1>4 DEF Laid
<1>9. Held(d) = lv \ {x}
  <2>1. ASSUME NEW y \in Held(d) PROVE y \in lv \ {x}
    <3>1. PICK m \in Lists : \E i \in 1 .. Len(d[m]) : d[m][i] = y
      BY <2>1 DEF Held
    <3>2. PICK i \in 1 .. Len(d[m]) : d[m][i] = y
      BY <3>1
    <3>3. CASE m = l
      <4>1. i \in 1 .. (L - 1) /\ y = s[i] /\ i \in 1 .. L /\ i + 1 \in 1 .. L
        BY <1>1, <1>2, <1>8, <3>2, <3>3
      <4>2. y \in lv
        BY <1>1, <1>2, <4>1
      <4>3. y # x
        BY <1>1, <1>2, <4>1 DEF Different
      <4> QED
        BY <4>2, <4>3
    <3>4. CASE m # l
      <4>1. i \in 1 .. Len(c[m]) /\ c[m][i] = y
        BY <1>8, <3>2, <3>4
      <4>2. y \in lv
        BY <4>1, LaidList
      <4>3. y # x
        BY <3>4, <4>1 DEF Laid, Disjoint
      <4> QED
        BY <4>2, <4>3
    <3> QED
      BY <3>3, <3>4
  <2>2. ASSUME NEW y \in lv, y # x PROVE y \in Held(d)
    <3>1. PICK m \in Lists : y \in Memory /\ \E i \in 1 .. Len(c[m]) : c[m][i] = y
      BY <2>2 DEF Laid, Held
    <3>2. PICK i \in 1 .. Len(c[m]) : c[m][i] = y
      BY <3>1
    <3>3. \E j \in 1 .. Len(d[m]) : d[m][j] = y
      <4>1. CASE m = l
        <5>1. i \in 1 .. L /\ i # p
          BY <2>2, <3>2, <4>1
        <5>2. CASE i < p
          <6>1. i \in 1 .. (L - 1) /\ s[i] = y
            BY <1>1, <1>2, <3>2, <4>1, <5>1, <5>2
          <6> QED
            BY <1>2, <1>8, <4>1, <6>1
        <5>3. CASE i > p
          <6>1. i - 1 \in 1 .. (L - 1) /\ ~(i - 1 < p) /\ (i - 1) + 1 = i
            BY <1>1, <5>1, <5>3
          <6>2. s[i - 1] = y
            BY <1>2, <3>2, <4>1, <6>1
          <6> QED
            BY <1>2, <1>8, <4>1, <6>1, <6>2
        <5> QED
          BY <1>1, <5>1, <5>2, <5>3
      <4>2. CASE m # l
        BY <1>8, <3>2, <4>2
      <4> QED
        BY <4>1, <4>2
    <3> QED
      BY <3>1, <3>3 DEF Held
  <2> QED
    BY <2>1, <2>2
<1> QED
    BY <1>7, <1>9 DEF s

\* A list is freed as a whole.
LEMMA LaidCleared ==
    ASSUME NEW c, NEW hd, NEW lv, Laid(c, hd, lv), NEW l \in Lists,
           NEW d, d = [c EXCEPT ![l] = <<>>]
    PROVE  Laid(d, [hd EXCEPT ![l] = NULL], lv \ ToSet(c[l]))
<1>1. /\ c[l] \in Seq(Memory) /\ Len(c[l]) \in Nat
      /\ \A i \in 1 .. Len(c[l]) : c[l][i] \in Memory /\ c[l][i] \in lv
    BY LaidList
<1> DEFINE s == <<>>
<1>2. s \in Seq(Memory) /\ Len(s) = 0
    OBVIOUS
<1>3. Different(s) /\ Apart(c, l, s) /\ At(s, 1) = NULL
    BY <1>2 DEF Different, Apart, At
<1>4. Laid(d, [hd EXCEPT ![l] = NULL], Held(d))
    BY <1>2, <1>3, LaidNew
<1>5. d[l] = s /\ \A m \in Lists : m # l => d[m] = c[m]
    BY DEF Laid
<1>6. ToSet(c[l]) = {c[l][i] : i \in 1 .. Len(c[l])}
    BY <1>1 DEF ToSet
<1>7. Held(d) = lv \ ToSet(c[l])
  <2>1. ASSUME NEW y \in Held(d) PROVE y \in lv \ ToSet(c[l])
    <3>1. PICK m \in Lists : \E i \in 1 .. Len(d[m]) : d[m][i] = y
      BY <2>1 DEF Held
    <3>2. PICK i \in 1 .. Len(d[m]) : d[m][i] = y
      BY <3>1
    <3>3. m # l
      BY <1>2, <1>5, <3>2
    <3>4. i \in 1 .. Len(c[m]) /\ c[m][i] = y
      BY <1>5, <3>2, <3>3
    <3>5. y \in lv
      BY <3>4, LaidList
    <3>6. y \notin ToSet(c[l])
      BY <1>6, <3>3, <3>4 DEF Laid, Disjoint
    <3> QED
      BY <3>5, <3>6
  <2>2. ASSUME NEW y \in lv, y \notin ToSet(c[l]) PROVE y \in Held(d)
    <3>1. PICK m \in Lists : y \in Memory /\ \E i \in 1 .. Len(c[m]) : c[m][i] = y
      BY <2>2 DEF Laid, Held
    <3>2. m # l
      BY <1>6, <2>2, <3>1
    <3> QED
      BY <1>5, <3>1, <3>2 DEF Held
  <2> QED
    BY <2>1, <2>2
<1> QED
    BY <1>4, <1>7

----------------------------------------------------------------------------
\* linked_list.c: each node points to the one behind it.
Linear(c, nx) ==
    /\ nx \in [Memory -> Memory \cup {NULL}]
    /\ \A l \in Lists : \A i \in 1 .. Len(c[l]) : nx[c[l][i]] = At(c[l], i + 1)

\* The walk from any node of a list, or from its head, finds the rest of it.
LEMMA ChainIs ==
    ASSUME NEW c, NEW hd, NEW lv, Laid(c, hd, lv), NEW nx, Linear(c, nx), NEW l \in Lists
    PROVE  /\ \A p \in 1 .. (Len(c[l]) + 1) :
                  Linked!Along(nx, At(c[l], p)) = SubSeq(c[l], p, Len(c[l]))
           /\ Linked!Along(nx, hd[l]) = c[l]
<1>1. c[l] \in Seq(Memory) /\ Len(c[l]) \in Nat /\ Different(c[l]) /\ hd[l] = At(c[l], 1)
    BY LaidList
<1>2. Threaded(c[l], nx)
    BY <1>1 DEF Threaded, Linear, Different
<1>3. ASSUME NEW p \in 1 .. (Len(c[l]) + 1)
      PROVE  Linked!Along(nx, At(c[l], p)) = SubSeq(c[l], p, Len(c[l]))
    BY <1>2, AlongIs
<1>4. SubSeq(c[l], 1, Len(c[l])) = c[l]
    BY <1>1
<1>5. 1 \in 1 .. (Len(c[l]) + 1)
    BY <1>1
<1> QED
    BY <1>1, <1>3, <1>4, <1>5

\* A list's head is NULL when it has no nodes, and only then.
LEMMA HeadOfNone ==
    ASSUME NEW c, NEW hd, NEW lv, Laid(c, hd, lv), NEW l \in Lists
    PROVE  hd[l] = NULL <=> c[l] = <<>>
<1>1. c[l] \in Seq(Memory) /\ Len(c[l]) \in Nat /\ hd[l] = At(c[l], 1)
    BY LaidList
<1>2. CASE c[l] = <<>>
    BY <1>1, <1>2 DEF At
<1>3. CASE c[l] # <<>>
  <2>1. 1 \in 1 .. Len(c[l])
    BY <1>1, <1>3, EmptySeq
  <2>2. hd[l] = c[l][1] /\ c[l][1] \in Memory
    BY <1>1, <2>1, ElementOfSeq DEF At
  <2> QED
    BY <1>3, <2>2, MemoryFinite
<1> QED
    BY <1>2, <1>3

\* The pointers nx2 after n has come to the end of list l.
PointsWith(c, l, n, nx, nx2) ==
    /\ nx2 \in [Memory -> Memory \cup {NULL}] /\ nx2[n] = NULL
    /\ \A i \in 1 .. Len(c[l]) : nx2[c[l][i]] = IF i = Len(c[l]) THEN n ELSE nx[c[l][i]]
    /\ \A m \in Lists \ {l} : \A i \in 1 .. Len(c[m]) : nx2[c[m][i]] = nx[c[m][i]]

\* list_init and list_add: the new node is the last, and the one before it points to it.
LEMMA LinearWith ==
    ASSUME NEW c, NEW hd, NEW lv, Laid(c, hd, lv), NEW nx, Linear(c, nx), NEW l \in Lists,
           NEW n \in Memory, n \notin lv,
           NEW d, d = [c EXCEPT ![l] = Append(c[l], n)],
           NEW nx2, PointsWith(c, l, n, nx, nx2)
    PROVE  Linear(d, nx2)
<1> USE DEF PointsWith
<1> DEFINE s == Append(c[l], n)
           L == Len(c[l])
<1>1. /\ c[l] \in Seq(Memory) /\ L \in Nat
      /\ \A i \in 1 .. L : c[l][i] \in Memory
    BY LaidList
<1>2. /\ Len(s) = L + 1 /\ s[L + 1] = n
      /\ \A i \in 1 .. L : s[i] = c[l][i]
    BY <1>1, AppendProperties
<1>3. d[l] = s /\ \A m \in Lists : m # l => d[m] = c[m]
    BY DEF Laid
<1> HIDE DEF s
<1>4. ASSUME NEW m \in Lists, NEW i \in 1 .. Len(d[m])
      PROVE  nx2[d[m][i]] = At(d[m], i + 1)
  <2>1. CASE m # l
    BY <1>3, <2>1 DEF Linear
  <2>2. CASE m = l /\ i = L + 1
    BY <1>1, <1>2, <1>3, <2>2 DEF At
  <2>3. CASE m = l /\ i = L
    <3>1. i \in 1 .. L /\ i + 1 \in 1 .. (L + 1)
      BY <1>1, <1>2, <1>3, <1>4, <2>3
    <3>2. nx2[d[m][i]] = n
      BY <1>2, <1>3, <2>3, <3>1
    <3>3. At(d[m], i + 1) = n
      BY <1>2, <1>3, <2>3, <3>1 DEF At
    <3> QED
      BY <3>2, <3>3
  <2>4. CASE m = l /\ i < L
    <3>1. i \in 1 .. L /\ i + 1 \in 1 .. L /\ i + 1 \in 1 .. (L + 1)
      BY <1>1, <1>2, <1>3, <1>4, <2>4
    <3>2. nx2[d[m][i]] = At(c[l], i + 1)
      BY <1>2, <1>3, <2>4, <3>1 DEF Linear
    <3>3. At(d[m], i + 1) = c[l][i + 1] /\ At(c[l], i + 1) = c[l][i + 1]
      BY <1>2, <1>3, <2>4, <3>1 DEF At
    <3> QED
      BY <3>2, <3>3
  <2>5. m = l => i = L + 1 \/ i = L \/ i < L
    BY <1>1, <1>2, <1>3, <1>4
  <2> QED
    BY <2>1, <2>2, <2>3, <2>4, <2>5
<1> QED
    BY <1>4 DEF Linear

\* list_delete: the node before the deleted one, if there is one, points past it.
LEMMA LinearWithout ==
    ASSUME NEW c, NEW hd, NEW lv, Laid(c, hd, lv), NEW nx, Linear(c, nx), NEW l \in Lists,
           NEW p \in 1 .. Len(c[l]),
           NEW d, d = [c EXCEPT ![l] = RemoveAt(c[l], p)],
           NEW nx2, nx2 \in [Memory -> Memory \cup {NULL}],
           \A i \in 1 .. Len(c[l]) :
               i # p => nx2[c[l][i]] = IF i + 1 = p THEN nx[c[l][p]] ELSE nx[c[l][i]],
           \A m \in Lists \ {l} : \A i \in 1 .. Len(c[m]) : nx2[c[m][i]] = nx[c[m][i]]
    PROVE  Linear(d, nx2)
<1> DEFINE s == RemoveAt(c[l], p)
           L == Len(c[l])
           g(k) == IF k < p THEN k ELSE k + 1
<1>1. c[l] \in Seq(Memory) /\ L \in Nat
    BY LaidList
<1>2. Len(s) = L - 1 /\ \A i \in 1 .. (L - 1) : s[i] = IF i < p THEN c[l][i] ELSE c[l][i + 1]
    BY <1>1, RemoveAtPlaces
<1>3. d[l] = s /\ \A m \in Lists : m # l => d[m] = c[m]
    BY DEF Laid
<1> HIDE DEF s
<1>4. ASSUME NEW i \in 1 .. (L - 1) PROVE nx2[s[i]] = At(s, i + 1)
  <2>1. s[i] = c[l][g(i)] /\ g(i) \in 1 .. L /\ g(i) # p
    BY <1>1, <1>2
  <2>2. At(s, i + 1) = At(c[l], g(i + 1))
    <3>1. CASE i = L - 1
      <4>1. i + 1 \notin 1 .. (L - 1) /\ g(i + 1) = L + 1 /\ L + 1 \notin 1 .. L
        BY <1>1, <3>1
      <4> QED
        BY <1>2, <4>1 DEF At
    <3>2. CASE i # L - 1
      <4>1. i + 1 \in 1 .. (L - 1) /\ g(i + 1) \in 1 .. L
        BY <1>1, <3>2
      <4>2. s[i + 1] = c[l][g(i + 1)]
        BY <1>2, <4>1
      <4> HIDE DEF g
      <4> QED
        BY <1>2, <4>1, <4>2 DEF At
    <3> QED
      BY <3>1, <3>2
  <2>3. CASE g(i) + 1 = p
    <3>1. g(i + 1) = p + 1
      BY <1>1, <2>3
    <3>2. nx2[s[i]] = nx[c[l][p]]
      BY <2>1, <2>3
    <3>3. nx[c[l][p]] = At(c[l], p + 1)
      BY DEF Linear
    <3> QED
      BY <2>2, <3>1, <3>2, <3>3
  <2>4. CASE g(i) + 1 # p
    <3>1. g(i + 1) = g(i) + 1
      BY <1>1, <2>4
    <3> HIDE DEF g
    <3>2. nx2[s[i]] = nx[c[l][g(i)]]
      BY <2>1, <2>4
    <3>3. nx[c[l][g(i)]] = At(c[l], g(i) + 1)
      BY <2>1 DEF Linear
    <3> QED
      BY <2>2, <3>1, <3>2, <3>3
  <2> QED
    BY <2>3, <2>4
<1>5. ASSUME NEW m \in Lists, NEW i \in 1 .. Len(d[m])
      PROVE  nx2[d[m][i]] = At(d[m], i + 1)
  <2>1. CASE m # l
    BY <1>3, <2>1 DEF Linear
  <2>2. CASE m = l
    BY <1>2, <1>3, <1>4, <1>5, <2>2
  <2> QED
    BY <2>1, <2>2
<1> QED
    BY <1>5 DEF Linear

\* list_free leaves the other lists' nodes as they are.
LEMMA LinearCleared ==
    ASSUME NEW c, NEW hd, NEW lv, Laid(c, hd, lv), NEW nx, Linear(c, nx), NEW l \in Lists
    PROVE  Linear([c EXCEPT ![l] = <<>>], nx)
<1> DEFINE d == [c EXCEPT ![l] = <<>>]
<1>1. d[l] = <<>> /\ \A m \in Lists : m # l => d[m] = c[m]
    BY DEF Laid
<1>2. Len(d[l]) = 0
    BY <1>1
<1> HIDE DEF d
<1>3. ASSUME NEW m \in Lists, NEW i \in 1 .. Len(d[m])
      PROVE  nx[d[m][i]] = At(d[m], i + 1)
  <2>1. m # l
    BY <1>2, <1>3
  <2> QED
    BY <1>1, <2>1 DEF Linear
<1>4. Linear(d, nx)
    BY <1>3 DEF Linear
<1> QED
    BY <1>4 DEF d

(***************************************************************************)
(* What Items.tla promises of a call cl that takes the lists c to d.       *)
(***************************************************************************)
AddStep(c, d, cl) ==
    \E l \in Lists : \E x \in Memory :
        cl = [op |-> "add", list |-> l, item |-> x] /\ d = [c EXCEPT ![l] = Append(c[l], x)]

DeleteStep(c, d, cl) ==
    \E l \in Lists : \E x \in Memory :
        /\ cl = [op |-> "delete", list |-> l, item |-> x]
        /\ d = [c EXCEPT ![l] = Contents!RemoveFirst(c[l], x)]

FreeStep(c, d, cl) ==
    \E l \in Lists : cl = [op |-> "free", list |-> l] /\ d = [c EXCEPT ![l] = <<>>]

RefusedStep(c, d, cl) == \E l \in Lists : cl = [op |-> "refused", list |-> l] /\ d = c

UndefinedStep(c, cl) ==
    \E l \in Lists :
        /\ cl.op = "undefined" /\ cl.list = l
        /\ \/ c[l] = <<>>
           \/ \E m \in Lists \ {l} : \E i \in 1 .. Len(c[m]) : c[m][i] = cl.item

ListsStep(c, d, cl) ==
    \/ AddStep(c, d, cl) \/ DeleteStep(c, d, cl) \/ FreeStep(c, d, cl)
    \/ RefusedStep(c, d, cl) \/ UndefinedStep(c, cl)

\* The lists d of linked_list.c after a step, when they were c before it.
LinkedTo(c, d) == Laid(d, head', live') /\ Linear(d, next') /\ ListsStep(c, d, call')

\* list_init puts its node into an empty list.
LEMMA LinkedInitStep ==
    ASSUME NEW c, Laid(c, head, live), Linear(c, next),
           NEW l \in Lists, Linked!ListInit(l)
    PROVE  \E d : LinkedTo(c, d)
<1>1. PICK n \in Memory \ live :
          /\ live' = live \cup {n} /\ next' = [next EXCEPT ![n] = NULL]
          /\ head' = [head EXCEPT ![l] = n]
          /\ call' = [op |-> "add", list |-> l, item |-> n]
    BY DEF Linked!ListInit, Linked!Noted
<1>2. c[l] = <<>>
    BY HeadOfNone DEF Linked!ListInit
<1> DEFINE d == [c EXCEPT ![l] = Append(c[l], n)]
<1>3. Laid(d, head', live')
    BY <1>1, <1>2, LaidWith
<1>4. next' \in [Memory -> Memory \cup {NULL}] /\ next'[n] = NULL
    BY <1>1 DEF Linear
<1>5. \A m \in Lists : \A i \in 1 .. Len(c[m]) : next'[c[m][i]] = next[c[m][i]]
  <2> SUFFICES ASSUME NEW m \in Lists, NEW i \in 1 .. Len(c[m])
               PROVE  next'[c[m][i]] = next[c[m][i]]
    OBVIOUS
  <2>1. c[m][i] \in Memory /\ c[m][i] \in live
    BY LaidList
  <2> QED
    BY <1>1, <2>1 DEF Linear
<1>6. Len(c[l]) = 0
    BY <1>2
<1>7. Linear(d, next')
  <2>1. \A i \in 1 .. Len(c[l]) : next'[c[l][i]] = IF i = Len(c[l]) THEN n ELSE next[c[l][i]]
    BY <1>6
  <2>2. \A m \in Lists \ {l} : \A i \in 1 .. Len(c[m]) : next'[c[m][i]] = next[c[m][i]]
    BY <1>5
  <2>3. PointsWith(c, l, n, next, next')
    BY <1>4, <2>1, <2>2 DEF PointsWith
  <2> QED
    BY <1>1, <2>3, LinearWith
<1>8. AddStep(c, d, call')
    BY <1>1 DEF AddStep
<1> QED
    BY <1>3, <1>7, <1>8 DEF LinkedTo, ListsStep

\* list_add puts its node behind the last one.
LEMMA LinkedAddStep ==
    ASSUME NEW c, Laid(c, head, live), Linear(c, next),
           NEW l \in Lists, Linked!ListAdd(l)
    PROVE  \E d : LinkedTo(c, d)
<1>1. PICK n \in Memory \ live :
          /\ live' = live \cup {n}
          /\ next' = [next EXCEPT ![n] = NULL, ![Linked!LastNode(l)] = n]
          /\ call' = [op |-> "add", list |-> l, item |-> n] /\ head' = head
    BY DEF Linked!ListAdd, Linked!Noted
<1>2. /\ c[l] \in Seq(Memory) /\ Len(c[l]) \in Nat /\ c[l] # <<>> /\ Different(c[l])
      /\ \A i \in 1 .. Len(c[l]) : c[l][i] \in Memory /\ c[l][i] \in live
    BY HeadOfNone, LaidList DEF Linked!ListAdd
<1> DEFINE d == [c EXCEPT ![l] = Append(c[l], n)]
           L == Len(c[l])
<1>3. L \in 1 .. L
    BY <1>2, EmptySeq
<1>4. Linked!LastNode(l) = c[l][L]
  <2>1. Linked!Chain(head[l]) = c[l]
    BY ChainIs DEF Linked!Chain
  <2> QED
    BY <2>1 DEF Linked!LastNode, Linked!Last
<1>5. Laid(d, head', live')
  <2>1. [head EXCEPT ![l] = head[l]] = head
    BY DEF Laid
  <2> QED
    BY <1>1, <1>2, <2>1, LaidWith
<1>6. n # c[l][L]
    BY <1>2, <1>3
<1>7. next' \in [Memory -> Memory \cup {NULL}] /\ next'[n] = NULL
    BY <1>1, <1>4, <1>6 DEF Linear
<1>8. ASSUME NEW i \in 1 .. L PROVE next'[c[l][i]] = IF i = L THEN n ELSE next[c[l][i]]
  <2>1. c[l][i] \in Memory /\ c[l][i] # n /\ (c[l][i] = c[l][L] => i = L)
    BY <1>1, <1>2, <1>3 DEF Different
  <2> QED
    BY <1>1, <1>4, <1>6, <2>1 DEF Linear
<1>9. ASSUME NEW m \in Lists \ {l}, NEW i \in 1 .. Len(c[m])
      PROVE  next'[c[m][i]] = next[c[m][i]]
  <2>1. c[m][i] \in Memory /\ c[m][i] \in live
    BY LaidList
  <2>2. c[m][i] # c[l][L]
    BY <1>3 DEF Laid, Disjoint
  <2> QED
    BY <1>1, <1>4, <2>1, <2>2 DEF Linear
<1>10. Linear(d, next')
  <2>1. \A i \in 1 .. Len(c[l]) : next'[c[l][i]] = IF i = Len(c[l]) THEN n ELSE next[c[l][i]]
    BY <1>8
  <2>2. \A m \in Lists \ {l} : \A i \in 1 .. Len(c[m]) : next'[c[m][i]] = next[c[m][i]]
    BY <1>9
  <2>3. PointsWith(c, l, n, next, next')
    BY <1>7, <2>1, <2>2 DEF PointsWith
  <2> QED
    BY <1>1, <2>3, LinearWith
<1>11. AddStep(c, d, call')
    BY <1>1 DEF AddStep
<1> QED
    BY <1>5, <1>10, <1>11 DEF LinkedTo, ListsStep

\* list_delete finds the head, the node before, or nothing.
LEMMA LinkedDeleteStep ==
    ASSUME NEW c, Laid(c, head, live), Linear(c, next),
           NEW l \in Lists, NEW n \in Memory, Linked!ListDelete(l, n)
    PROVE  \E d : LinkedTo(c, d)
<1>1. /\ c[l] \in Seq(Memory) /\ Len(c[l]) \in Nat /\ Different(c[l])
      /\ \A i \in 1 .. Len(c[l]) : c[l][i] \in Memory
      /\ head[l] = At(c[l], 1)
    BY LaidList
<1>2. Linked!Chain(head[l]) = c[l]
    BY ChainIs DEF Linked!Chain
<1>3. Linked!ToSet(c[l]) = {c[l][i] : i \in 1 .. Len(c[l])}
    BY <1>1 DEF Linked!ToSet
<1>4. call' = [op |-> "delete", list |-> l, item |-> n] /\ n \in live
    BY DEF Linked!ListDelete, Linked!Noted
<1>5. n # NULL
    BY MemoryFinite
<1> DEFINE L == Len(c[l])
<1>6. CASE head[l] = n
  <2>1. 1 \in 1 .. L /\ c[l][1] = n
    BY <1>1, <1>5, <1>6 DEF At
  <2> DEFINE t == RemoveAt(c[l], 1)
             d == [c EXCEPT ![l] = t]
  <2>2. head' = [head EXCEPT ![l] = next[n]] /\ live' = live \ {n} /\ next' = next
    BY <1>6 DEF Linked!ListDelete
  <2>3. next[n] = At(t, 1)
    <3>1. next[n] = At(c[l], 2)
      BY <2>1 DEF Linear
    <3>2. Len(t) = L - 1 /\ \A i \in 1 .. (L - 1) : t[i] = IF i < 1 THEN c[l][i] ELSE c[l][i + 1]
      BY <1>1, <2>1, RemoveAtPlaces
    <3> HIDE DEF t
    <3>3. CASE L = 1
      BY <3>1, <3>2, <3>3 DEF At
    <3>4. CASE L # 1
      <4>1. 1 \in 1 .. (L - 1) /\ 2 \in 1 .. L /\ 1 + 1 = 2
        <5>1. L \in Nat /\ 1 \in 1 .. L /\ L # 1
          BY <1>1, <2>1, <3>4
        <5> HIDE DEF L
        <5> QED
          BY <5>1
      <4> QED
        BY <3>1, <3>2, <4>1 DEF At
    <3> QED
      BY <3>3, <3>4
  <2>4. Laid(d, head', live')
    BY <2>1, <2>2, <2>3, LaidWithout
  <2>5. next' \in [Memory -> Memory \cup {NULL}]
    BY <2>2 DEF Linear
  <2>6. Linear(d, next')
    <3>1. \A i \in 1 .. L : i # 1 => next'[c[l][i]] = IF i + 1 = 1 THEN next[c[l][1]] ELSE next[c[l][i]]
      BY <1>1, <2>2
    <3>2. \A m \in Lists \ {l} : \A i \in 1 .. Len(c[m]) : next'[c[m][i]] = next[c[m][i]]
      BY <2>2
    <3> QED
      BY <2>1, <2>5, <3>1, <3>2, LinearWithout
  <2>7. t = Contents!RemoveFirst(c[l], n)
    BY <1>1, <2>1, RemoveFirstAt
  <2>8. DeleteStep(c, d, call')
    BY <1>4, <2>7 DEF DeleteStep
  <2> QED
    BY <2>4, <2>6, <2>8 DEF LinkedTo, ListsStep
<1>7. CASE head[l] # n /\ \E p \in 1 .. L : c[l][p] = n
  <2>1. PICK p \in 1 .. L : c[l][p] = n
    BY <1>7
  <2>2. p # 1 /\ p - 1 \in 1 .. L /\ p - 1 # p /\ (p - 1) + 1 = p
    BY <1>1, <1>7, <2>1 DEF At
  <2>3. next[c[l][p - 1]] = n
    BY <2>1, <2>2 DEF Linear, At
  <2> DEFINE t == RemoveAt(c[l], p)
             d == [c EXCEPT ![l] = t]
  <2>4. /\ head' = head /\ live' = live \ {n}
        /\ next' = [q \in Memory |->
              IF q \in Linked!ToSet(c[l]) /\ next[q] = n THEN next[n] ELSE next[q]]
    BY <1>2, <1>3, <1>7, <2>2, <2>3 DEF Linked!ListDelete
  <2>5. At(t, 1) = head[l]
    <3>1. Len(t) = L - 1 /\ \A i \in 1 .. (L - 1) : t[i] = IF i < p THEN c[l][i] ELSE c[l][i + 1]
      BY <1>1, <2>1, RemoveAtPlaces
    <3>2. 1 \in 1 .. (L - 1) /\ 1 < p /\ 1 \in 1 .. L
      BY <1>1, <2>2
    <3> HIDE DEF t
    <3> QED
      BY <1>1, <3>1, <3>2 DEF At
  <2>6. Laid(d, head', live')
    <3>1. [head EXCEPT ![l] = At(t, 1)] = head
      BY <2>5 DEF Laid
    <3> HIDE DEF t
    <3> QED
      BY <2>1, <2>4, <3>1, LaidWithout DEF t
  <2>7. next' \in [Memory -> Memory \cup {NULL}]
    BY <2>4 DEF Linear
  <2>8. ASSUME NEW i \in 1 .. L, i # p
        PROVE  next'[c[l][i]] = IF i + 1 = p THEN next[c[l][p]] ELSE next[c[l][i]]
    <3>1. next'[c[l][i]] = IF next[c[l][i]] = n THEN next[n] ELSE next[c[l][i]]
      BY <1>1, <1>3, <2>4
    <3>2. next[c[l][i]] = n <=> i + 1 = p
      <4>1. next[c[l][i]] = At(c[l], i + 1)
        BY DEF Linear
      <4>2. CASE i + 1 \in 1 .. L
        BY <1>1, <2>1, <4>1, <4>2 DEF At, Different
      <4>3. CASE i + 1 \notin 1 .. L
        BY <1>5, <2>1, <4>1, <4>3 DEF At
      <4> QED
        BY <4>2, <4>3
    <3> QED
      BY <2>1, <3>1, <3>2
  <2>9. ASSUME NEW m \in Lists \ {l}, NEW i \in 1 .. Len(c[m])
        PROVE  next'[c[m][i]] = next[c[m][i]]
    <3>1. c[m][i] \in Memory
      BY LaidList
    <3>2. c[m][i] \notin Linked!ToSet(c[l])
      BY <1>3 DEF Laid, Disjoint
    <3> QED
      BY <2>4, <3>1, <3>2
  <2>10. Linear(d, next')
    <3> HIDE DEF L
    <3> QED
      BY <2>1, <2>7, <2>8, <2>9, LinearWithout DEF L
  <2>11. t = Contents!RemoveFirst(c[l], n)
    BY <1>1, <2>1, RemoveFirstAt
  <2>12. DeleteStep(c, d, call')
    BY <1>4, <2>11 DEF DeleteStep
  <2> QED
    BY <2>6, <2>10, <2>12 DEF LinkedTo, ListsStep
<1>8. CASE head[l] # n /\ ~ \E p \in 1 .. L : c[l][p] = n
  <2>1. ~ \E q \in Linked!ToSet(c[l]) : next[q] = n
    <3> SUFFICES ASSUME NEW i \in 1 .. L, next[c[l][i]] = n PROVE FALSE
      BY <1>3
    <3>1. At(c[l], i + 1) = n
      BY DEF Linear
    <3> QED
      BY <1>5, <1>8, <3>1 DEF At
  <2>2. head' = head /\ live' = live /\ next' = next
    BY <1>2, <1>8, <2>1 DEF Linked!ListDelete
  <2>3. Contents!RemoveFirst(c[l], n) = c[l]
    BY <1>8, RemoveFirstNot
  <2>4. [c EXCEPT ![l] = c[l]] = c
    BY DEF Laid
  <2>5. DeleteStep(c, c, call')
    BY <1>4, <2>3, <2>4 DEF DeleteStep
  <2> QED
    BY <2>2, <2>5 DEF LinkedTo, ListsStep
<1> QED
    BY <1>6, <1>7, <1>8

\* list_free
LEMMA LinkedFreeStep ==
    ASSUME NEW c, Laid(c, head, live), Linear(c, next),
           NEW l \in Lists, Linked!ListFree(l)
    PROVE  \E d : LinkedTo(c, d)
<1> DEFINE d == [c EXCEPT ![l] = <<>>]
<1>1. Linked!Chain(head[l]) = c[l]
    BY ChainIs DEF Linked!Chain
<1>2. /\ live' = live \ ToSet(c[l]) /\ head' = [head EXCEPT ![l] = NULL] /\ next' = next
      /\ call' = [op |-> "free", list |-> l]
    BY <1>1 DEF Linked!ListFree, Linked!Note, Linked!ToSet, ToSet
<1>3. Laid(d, head', live')
    BY <1>2, LaidCleared
<1>4. Linear(d, next')
    BY <1>2, LinearCleared
<1>5. FreeStep(c, d, call')
    BY <1>2 DEF FreeStep
<1> QED
    BY <1>3, <1>4, <1>5 DEF LinkedTo, ListsStep

\* Every call of linked_list.c keeps the lists laid out, and does what is promised.
LEMMA LinkedStep ==
    ASSUME NEW c, Laid(c, head, live), Linear(c, next), Linked!Next
    PROVE  \E d : LinkedTo(c, d)
<1>1. ASSUME NEW l \in Lists, Linked!ListAddEmptied(l) PROVE LinkedTo(c, c)
  <2>1. head' = head /\ next' = next /\ live' = live /\ c[l] = <<>>
        /\ call' = [op |-> "undefined", list |-> l]
    BY <1>1, HeadOfNone DEF Linked!ListAddEmptied, Linked!Note
  <2>2. call'.op = "undefined" /\ call'.list = l
    BY <2>1
  <2>3. UndefinedStep(c, call')
    BY <2>1, <2>2 DEF UndefinedStep
  <2> QED
    BY <2>1, <2>3 DEF LinkedTo, ListsStep
<1>2. ASSUME NEW l \in Lists, Linked!Refuse(l) PROVE LinkedTo(c, c)
  <2>1. head' = head /\ next' = next /\ live' = live
        /\ call' = [op |-> "refused", list |-> l]
    BY <1>2 DEF Linked!Refuse, Linked!Note
  <2>2. RefusedStep(c, c, call')
    BY <2>1 DEF RefusedStep
  <2> QED
    BY <2>1, <2>2 DEF LinkedTo, ListsStep
<1>3. PICK l \in Lists :
          \/ Linked!ListInit(l) \/ Linked!ListAdd(l) \/ Linked!ListAddEmptied(l)
          \/ Linked!Refuse(l) \/ Linked!ListFree(l)
          \/ \E n \in Memory : Linked!ListDelete(l, n)
    BY DEF Linked!Next
<1> QED
    BY <1>1, <1>2, <1>3, LinkedInitStep, LinkedAddStep, LinkedFreeStep, LinkedDeleteStep

----------------------------------------------------------------------------
\* The places around a ring of n nodes.
After(i, n) == IF i = n THEN 1 ELSE i + 1
Before(i, n) == IF i = 1 THEN n ELSE i - 1

\* circular_linked_list.c: each node points to the one behind it and to the one before.
Circular(c, nx, pv) ==
    /\ nx \in [Memory -> Memory \cup {NULL}] /\ pv \in [Memory -> Memory \cup {NULL}]
    /\ \A l \in Lists : \A i \in 1 .. Len(c[l]) :
          /\ nx[c[l][i]] = c[l][After(i, Len(c[l]))]
          /\ pv[c[l][i]] = c[l][Before(i, Len(c[l]))]

\* The walk around a ring finds its list.
LEMMA RingAlong ==
    ASSUME NEW c, NEW hd, NEW lv, Laid(c, hd, lv), NEW nx, NEW pv, Circular(c, nx, pv),
           NEW l \in Lists
    PROVE  Ring!Along([n \in Memory |-> IF nx[n] = hd[l] THEN NULL ELSE nx[n]], hd[l]) = c[l]
<1> DEFINE L == Len(c[l])
           onward == [n \in Memory |-> IF nx[n] = hd[l] THEN NULL ELSE nx[n]]
<1>1. /\ c[l] \in Seq(Memory) /\ L \in Nat /\ Different(c[l]) /\ hd[l] = At(c[l], 1)
      /\ \A i \in 1 .. L : c[l][i] \in Memory
    BY LaidList
<1>2. ASSUME NEW i \in 1 .. L PROVE onward[c[l][i]] = At(c[l], i + 1)
  <2>1. 1 \in 1 .. L /\ hd[l] = c[l][1]
    BY <1>1 DEF At
  <2>2. onward[c[l][i]] = IF c[l][After(i, L)] = c[l][1] THEN NULL ELSE c[l][After(i, L)]
    BY <1>1, <2>1 DEF Circular
  <2>3. CASE i = L
    <3>1. After(i, L) = 1 /\ i + 1 \notin 1 .. L
      BY <1>1, <2>3 DEF After
    <3> QED
      BY <2>2, <3>1 DEF At
  <2>4. CASE i # L
    <3>1. After(i, L) = i + 1 /\ i + 1 \in 1 .. L /\ i + 1 # 1
      BY <1>1, <2>4 DEF After
    <3>2. c[l][i + 1] # c[l][1]
      BY <1>1, <2>1, <3>1 DEF Different
    <3> QED
      BY <2>2, <3>1, <3>2 DEF At
  <2> QED
    BY <2>3, <2>4
<1> HIDE DEF onward
<1>3. Threaded(c[l], onward)
    BY <1>1, <1>2 DEF Threaded, Different
<1>4. Linked!Along(onward, At(c[l], 1)) = SubSeq(c[l], 1, L)
  <2>1. 1 \in 1 .. (L + 1)
    BY <1>1
  <2> QED
    BY <1>3, <2>1, AlongIs
<1>5. Ring!Along(onward, hd[l]) = Linked!Along(onward, At(c[l], 1))
    BY <1>1, SameWalk
<1>6. SubSeq(c[l], 1, L) = c[l]
    BY <1>1
<1> QED
    BY <1>4, <1>5, <1>6 DEF onward

\* It is the model's.
LEMMA RingIs ==
    ASSUME NEW c, Laid(c, head, live), Circular(c, next, prev), NEW l \in Lists
    PROVE  Ring!Ring(l) = c[l]
BY RingAlong DEF Ring!Ring

\* The pointers after n has come between the last node of ring l and the first.
RingWith(c, l, n, nx, pv, nx2, pv2) ==
    LET L == Len(c[l])
    IN  /\ nx2 = [nx EXCEPT ![n] = IF L = 0 THEN n ELSE c[l][1], ![IF L = 0 THEN n ELSE c[l][L]] = n]
        /\ pv2 = [pv EXCEPT ![n] = IF L = 0 THEN n ELSE c[l][L], ![IF L = 0 THEN n ELSE c[l][1]] = n]

\* list_init and list_add close the ring over the new node.
LEMMA CircularWith ==
    ASSUME NEW c, NEW hd, NEW lv, Laid(c, hd, lv), NEW nx, NEW pv, Circular(c, nx, pv),
           NEW l \in Lists, NEW n \in Memory, n \notin lv,
           NEW d, d = [c EXCEPT ![l] = Append(c[l], n)],
           NEW nx2, NEW pv2, RingWith(c, l, n, nx, pv, nx2, pv2)
    PROVE  Circular(d, nx2, pv2)
<1> DEFINE s == Append(c[l], n)
           L == Len(c[l])
<1>1. /\ c[l] \in Seq(Memory) /\ L \in Nat /\ Different(c[l])
      /\ \A i \in 1 .. L : c[l][i] \in Memory /\ c[l][i] \in lv
    BY LaidList
<1>2. /\ Len(s) = L + 1 /\ s[L + 1] = n
      /\ \A i \in 1 .. L : s[i] = c[l][i]
    BY <1>1, AppendProperties
<1>3. d[l] = s /\ \A m \in Lists : m # l => d[m] = c[m]
    BY DEF Laid
<1>4. /\ nx \in [Memory -> Memory \cup {NULL}] /\ pv \in [Memory -> Memory \cup {NULL}]
    BY DEF Circular
<1>5. /\ L # 0 => 1 \in 1 .. L /\ L \in 1 .. L
      /\ L # 0 => c[l][1] \in Memory /\ c[l][L] \in Memory /\ c[l][1] # n /\ c[l][L] # n
    BY <1>1
<1>6. /\ nx2 \in [Memory -> Memory \cup {NULL}] /\ pv2 \in [Memory -> Memory \cup {NULL}]
    BY <1>4, <1>5 DEF RingWith
<1> HIDE DEF s
<1>7. /\ nx2[n] = IF L = 0 THEN n ELSE c[l][1]
      /\ pv2[n] = IF L = 0 THEN n ELSE c[l][L]
    BY <1>4, <1>5 DEF RingWith
<1>8. ASSUME NEW i \in 1 .. L
      PROVE  /\ nx2[c[l][i]] = IF i = L THEN n ELSE nx[c[l][i]]
             /\ pv2[c[l][i]] = IF i = 1 THEN n ELSE pv[c[l][i]]
  <2>1. /\ L # 0 /\ c[l][i] \in Memory /\ c[l][i] # n
        /\ (c[l][i] = c[l][L] => i = L) /\ (c[l][i] = c[l][1] => i = 1)
    BY <1>1, <1>5 DEF Different
  <2>2. nx2 = [nx EXCEPT ![n] = c[l][1], ![c[l][L]] = n]
    BY <2>1 DEF RingWith
  <2>3. pv2 = [pv EXCEPT ![n] = c[l][L], ![c[l][1]] = n]
    BY <2>1 DEF RingWith
  <2>4. nx2[c[l][i]] = IF i = L THEN n ELSE nx[c[l][i]]
    BY <1>4, <1>5, <2>1, <2>2
  <2>5. pv2[c[l][i]] = IF i = 1 THEN n ELSE pv[c[l][i]]
    BY <1>4, <1>5, <2>1, <2>3
  <2> QED
    BY <2>4, <2>5
<1>9. ASSUME NEW i \in 1 .. (L + 1) PROVE nx2[s[i]] = s[After(i, L + 1)]
  <2>1. CASE i = L + 1 /\ L = 0
    BY <1>2, <1>7, <2>1 DEF After
  <2>2. CASE i = L + 1 /\ L # 0
    <3>1. After(i, L + 1) = 1 /\ s[1] = c[l][1]
      BY <1>2, <1>5, <2>2 DEF After
    <3> QED
      BY <1>2, <1>7, <2>2, <3>1
  <2>3. CASE i = L
    <3>1. i \in 1 .. L /\ After(i, L + 1) = L + 1
      BY <1>1, <1>9, <2>3 DEF After
    <3> QED
      BY <1>2, <1>8, <2>3, <3>1
  <2>4. CASE i < L
    <3>1. i \in 1 .. L /\ i # L /\ i + 1 \in 1 .. L /\ After(i, L + 1) = i + 1 /\ After(i, L) = i + 1
      BY <1>1, <1>9, <2>4 DEF After
    <3>2. nx[c[l][i]] = c[l][i + 1]
      BY <3>1 DEF Circular
    <3> QED
      BY <1>2, <1>8, <3>1, <3>2
  <2> QED
    BY <1>1, <2>1, <2>2, <2>3, <2>4
<1>10. ASSUME NEW i \in 1 .. (L + 1) PROVE pv2[s[i]] = s[Before(i, L + 1)]
  <2>1. CASE i = L + 1 /\ L = 0
    BY <1>2, <1>7, <2>1 DEF Before
  <2>2. CASE i = L + 1 /\ L # 0
    <3>1. Before(i, L + 1) = L /\ s[L] = c[l][L]
      BY <1>1, <1>2, <1>5, <2>2 DEF Before
    <3> QED
      BY <1>2, <1>7, <2>2, <3>1
  <2>3. CASE i = 1 /\ L # 0
    <3>1. i \in 1 .. L /\ Before(i, L + 1) = L + 1
      BY <1>1, <2>3 DEF Before
    <3> QED
      BY <1>2, <1>8, <2>3, <3>1
  <2>4. CASE i # 1 /\ i \in 1 .. L
    <3>1. i - 1 \in 1 .. L /\ Before(i, L + 1) = i - 1 /\ Before(i, L) = i - 1
      BY <1>1, <2>4 DEF Before
    <3>2. pv[c[l][i]] = c[l][i - 1]
      BY <2>4, <3>1 DEF Circular
    <3> QED
      BY <1>2, <1>8, <2>4, <3>1, <3>2
  <2> QED
    BY <1>1, <2>1, <2>2, <2>3, <2>4
<1>11. ASSUME NEW m \in Lists, m # l, NEW i \in 1 .. Len(c[m])
       PROVE  nx2[c[m][i]] = nx[c[m][i]] /\ pv2[c[m][i]] = pv[c[m][i]]
  <2>1. c[m][i] \in Memory /\ c[m][i] # n
    BY LaidList
  <2>2. L # 0 => c[m][i] # c[l][1] /\ c[m][i] # c[l][L]
    BY <1>5, <1>11 DEF Laid, Disjoint
  <2> QED
    BY <1>4, <2>1, <2>2 DEF RingWith
<1>12. ASSUME NEW m \in Lists, NEW i \in 1 .. Len(d[m])
       PROVE  /\ nx2[d[m][i]] = d[m][After(i, Len(d[m]))]
              /\ pv2[d[m][i]] = d[m][Before(i, Len(d[m]))]
  <2>1. CASE m # l
    BY <1>3, <1>11, <2>1 DEF Circular
  <2>2. CASE m = l
    BY <1>2, <1>3, <1>9, <1>10, <1>12, <2>2
  <2> QED
    BY <2>1, <2>2
<1> QED
    BY <1>6, <1>12 DEF Circular

\* The places of a ring without place p, in the ring with it.
With(i, p) == IF i < p THEN i ELSE i + 1

\* The neighbours of what is left: past the place that is gone.
LEMMA PastThePlace ==
    ASSUME NEW n \in Nat, n > 1, NEW p \in 1 .. n, NEW i \in 1 .. (n - 1)
    PROVE  /\ With(i, p) \in 1 .. n /\ With(i, p) # p
           /\ After(i, n - 1) \in 1 .. (n - 1) /\ Before(i, n - 1) \in 1 .. (n - 1)
           /\ Before(p, n) \in 1 .. n /\ After(p, n) \in 1 .. n
           /\ Before(p, n) # p /\ After(p, n) # p
           /\ With(After(i, n - 1), p) = IF With(i, p) = Before(p, n) THEN After(p, n)
                                         ELSE After(With(i, p), n)
           /\ With(Before(i, n - 1), p) = IF With(i, p) = After(p, n) THEN Before(p, n)
                                          ELSE Before(With(i, p), n)
BY DEF With, After, Before

\* The pointers after the node at place p has left ring l, which has others.
RingWithout(c, l, p, nx, pv, nx2, pv2) ==
    LET L == Len(c[l])
        before == c[l][Before(p, L)]
        after == c[l][After(p, L)]
    IN  /\ nx2 = [nx EXCEPT ![before] = after]
        /\ pv2 = [pv EXCEPT ![after] = before]

\* list_delete closes the ring over the gap.
LEMMA CircularWithout ==
    ASSUME NEW c, NEW hd, NEW lv, Laid(c, hd, lv), NEW nx, NEW pv, Circular(c, nx, pv),
           NEW l \in Lists, NEW p \in 1 .. Len(c[l]), Len(c[l]) > 1,
           NEW d, d = [c EXCEPT ![l] = RemoveAt(c[l], p)],
           NEW nx2, NEW pv2, RingWithout(c, l, p, nx, pv, nx2, pv2)
    PROVE  Circular(d, nx2, pv2)
<1> DEFINE s == RemoveAt(c[l], p)
           L == Len(c[l])
           b == Before(p, L)
           a == After(p, L)
<1>1. /\ c[l] \in Seq(Memory) /\ L \in Nat /\ Different(c[l])
      /\ \A i \in 1 .. L : c[l][i] \in Memory
    BY LaidList
<1>2. Len(s) = L - 1 /\ \A i \in 1 .. (L - 1) : s[i] = c[l][With(i, p)]
  <2>1. Len(s) = L - 1 /\ \A i \in 1 .. (L - 1) : s[i] = IF i < p THEN c[l][i] ELSE c[l][i + 1]
    BY <1>1, RemoveAtPlaces
  <2> QED
    BY <2>1 DEF With
<1>3. d[l] = s /\ \A m \in Lists : m # l => d[m] = c[m]
    BY DEF Laid
<1>4. nx \in [Memory -> Memory \cup {NULL}] /\ pv \in [Memory -> Memory \cup {NULL}]
    BY DEF Circular
<1>5. nx2 = [nx EXCEPT ![c[l][b]] = c[l][a]] /\ pv2 = [pv EXCEPT ![c[l][a]] = c[l][b]]
    BY DEF RingWithout
<1>6. b \in 1 .. L /\ a \in 1 .. L
  <2>1. L \in Nat /\ L > 1 /\ p \in 1 .. L
    BY <1>1
  <2> HIDE DEF L
  <2> QED
    BY <2>1 DEF Before, After
<1> HIDE DEF s, a, b
<1>7. nx2 \in [Memory -> Memory \cup {NULL}] /\ pv2 \in [Memory -> Memory \cup {NULL}]
    BY <1>1, <1>4, <1>5, <1>6
<1>8. ASSUME NEW i \in 1 .. L
      PROVE  /\ nx2[c[l][i]] = c[l][IF i = b THEN a ELSE After(i, L)]
             /\ pv2[c[l][i]] = c[l][IF i = a THEN b ELSE Before(i, L)]
  <2>1. /\ c[l][i] \in Memory
        /\ (c[l][i] = c[l][b] <=> i = b) /\ (c[l][i] = c[l][a] <=> i = a)
    BY <1>1, <1>6 DEF Different
  <2>2. nx[c[l][i]] = c[l][After(i, L)] /\ pv[c[l][i]] = c[l][Before(i, L)]
    BY DEF Circular
  <2> QED
    BY <1>4, <1>5, <2>1, <2>2
<1>9. ASSUME NEW i \in 1 .. (L - 1)
      PROVE  nx2[s[i]] = s[After(i, L - 1)] /\ pv2[s[i]] = s[Before(i, L - 1)]
  <2>1. /\ With(i, p) \in 1 .. L
        /\ After(i, L - 1) \in 1 .. (L - 1) /\ Before(i, L - 1) \in 1 .. (L - 1)
        /\ With(After(i, L - 1), p) = IF With(i, p) = b THEN a ELSE After(With(i, p), L)
        /\ With(Before(i, L - 1), p) = IF With(i, p) = a THEN b ELSE Before(With(i, p), L)
    BY <1>1, PastThePlace DEF a, b
  <2>2. s[i] = c[l][With(i, p)]
    BY <1>2
  <2>3. s[After(i, L - 1)] = c[l][With(After(i, L - 1), p)]
    BY <1>2, <2>1
  <2>4. s[Before(i, L - 1)] = c[l][With(Before(i, L - 1), p)]
    BY <1>2, <2>1
  <2> QED
    BY <1>8, <2>1, <2>2, <2>3, <2>4
<1>10. ASSUME NEW m \in Lists, m # l, NEW i \in 1 .. Len(c[m])
       PROVE  nx2[c[m][i]] = nx[c[m][i]] /\ pv2[c[m][i]] = pv[c[m][i]]
  <2>1. c[m][i] \in Memory
    BY LaidList
  <2>2. c[m][i] # c[l][a] /\ c[m][i] # c[l][b]
    BY <1>6, <1>10 DEF Laid, Disjoint
  <2> QED
    BY <1>4, <1>5, <2>1, <2>2
<1>11. ASSUME NEW m \in Lists, NEW i \in 1 .. Len(d[m])
       PROVE  /\ nx2[d[m][i]] = d[m][After(i, Len(d[m]))]
              /\ pv2[d[m][i]] = d[m][Before(i, Len(d[m]))]
  <2>1. CASE m # l
    BY <1>3, <1>10, <2>1 DEF Circular
  <2>2. CASE m = l
    BY <1>2, <1>3, <1>9, <1>11, <2>2
  <2> QED
    BY <2>1, <2>2
<1> QED
    BY <1>7, <1>11 DEF Circular

\* list_free, or the last node gone, leaves the other rings as they are.
LEMMA CircularCleared ==
    ASSUME NEW c, NEW hd, NEW lv, Laid(c, hd, lv), NEW nx, NEW pv, Circular(c, nx, pv),
           NEW l \in Lists
    PROVE  Circular([c EXCEPT ![l] = <<>>], nx, pv)
<1> DEFINE d == [c EXCEPT ![l] = <<>>]
<1>1. d[l] = <<>> /\ \A m \in Lists : m # l => d[m] = c[m]
    BY DEF Laid
<1>2. Len(d[l]) = 0
    BY <1>1
<1> HIDE DEF d
<1>3. ASSUME NEW m \in Lists, NEW i \in 1 .. Len(d[m])
      PROVE  /\ nx[d[m][i]] = d[m][After(i, Len(d[m]))]
             /\ pv[d[m][i]] = d[m][Before(i, Len(d[m]))]
  <2>1. m # l
    BY <1>2, <1>3
  <2> QED
    BY <1>1, <2>1 DEF Circular
<1>4. Circular(d, nx, pv)
    BY <1>3 DEF Circular
<1> QED
    BY <1>4 DEF d

\* The lists d of circular_linked_list.c after a step, when they were c before it.  After a call
\* that is undefined there need be none.
RingTo(c, d) ==
    /\ call'.op # "undefined" => Laid(d, head', live') /\ Circular(d, next', prev')
    /\ ListsStep(c, d, call')

\* list_init makes a ring of one node.
LEMMA RingInitStep ==
    ASSUME NEW c, Laid(c, head, live), Circular(c, next, prev),
           NEW l \in Lists, Ring!ListInit(l)
    PROVE  \E d : RingTo(c, d)
<1>1. PICK n \in Memory \ live :
          /\ live' = live \cup {n}
          /\ next' = [next EXCEPT ![n] = n] /\ prev' = [prev EXCEPT ![n] = n]
          /\ head' = [head EXCEPT ![l] = n]
          /\ call' = [op |-> "add", list |-> l, item |-> n]
    BY DEF Ring!ListInit, Ring!Noted
<1>2. c[l] = <<>>
    BY HeadOfNone DEF Ring!ListInit
<1> DEFINE d == [c EXCEPT ![l] = Append(c[l], n)]
<1>3. Laid(d, head', live')
    BY <1>1, <1>2, LaidWith
<1>4. RingWith(c, l, n, next, prev, next', prev')
  <2>1. Len(c[l]) = 0
    BY <1>2
  <2>2. next' = [next EXCEPT ![n] = n, ![n] = n] /\ prev' = [prev EXCEPT ![n] = n, ![n] = n]
    BY <1>1 DEF Circular
  <2> QED
    BY <2>1, <2>2 DEF RingWith
<1>5. Circular(d, next', prev')
    BY <1>1, <1>4, CircularWith
<1>6. AddStep(c, d, call')
    BY <1>1 DEF AddStep
<1> QED
    BY <1>3, <1>5, <1>6 DEF RingTo, ListsStep

\* list_add puts its node between the last, which the head's prev names, and the head.
LEMMA RingAddStep ==
    ASSUME NEW c, Laid(c, head, live), Circular(c, next, prev),
           NEW l \in Lists, Ring!ListAdd(l)
    PROVE  \E d : RingTo(c, d)
<1>1. PICK n \in Memory \ live :
          /\ live' = live \cup {n} /\ Ring!Linked(l, n) /\ head' = head
          /\ call' = [op |-> "add", list |-> l, item |-> n]
    BY DEF Ring!ListAdd, Ring!Noted
<1>2. c[l] \in Seq(Memory) /\ Len(c[l]) \in Nat /\ c[l] # <<>> /\ head[l] = At(c[l], 1)
    BY HeadOfNone, LaidList DEF Ring!ListAdd
<1> DEFINE d == [c EXCEPT ![l] = Append(c[l], n)]
           L == Len(c[l])
<1>3. L # 0 /\ 1 \in 1 .. L
    BY <1>2, EmptySeq
<1>4. head[l] = c[l][1]
    BY <1>2, <1>3 DEF At
<1>5. prev[head[l]] = c[l][L]
    BY <1>3, <1>4 DEF Circular, Before
<1>6. Laid(d, head', live')
  <2>1. [head EXCEPT ![l] = head[l]] = head
    BY DEF Laid
  <2> QED
    BY <1>1, <1>2, <2>1, LaidWith
<1>7. RingWith(c, l, n, next, prev, next', prev')
    BY <1>1, <1>3, <1>4, <1>5 DEF RingWith, Ring!Linked
<1>8. Circular(d, next', prev')
    BY <1>1, <1>7, CircularWith
<1>9. AddStep(c, d, call')
    BY <1>1 DEF AddStep
<1> QED
    BY <1>6, <1>8, <1>9 DEF RingTo, ListsStep

\* A node that is allocated is in a list.
LEMMA InAList ==
    ASSUME NEW c, NEW hd, NEW lv, Laid(c, hd, lv), NEW n \in lv
    PROVE  \E m \in Lists : \E p \in 1 .. Len(c[m]) : c[m][p] = n
BY DEF Laid, Held

\* A ring whose node points to itself has no other.
LEMMA AloneInRing ==
    ASSUME NEW c, NEW hd, NEW lv, Laid(c, hd, lv), NEW nx, NEW pv, Circular(c, nx, pv),
           NEW l \in Lists, NEW p \in 1 .. Len(c[l])
    PROVE  nx[c[l][p]] = c[l][p] <=> Len(c[l]) = 1
<1> DEFINE L == Len(c[l])
<1>1. L \in Nat /\ p \in 1 .. L /\ Different(c[l])
    BY LaidList
<1>2. nx[c[l][p]] = c[l][After(p, L)]
    BY DEF Circular
<1> HIDE DEF L
<1>3. After(p, L) \in 1 .. L /\ (After(p, L) = p <=> L = 1)
    BY <1>1 DEF After
<1>4. c[l][After(p, L)] = c[l][p] <=> After(p, L) = p
    BY <1>1, <1>3 DEF Different, L
<1> QED
    BY <1>2, <1>3, <1>4 DEF L

\* list_delete of the only node of a ring.
LEMMA RingDeleteOnly ==
    ASSUME NEW c, Laid(c, head, live), Circular(c, next, prev),
           NEW l \in Lists, NEW n \in Memory, Ring!DeleteOnly(l, n)
    PROVE  \E d : RingTo(c, d)
<1>1. PICK m \in Lists : \E p \in 1 .. Len(c[m]) : c[m][p] = n
    BY InAList DEF Ring!DeleteOnly
<1>2. PICK p \in 1 .. Len(c[m]) : c[m][p] = n
    BY <1>1
<1>3. Len(c[m]) = 1 /\ p = 1
    BY <1>2, AloneInRing DEF Ring!DeleteOnly
<1>4. head[m] = n
    BY <1>2, <1>3, LaidList DEF At
<1>5. CASE head[l] # n
  <2>1. call' = [op |-> "undefined", list |-> l, item |-> n]
    BY <1>5 DEF Ring!DeleteOnly, Ring!Noted
  <2>2. m \in Lists \ {l}
    BY <1>4, <1>5
  <2>3. call'.op = "undefined" /\ call'.list = l /\ call'.item = n
    BY <2>1
  <2>4. UndefinedStep(c, call')
    BY <1>2, <2>2, <2>3 DEF UndefinedStep
  <2> QED
    BY <2>3, <2>4 DEF RingTo, ListsStep
<1>6. CASE head[l] = n
  <2>1. /\ call' = [op |-> "delete", list |-> l, item |-> n]
        /\ head' = [head EXCEPT ![l] = NULL] /\ live' = live \ {n}
        /\ next' = next /\ prev' = prev
    BY <1>6 DEF Ring!DeleteOnly, Ring!Noted
  <2>2. l = m
    <3>1. head[l] = At(c[l], 1) /\ n # NULL
      BY LaidList, MemoryFinite
    <3>2. 1 \in 1 .. Len(c[l]) /\ c[l][1] = n
      BY <1>6, <3>1 DEF At
    <3> QED
      BY <1>2, <3>2 DEF Laid, Disjoint
  <2> DEFINE d == [c EXCEPT ![l] = <<>>]
  <2>3. c[l] \in Seq(Memory) /\ Len(c[l]) = 1 /\ c[l][1] = n /\ Different(c[l])
    BY <1>2, <1>3, <2>2, LaidList
  <2>4. ToSet(c[l]) = {n}
    BY <2>3 DEF ToSet
  <2>5. Laid(d, head', live')
    BY <2>1, <2>4, LaidCleared
  <2>6. Circular(d, next', prev')
    BY <2>1, CircularCleared
  <2>7. Contents!RemoveFirst(c[l], n) = <<>>
    <3>1. 1 \in 1 .. Len(c[l]) /\ Contents!RemoveFirst(c[l], c[l][1]) = RemoveAt(c[l], 1)
      BY <2>3, RemoveFirstAt
    <3>2. Len(RemoveAt(c[l], 1)) = 0 /\ RemoveAt(c[l], 1) \in Seq(Memory)
      <4>1. Len(RemoveAt(c[l], 1)) = Len(c[l]) - 1
        <5>1. c[l] \in Seq(Memory) /\ Len(c[l]) \in Nat /\ 1 \in 1 .. Len(c[l])
          BY <3>1, LaidList
        <5> QED
          BY <5>1, RemoveAtPlaces
      <4>2. RemoveAt(c[l], 1) \in Seq(Memory)
        BY <2>3, <3>1, RemoveAtIn
      <4> QED
        BY <2>3, <4>1, <4>2
    <3>3. RemoveAt(c[l], 1) = <<>>
      BY <3>2, EmptySeq
    <3> QED
      BY <2>3, <3>1, <3>3
  <2>8. DeleteStep(c, d, call')
    BY <2>1, <2>7 DEF DeleteStep
  <2> QED
    BY <2>5, <2>6, <2>8 DEF RingTo, ListsStep
<1> QED
    BY <1>5, <1>6

\* A node leaves a ring that has others.
LEMMA RingUnlinked ==
    ASSUME NEW c, Laid(c, head, live), Circular(c, next, prev),
           NEW l \in Lists, NEW p \in 1 .. Len(c[l]), Len(c[l]) > 1,
           Ring!Unlinked(c[l][p], c[l][Before(p, Len(c[l]))]),
           head' = [head EXCEPT ![l] = IF p = 1 THEN next[c[l][p]] ELSE head[l]],
           call' = [op |-> "delete", list |-> l, item |-> c[l][p]]
    PROVE  \E d : RingTo(c, d)
<1> DEFINE L == Len(c[l])
           t == RemoveAt(c[l], p)
           d == [c EXCEPT ![l] = t]
<1>1. /\ c[l] \in Seq(Memory) /\ L \in Nat /\ Different(c[l]) /\ head[l] = At(c[l], 1)
      /\ \A i \in 1 .. L : c[l][i] \in Memory
    BY LaidList
<1>2. next[c[l][p]] = c[l][After(p, L)]
    BY DEF Circular
<1>3. RingWithout(c, l, p, next, prev, next', prev')
    BY <1>2 DEF Ring!Unlinked, RingWithout
<1>4. Circular(d, next', prev')
    BY <1>3, CircularWithout
<1>5. At(t, 1) = IF p = 1 THEN next[c[l][p]] ELSE head[l]
  <2>1. Len(t) = L - 1 /\ \A i \in 1 .. (L - 1) : t[i] = IF i < p THEN c[l][i] ELSE c[l][i + 1]
    BY <1>1, RemoveAtPlaces
  <2>2. 1 \in 1 .. (L - 1) /\ 1 \in 1 .. L /\ (p # 1 => 1 < p) /\ (p = 1 => After(p, L) = 1 + 1)
    BY <1>1 DEF After
  <2> HIDE DEF t
  <2>3. At(t, 1) = t[1]
    BY <2>1, <2>2 DEF At
  <2>4. CASE p = 1
    BY <1>2, <2>1, <2>2, <2>3, <2>4
  <2>5. CASE p # 1
    BY <1>1, <2>1, <2>2, <2>3, <2>5 DEF At
  <2> QED
    BY <2>4, <2>5
<1>6. Laid(d, head', live')
  <2>1. Laid(d, [head EXCEPT ![l] = At(t, 1)], live \ {c[l][p]})
    BY LaidWithout
  <2> HIDE DEF t
  <2> QED
    BY <1>5, <2>1 DEF Ring!Unlinked
<1>7. t = Contents!RemoveFirst(c[l], c[l][p])
    BY <1>1, RemoveFirstAt
<1>8. DeleteStep(c, d, call')
    BY <1>1, <1>7 DEF DeleteStep
<1> QED
    BY <1>4, <1>6, <1>8 DEF RingTo, ListsStep

\* list_delete of the head of a ring that has other nodes.
LEMMA RingDeleteHead ==
    ASSUME NEW c, Laid(c, head, live), Circular(c, next, prev),
           NEW l \in Lists, NEW n \in Memory, Ring!DeleteHead(l, n)
    PROVE  \E d : RingTo(c, d)
<1>1. head[l] = At(c[l], 1) /\ n # NULL /\ Len(c[l]) \in Nat
    BY LaidList, MemoryFinite
<1>2. 1 \in 1 .. Len(c[l]) /\ c[l][1] = n
    BY <1>1 DEF At, Ring!DeleteHead
<1>3. Len(c[l]) > 1
  <2>1. next[c[l][1]] = c[l][1] <=> Len(c[l]) = 1
    BY <1>2, AloneInRing
  <2>2. next[c[l][1]] # c[l][1]
    BY <1>2 DEF Ring!DeleteHead
  <2>3. \A k \in Nat : 1 \in 1 .. k /\ k # 1 => k > 1
    OBVIOUS
  <2> QED
    BY <1>1, <1>2, <2>1, <2>2, <2>3
<1>4. prev[n] = c[l][Before(1, Len(c[l]))]
    BY <1>2 DEF Circular
<1>5. /\ Ring!Unlinked(c[l][1], c[l][Before(1, Len(c[l]))])
      /\ head' = [head EXCEPT ![l] = next[c[l][1]]]
      /\ call' = [op |-> "delete", list |-> l, item |-> c[l][1]]
    BY <1>2, <1>4 DEF Ring!DeleteHead, Ring!Noted
<1> QED
    BY <1>2, <1>3, <1>5, RingUnlinked

\* list_delete of another node, or of one of another list.
LEMMA RingDeleteInside ==
    ASSUME NEW c, Laid(c, head, live), Circular(c, next, prev),
           NEW l \in Lists, NEW n \in Memory, Ring!DeleteInside(l, n)
    PROVE  \E d : RingTo(c, d)
<1> DEFINE L == Len(c[l])
<1>1. /\ c[l] \in Seq(Memory) /\ L \in Nat /\ Different(c[l]) /\ head[l] = At(c[l], 1)
      /\ \A i \in 1 .. L : c[l][i] \in Memory
    BY LaidList
<1>2. Ring!ToSet(Ring!Ring(l)) = {c[l][i] : i \in 1 .. L}
    BY <1>1, RingIs DEF Ring!ToSet
<1>3. call' = [op |-> "delete", list |-> l, item |-> n] /\ head' = head
    BY DEF Ring!DeleteInside, Ring!Noted
<1>4. CASE n \in Ring!ToSet(Ring!Ring(l))
  <2>1. PICK p \in 1 .. L : c[l][p] = n
    BY <1>2, <1>4
  <2>2. p # 1
    BY <1>1, <2>1 DEF At, Ring!DeleteInside
  <2>3. L > 1
    BY <1>1, <2>2
  <2>4. PICK q \in 1 .. L : next[c[l][q]] = n /\ Ring!Unlinked(n, c[l][q])
    BY <1>2, <1>4 DEF Ring!DeleteInside
  <2>5. q = Before(p, L)
    <3>1. c[l][After(q, L)] = c[l][p]
      BY <2>1, <2>4 DEF Circular
    <3>2. After(q, L) \in 1 .. L
      BY <1>1, <2>4 DEF After
    <3>3. After(q, L) = p
      BY <1>1, <3>1, <3>2 DEF Different
    <3> QED
      BY <1>1, <2>2, <2>4, <3>3 DEF After, Before
  <2>6. head' = [head EXCEPT ![l] = head[l]]
    BY <1>3 DEF Laid
  <2>7. Ring!Unlinked(c[l][p], c[l][Before(p, L)])
    BY <2>1, <2>4, <2>5
  <2>8. head' = [head EXCEPT ![l] = IF p = 1 THEN next[c[l][p]] ELSE head[l]]
    BY <2>2, <2>6
  <2>9. call' = [op |-> "delete", list |-> l, item |-> c[l][p]]
    BY <1>3, <2>1
  <2> QED
    BY <2>3, <2>7, <2>8, <2>9, RingUnlinked
<1>5. CASE n \notin Ring!ToSet(Ring!Ring(l))
  <2>1. next' = next /\ prev' = prev /\ live' = live
    BY <1>5 DEF Ring!DeleteInside
  <2>2. Contents!RemoveFirst(c[l], n) = c[l]
    BY <1>2, <1>5, RemoveFirstNot
  <2>3. [c EXCEPT ![l] = c[l]] = c
    BY DEF Laid
  <2>4. DeleteStep(c, c, call')
    BY <1>3, <2>2, <2>3 DEF DeleteStep
  <2> QED
    BY <1>3, <2>1, <2>4 DEF RingTo, ListsStep
<1> QED
    BY <1>4, <1>5

\* list_free
LEMMA RingFreeStep ==
    ASSUME NEW c, Laid(c, head, live), Circular(c, next, prev),
           NEW l \in Lists, Ring!ListFree(l)
    PROVE  \E d : RingTo(c, d)
<1> DEFINE d == [c EXCEPT ![l] = <<>>]
<1>1. /\ live' = live \ ToSet(c[l]) /\ head' = [head EXCEPT ![l] = NULL]
      /\ next' = next /\ prev' = prev /\ call' = [op |-> "free", list |-> l]
    BY RingIs DEF Ring!ListFree, Ring!Note, Ring!ToSet, ToSet
<1>2. Laid(d, head', live')
    BY <1>1, LaidCleared
<1>3. Circular(d, next', prev')
    BY <1>1, CircularCleared
<1>4. FreeStep(c, d, call')
    BY <1>1 DEF FreeStep
<1> QED
    BY <1>2, <1>3, <1>4 DEF RingTo, ListsStep

\* Every call of circular_linked_list.c does what is promised, and keeps the rings laid out as
\* long as it is defined.
LEMMA RingStep ==
    ASSUME NEW c, Laid(c, head, live), Circular(c, next, prev), Ring!Next
    PROVE  \E d : RingTo(c, d)
<1>1. ASSUME NEW l \in Lists, Ring!UseEmptied(l) PROVE RingTo(c, c)
  <2>1. c[l] = <<>> /\ call' = [op |-> "undefined", list |-> l]
    BY <1>1, HeadOfNone DEF Ring!UseEmptied, Ring!Note
  <2>2. call'.op = "undefined" /\ call'.list = l
    BY <2>1
  <2>3. UndefinedStep(c, call')
    BY <2>1, <2>2 DEF UndefinedStep
  <2> QED
    BY <2>2, <2>3 DEF RingTo, ListsStep
<1>2. ASSUME NEW l \in Lists, NEW n \in Memory, Ring!DeleteEmptied(l, n) PROVE RingTo(c, c)
  <2>1. c[l] = <<>> /\ call' = [op |-> "undefined", list |-> l, item |-> n]
    BY <1>2, HeadOfNone DEF Ring!DeleteEmptied, Ring!Noted
  <2>2. call'.op = "undefined" /\ call'.list = l
    BY <2>1
  <2>3. UndefinedStep(c, call')
    BY <2>1, <2>2 DEF UndefinedStep
  <2> QED
    BY <2>2, <2>3 DEF RingTo, ListsStep
<1>3. ASSUME NEW l \in Lists, Ring!Refuse(l) PROVE RingTo(c, c)
  <2>1. head' = head /\ next' = next /\ prev' = prev /\ live' = live
        /\ call' = [op |-> "refused", list |-> l]
    BY <1>3 DEF Ring!Refuse, Ring!Note
  <2>2. RefusedStep(c, c, call')
    BY <2>1 DEF RefusedStep
  <2> QED
    BY <2>1, <2>2 DEF RingTo, ListsStep
<1>4. PICK l \in Lists :
          \/ Ring!ListInit(l) \/ Ring!ListAdd(l) \/ Ring!UseEmptied(l)
          \/ Ring!Refuse(l) \/ Ring!ListFree(l)
          \/ \E n \in Memory : Ring!DeleteOnly(l, n) \/ Ring!DeleteHead(l, n)
                               \/ Ring!DeleteInside(l, n) \/ Ring!DeleteEmptied(l, n)
    BY DEF Ring!Next
<1> QED
    BY <1>1, <1>2, <1>3, <1>4, RingInitStep, RingAddStep, RingFreeStep, RingDeleteOnly,
       RingDeleteHead, RingDeleteInside

----------------------------------------------------------------------------
(***************************************************************************)
(* The invariant of the lists: linked_list.c's are always laid out,        *)
(* circular_linked_list.c's as long as no call was undefined.              *)
(***************************************************************************)
ListsInv ==
    /\ used = "linked" => \E c : Laid(c, head, live) /\ Linear(c, next)
    /\ used = "ring" /\ call.op # "undefined" =>
          \E c : Laid(c, head, live) /\ Circular(c, next, prev)

\* All lists are empty at the start.
LEMMA InitLists == ContainersInit => ListsInv
<1> SUFFICES ASSUME ContainersInit PROVE ListsInv
    OBVIOUS
<1> DEFINE c == [l \in Lists |-> <<>>]
<1>1. /\ head = [l \in Lists |-> NULL] /\ live = {}
      /\ next = [n \in Memory |-> NULL] /\ prev = [n \in Memory |-> NULL]
    BY DEF ContainersInit, Ring!Init
<1>2. c \in [Lists -> Seq(Memory)] /\ \A l \in Lists : c[l] = <<>> /\ Len(c[l]) = 0
    OBVIOUS
<1> HIDE DEF c
<1>3. \A l \in Lists : At(c[l], 1) = NULL
    BY <1>2 DEF At
<1>4. Held(c) = {} /\ Disjoint(c)
    BY <1>2 DEF Held, Disjoint
<1>5. Laid(c, head, live)
    BY <1>1, <1>2, <1>3, <1>4 DEF Laid
<1>6. Linear(c, next) /\ Circular(c, next, prev)
    BY <1>1, <1>2 DEF Linear, Circular
<1> QED
    BY <1>5, <1>6 DEF ListsInv

\* Every step of the run keeps the lists laid out.
LEMMA NextLists ==
    ListsInv /\ [ContainersNext]_<<used, vars, array, heap, db>> => ListsInv'
<1> SUFFICES ASSUME ListsInv, [ContainersNext]_<<used, vars, array, heap, db>>
             PROVE  ListsInv'
    OBVIOUS
<1>1. CASE OnHeap(used = "linked" /\ Linked!Next /\ UNCHANGED prev)
  <2>1. used' = used /\ used = "linked" /\ Linked!Next
    BY <1>1 DEF OnHeap
  <2>2. PICK c : Laid(c, head, live) /\ Linear(c, next)
    BY <2>1 DEF ListsInv
  <2>3. PICK d : LinkedTo(c, d)
    BY <2>1, <2>2, LinkedStep
  <2> QED
    BY <2>1, <2>3 DEF ListsInv, LinkedTo
<1>2. CASE OnHeap(used = "ring" /\ Ring!Next)
  <2>1. used' = used /\ used = "ring" /\ Ring!Next
    BY <1>2 DEF OnHeap
  <2>2. call.op # "undefined"
    BY <2>1 DEF Ring!Next, Ring!Running, Ring!ListInit, Ring!ListAdd, Ring!UseEmptied,
                Ring!Refuse,
       Ring!ListFree, Ring!DeleteOnly, Ring!DeleteHead, Ring!DeleteInside, Ring!DeleteEmptied
  <2>3. PICK c : Laid(c, head, live) /\ Circular(c, next, prev)
    BY <2>1, <2>2 DEF ListsInv
  <2>4. PICK d : RingTo(c, d)
    BY <2>1, <2>3, RingStep
  <2> QED
    BY <2>1, <2>4 DEF ListsInv, RingTo
<1>3. CASE OnMap(Next) \/ OnArray(Array!Next) \/ OnPeople(Database!Next)
  <2>1. UNCHANGED <<used, head, next, prev, live, call>>
    BY <1>3 DEF OnMap, OnArray, OnPeople, heap
  <2> QED
    BY <2>1 DEF ListsInv
<1>4. CASE UNCHANGED <<used, vars, array, heap, db>>
  <2>1. UNCHANGED <<used, head, next, prev, live, call>>
    BY <1>4 DEF heap
  <2> QED
    BY <2>1 DEF ListsInv
<1> QED
    BY <1>1, <1>2, <1>3, <1>4 DEF ContainersNext

\* kth_last of a list that is laid out.
LEMMA KthOfLaid ==
    ASSUME NEW c, Laid(c, head, live), Linear(c, next)
    PROVE  Linked!KthFromTheEnd
<1> SUFFICES ASSUME NEW l \in Lists, NEW k \in 0 .. Linked!Cardinality(Memory), head[l] # NULL
             PROVE  Linked!KthLast(l, k) =
                      IF k \in 1 .. (Len(Linked!Chain(head[l])) - 1)
                      THEN Linked!Chain(head[l])[Len(Linked!Chain(head[l])) - k + 1] ELSE NULL
    BY DEF Linked!KthFromTheEnd
<1> DEFINE s == c[l]
           L == Len(s)
<1>1. k \in Nat
  <2>1. Linked!Cardinality(Memory) \in Nat
    BY MemoryCounted, MemoryFinite, FS_CardinalityType
  <2> QED
    BY <2>1
<1>2. s \in Seq(Memory) /\ L \in Nat /\ s # <<>> /\ \A i \in 1 .. L : s[i] \in Memory
    BY LaidList, HeadOfNone
<1>3. Linked!Chain(head[l]) = s
    BY ChainIs DEF Linked!Chain
<1>4. NULL \notin Memory
    BY MemoryFinite
<1> HIDE DEF s
<1>5. Linked!KthLast(l, k) =
        IF Linked!Ahead(head[l], k) = NULL THEN NULL
        ELSE Linked!Ahead(head[l], Len(Linked!Chain(Linked!Ahead(head[l], k))))
    BY DEF Linked!KthLast
<1>6. \A j \in Nat : Linked!Ahead(head[l], j) = At(s, j + 1)
    BY <1>2, <1>3 DEF Linked!Ahead, At
<1>7. CASE k >= L
  <2>1. At(s, k + 1) = NULL /\ k \notin 1 .. (L - 1)
    BY <1>1, <1>2, <1>7 DEF At
  <2> QED
    BY <1>1, <1>3, <1>5, <1>6, <2>1
<1>8. CASE k < L
  <2>1. k + 1 \in 1 .. L /\ k + 1 \in 1 .. (L + 1) /\ L - k \in Nat
    BY <1>1, <1>2, <1>8
  <2>2. At(s, k + 1) = s[k + 1] /\ s[k + 1] # NULL
    BY <1>2, <1>4, <2>1 DEF At
  <2>3. Len(Linked!Chain(At(s, k + 1))) = L - k
    <3>1. Linked!Along(next, At(s, k + 1)) = SubSeq(s, k + 1, L)
      BY <2>1, ChainIs DEF s
    <3>2. Len(SubSeq(s, k + 1, L)) = L - k
      BY <1>1, <1>2, <2>1
    <3> QED
      BY <3>1, <3>2 DEF Linked!Chain
  <2>4. Linked!KthLast(l, k) = At(s, L - k + 1)
    BY <1>1, <1>5, <1>6, <2>1, <2>2, <2>3
  <2>5. L - k + 1 \in 1 .. L <=> k \in 1 .. (L - 1)
    BY <1>1, <1>2, <1>8
  <2> QED
    BY <1>3, <2>4, <2>5 DEF At
<1> QED
    BY <1>1, <1>2, <1>7, <1>8

\* kth_last finds the k-th node from the end of every list that any sequence of calls can
\* build, for every k from 1 up to the length less one, and NULL for the others.
THEOREM KthIsFound == ContainersSpec => []KthFromTheEnd
<1>1. ListsInv => KthFromTheEnd
  <2> SUFFICES ASSUME ListsInv, used = "linked" PROVE Linked!KthFromTheEnd
    BY DEF KthFromTheEnd
  <2>1. PICK c : Laid(c, head, live) /\ Linear(c, next)
    BY DEF ListsInv
  <2> QED
    BY <2>1, KthOfLaid
<1> QED
    BY <1>1, InitLists, NextLists, PTL DEF ContainersSpec

----------------------------------------------------------------------------
(***************************************************************************)
(* The array, and the table of people.                                     *)
(***************************************************************************)

\* The first n cells of an array.
Cells(f, n) == [k \in 1 .. n |-> f[k - 1]]

\* They are a sequence.
LEMMA CellsAre ==
    ASSUME NEW f, NEW n \in Nat
    PROVE  \E S : /\ Cells(f, n) \in Seq(S) /\ Len(Cells(f, n)) = n
                  /\ \A i \in 0 .. n : f[i] \in S
                  /\ \A k \in 1 .. n : Cells(f, n)[k] = f[k - 1]
<1> DEFINE S == {f[i] : i \in 0 .. n}
<1>1. \A k \in 1 .. n : f[k - 1] \in S
    OBVIOUS
<1> HIDE DEF S
<1>2. Cells(f, n) \in Seq(S) /\ Len(Cells(f, n)) = n
    BY <1>1 DEF Cells
<1>3. \A k \in 1 .. n : Cells(f, n)[k] = f[k - 1]
    BY DEF Cells
<1>4. \A i \in 0 .. n : f[i] \in S
    BY DEF S
<1> QED
    BY <1>2, <1>3, <1>4

\* Sequences of the same length with the same items, whatever those are.
LEMMA SameItems ==
    ASSUME NEW S, NEW T, NEW s \in Seq(S), NEW t \in Seq(T), Len(s) = Len(t),
           \A i \in 1 .. Len(s) : s[i] = t[i]
    PROVE  s = t
<1>1. Len(s) \in Nat /\ s = [i \in 1 .. Len(s) |-> s[i]] /\ t = [i \in 1 .. Len(t) |-> t[i]]
    BY LenProperties
<1> QED
    BY <1>1

\* One cell more.
LEMMA CellsWith ==
    ASSUME NEW f, NEW g, NEW n \in Nat, \A i \in 0 .. (n - 1) : g[i] = f[i]
    PROVE  Cells(g, n + 1) = Append(Cells(f, n), g[n])
<1>1. PICK S : /\ Cells(f, n) \in Seq(S) /\ Len(Cells(f, n)) = n
               /\ \A k \in 1 .. n : Cells(f, n)[k] = f[k - 1]
    BY CellsAre
<1>2. PICK T : /\ Cells(g, n + 1) \in Seq(T) /\ Len(Cells(g, n + 1)) = n + 1
               /\ \A k \in 1 .. (n + 1) : Cells(g, n + 1)[k] = g[k - 1]
  <2>1. n + 1 \in Nat
    OBVIOUS
  <2> QED
    BY <2>1, CellsAre
<1> DEFINE t == Append(Cells(f, n), g[n])
<1>3. Cells(f, n) \in Seq(S \cup {g[n]}) /\ g[n] \in S \cup {g[n]}
  <2>1. \A k \in 1 .. n : Cells(f, n)[k] \in S
    BY <1>1, ElementOfSeq
  <2>2. Cells(f, n) = [k \in 1 .. n |-> Cells(f, n)[k]]
    BY DEF Cells
  <2> QED
    BY <2>1, <2>2
<1>4. /\ t \in Seq(S \cup {g[n]}) /\ Len(t) = n + 1 /\ t[n + 1] = g[n]
      /\ \A k \in 1 .. n : t[k] = Cells(f, n)[k]
    BY <1>1, <1>3, AppendProperties
<1> HIDE DEF t
<1>5. ASSUME NEW k \in 1 .. (n + 1) PROVE Cells(g, n + 1)[k] = t[k]
  <2>1. CASE k = n + 1
    BY <1>2, <1>4, <2>1
  <2>2. CASE k # n + 1
    <3>1. k \in 1 .. n /\ k - 1 \in 0 .. (n - 1)
      BY <2>2
    <3>2. t[k] = f[k - 1]
      BY <1>1, <1>4, <3>1
    <3>3. Cells(g, n + 1)[k] = g[k - 1] /\ g[k - 1] = f[k - 1]
      BY <1>2, <3>1
    <3> QED
      BY <3>2, <3>3
  <2> QED
    BY <2>1, <2>2
<1>6. Cells(g, n + 1) = t
    BY <1>2, <1>4, <1>5, SameItems
<1> QED
    BY <1>6 DEF t

\* The cells behind place p moved up.
LEMMA CellsWithout ==
    ASSUME NEW f, NEW g, NEW n \in Nat, NEW p \in 1 .. n,
           \A i \in 0 .. (n - 2) : g[i] = IF p - 1 <= i THEN f[i + 1] ELSE f[i]
    PROVE  Cells(g, n - 1) = RemoveAt(Cells(f, n), p)
<1>1. PICK S : /\ Cells(f, n) \in Seq(S) /\ Len(Cells(f, n)) = n
               /\ \A k \in 1 .. n : Cells(f, n)[k] = f[k - 1]
    BY CellsAre
<1>2. n - 1 \in Nat
    OBVIOUS
<1>3. PICK T : /\ Cells(g, n - 1) \in Seq(T) /\ Len(Cells(g, n - 1)) = n - 1
               /\ \A k \in 1 .. (n - 1) : Cells(g, n - 1)[k] = g[k - 1]
    BY <1>2, CellsAre
<1> DEFINE t == RemoveAt(Cells(f, n), p)
<1>4. t \in Seq(S)
    BY <1>1, RemoveAtIn
<1>5. /\ Len(t) = n - 1
      /\ \A k \in 1 .. (n - 1) : t[k] = IF k < p THEN Cells(f, n)[k] ELSE Cells(f, n)[k + 1]
    BY <1>1, RemoveAtPlaces
<1> HIDE DEF t
<1>6. ASSUME NEW k \in 1 .. (n - 1) PROVE Cells(g, n - 1)[k] = t[k]
  <2>1. /\ k - 1 \in 0 .. (n - 2) /\ k \in 1 .. n /\ k + 1 \in 1 .. n /\ (k + 1) - 1 = k
        /\ (k - 1) + 1 = k /\ (k < p <=> ~(p - 1 <= k - 1))
    OBVIOUS
  <2>2. Cells(g, n - 1)[k] = IF p - 1 <= k - 1 THEN f[k] ELSE f[k - 1]
    BY <1>3, <2>1
  <2>3. Cells(f, n)[k] = f[k - 1] /\ Cells(f, n)[k + 1] = f[k]
    BY <1>1, <2>1
  <2> QED
    BY <1>5, <2>1, <2>2, <2>3
<1>7. Cells(g, n - 1) = t
    BY <1>3, <1>4, <1>5, <1>6, SameItems
<1> QED
    BY <1>7 DEF t

\* The last cell given up.
LEMMA CellsButLast ==
    ASSUME NEW f, NEW g, NEW n \in Nat \ {0}, \A i \in 0 .. (n - 2) : g[i] = f[i]
    PROVE  Cells(g, n - 1) = Front(Cells(f, n)) /\ Cells(f, n) # <<>>
<1>1. PICK S : /\ Cells(f, n) \in Seq(S) /\ Len(Cells(f, n)) = n
               /\ \A k \in 1 .. n : Cells(f, n)[k] = f[k - 1]
    BY CellsAre
<1>2. n - 1 \in Nat
    OBVIOUS
<1>3. PICK T : /\ Cells(g, n - 1) \in Seq(T) /\ Len(Cells(g, n - 1)) = n - 1
               /\ \A k \in 1 .. (n - 1) : Cells(g, n - 1)[k] = g[k - 1]
    BY <1>2, CellsAre
<1> DEFINE t == Front(Cells(f, n))
<1>4. /\ t \in Seq(S) /\ Len(t) = n - 1
      /\ \A k \in 1 .. (n - 1) : t[k] = Cells(f, n)[k]
    BY <1>1, <1>2 DEF Front
<1> HIDE DEF t
<1>5. ASSUME NEW k \in 1 .. (n - 1) PROVE Cells(g, n - 1)[k] = t[k]
  <2>1. k - 1 \in 0 .. (n - 2) /\ k \in 1 .. n
    OBVIOUS
  <2> QED
    BY <1>1, <1>3, <1>4, <2>1
<1>6. Cells(g, n - 1) = t
    BY <1>3, <1>4, <1>5, SameItems
<1> QED
    BY <1>1, <1>6, EmptySeq DEF t

----------------------------------------------------------------------------
(***************************************************************************)
(* The calls that Items.tla promises, each by what it does to the items.   *)
(***************************************************************************)
Things == Numbers \cup Memory \cup Names

\* A call that makes list l the items s.
Becomes(l, s) == AllItems' = [AllItems EXCEPT ![l] = s]

\* An item more.
LEMMA PromisedAdd ==
    ASSUME NEW l \in ListsOf, NEW x \in Things,
           LastCall' = [op |-> "add", list |-> l, item |-> x],
           Becomes(l, Append(AllItems[l], x))
    PROVE  Contents!Next
<1>1. Contents!Add(l, x)
    BY DEF Contents!Add, Contents!Becomes, Becomes
<1> QED
    BY <1>1 DEF Contents!Next, Things

\* An item less, by its name.
LEMMA PromisedDelete ==
    ASSUME NEW l \in ListsOf, NEW x \in Things,
           LastCall' = [op |-> "delete", list |-> l, item |-> x],
           Becomes(l, Contents!RemoveFirst(AllItems[l], x))
    PROVE  Contents!Next
<1>1. Contents!Delete(l, x)
    BY DEF Contents!Delete, Contents!Becomes, Becomes
<1> QED
    BY <1>1 DEF Contents!Next, Things

\* An item less, by its place.
LEMMA PromisedDeleteAt ==
    ASSUME NEW l \in ListsOf, NEW i \in DOMAIN AllItems[l],
           LastCall' = [op |-> "deleteAt", list |-> l, at |-> i],
           Becomes(l, RemoveAt(AllItems[l], i))
    PROVE  Contents!Next
<1>1. Contents!DeleteAt(l, i)
    BY DEF Contents!DeleteAt, Contents!Becomes, Becomes, Contents!RemoveAt, RemoveAt
<1> QED
    BY <1>1 DEF Contents!Next

\* The last item gone, for an index outside.
LEMMA PromisedOutside ==
    ASSUME NEW l \in ListsOf, NEW i, i \notin DOMAIN AllItems[l],
           LastCall' = [op |-> "deleteAt", list |-> l, at |-> i],
           AllItems[l] # <<>>, Becomes(l, Front(AllItems[l]))
    PROVE  Contents!Next
<1>1. LastCall'.op = "deleteAt" /\ LastCall'.list = l /\ LastCall'.at = i
    OBVIOUS
<1>2. Contents!DeleteOutside(l)
    BY <1>1 DEF Contents!DeleteOutside, Contents!Becomes, Becomes, Contents!Front, Front
<1> QED
    BY <1>2 DEF Contents!Next

\* An item, or nothing, is looked up.
LEMMA PromisedGet ==
    ASSUME NEW l \in ListsOf, NEW i,
           LastCall' = [op |-> "get", list |-> l, at |-> i,
                        ret |-> IF i \in DOMAIN AllItems[l] THEN AllItems[l][i] ELSE 0],
           AllItems' = AllItems
    PROVE  Contents!Next
<1>1. LastCall'.op = "get" /\ LastCall'.at = i
    OBVIOUS
<1>2. Contents!Get(l, LastCall'.at)
    BY <1>1 DEF Contents!Get
<1> QED
    BY <1>1, <1>2 DEF Contents!Next

\* An item's place is looked up.
LEMMA PromisedSearch ==
    ASSUME NEW l \in ListsOf, NEW x \in Things,
           LastCall' = [op |-> "search", list |-> l, item |-> x,
                        ret |-> IF Contents!Contains(AllItems[l], x)
                                THEN Contents!SelectInSeq(AllItems[l], LAMBDA y : y = x) - 1
                                ELSE -1],
           AllItems' = AllItems
    PROVE  Contents!Next
<1>1. Contents!Search(l, x)
    BY DEF Contents!Search
<1> QED
    BY <1>1 DEF Contents!Next, Things

\* A list is given up.
LEMMA PromisedClear ==
    ASSUME NEW l \in ListsOf, NEW op \in {"free", "lost"},
           LastCall' = [op |-> op, list |-> l], Becomes(l, <<>>)
    PROVE  Contents!Next
<1>1. Contents!Clear(l) \/ Contents!Lost(l)
    BY DEF Contents!Clear, Contents!Lost, Contents!Becomes, Becomes
<1> QED
    BY <1>1 DEF Contents!Next

\* Nothing happens.
LEMMA PromisedRefused ==
    ASSUME NEW l \in ListsOf,
           LastCall' = [op |-> "refused", list |-> l], AllItems' = AllItems
    PROVE  Contents!Next
<1>1. Contents!Refused(l)
    BY DEF Contents!Refused
<1> QED
    BY <1>1 DEF Contents!Next

\* Nothing is promised.
LEMMA PromisedNothing ==
    ASSUME NEW l \in ListsOf, LastCall'.op = "undefined", LastCall'.list = l,
           \/ AllItems[l] = <<>>
           \/ \E m \in ListsOf \ {l} : \E i \in 1 .. Len(AllItems[m]) : AllItems[m][i] = LastCall'.item
    PROVE  Contents!Next
<1>1. Contents!Undefined(l)
    BY DEF Contents!Undefined, Contents!Contains
<1> QED
    BY <1>1 DEF Contents!Next

\* The names of the array and of the table are no lists of nodes.
LEMMA OtherLists ==
    /\ Lists \subseteq ListsOf /\ "array" \in ListsOf /\ "people" \in ListsOf
    /\ \A l \in Lists : l # "array" /\ l # "people"
    /\ \A l \in ListsOf : l \in Lists \/ l = "array" \/ l = "people"
    /\ "array" # "people"
BY MCListsAssumption DEF ListsOf

\* A step that changes one list only.
LEMMA OneListChanges ==
    ASSUME NEW l \in ListsOf, NEW s, ItemsOf(l)' = s,
           \A m \in ListsOf : m # l => ItemsOf(m)' = ItemsOf(m)
    PROVE  Becomes(l, s)
<1>1. AllItems' = [m \in ListsOf |-> ItemsOf(m)']
    BY DEF AllItems
<1> QED
    BY <1>1 DEF Becomes, AllItems

\* What the array holds is in its own variables.
LEMMA ArrayStays == UNCHANGED <<made, count, cells>> => ItemsOf("array")' = ItemsOf("array")
BY DEF ItemsOf

\* What the table holds is too.
LEMMA PeopleStay == UNCHANGED people => ItemsOf("people")' = ItemsOf("people")
BY OtherLists DEF ItemsOf

\* What the lists of nodes hold is in their heads and their next pointers.
LEMMA ListsStay ==
    UNCHANGED <<used, head, next>> => \A l \in Lists : ItemsOf(l)' = ItemsOf(l)
<1> SUFFICES ASSUME UNCHANGED <<used, head, next>>, NEW l \in Lists
             PROVE  ItemsOf(l)' = ItemsOf(l)
    OBVIOUS
<1>1. l # "array" /\ l # "people"
    BY OtherLists
<1>2. Ring!Ring(l)' = Ring!Ring(l)
    BY DEF Ring!Ring
<1>3. Linked!Chain(head[l])' = Linked!Chain(head[l])
    BY DEF Linked!Chain
<1> QED
    BY <1>1, <1>2, <1>3 DEF ItemsOf

\* The lists of nodes are c.
NowAre(c) == c \in [Lists -> Seq(Memory)] /\ \A l \in Lists : ItemsOf(l) = c[l]

\* What a call on the lists is promised to do, it does to the items.
LEMMA ListsPromise ==
    ASSUME NEW c, NEW d, used \in {"linked", "ring"}, NowAre(c), ListsStep(c, d, call'),
           UNCHANGED <<used, made, count, cells, people>>,
           call'.op # "undefined" => NowAre(d)'
    PROVE  Contents!Next
<1>1. LastCall' = call'
    BY DEF LastCall
<1>2. /\ ItemsOf("array")' = ItemsOf("array") /\ ItemsOf("people")' = ItemsOf("people")
    BY ArrayStays, PeopleStay
<1>3. \A l \in Lists : AllItems[l] = c[l] /\ l \in ListsOf
    BY OtherLists DEF AllItems, NowAre
<1>4. ASSUME NEW l \in Lists, NEW s, d = [c EXCEPT ![l] = s], call'.op # "undefined"
      PROVE  Becomes(l, s)
  <2>1. \A m \in Lists : ItemsOf(m)' = d[m]
    BY <1>4 DEF NowAre
  <2>2. d[l] = s /\ \A m \in Lists : m # l => d[m] = c[m]
    BY <1>4 DEF NowAre
  <2>3. ItemsOf(l)' = s
    BY <2>1, <2>2
  <2>4. ASSUME NEW m \in ListsOf, m # l PROVE ItemsOf(m)' = ItemsOf(m)
    <3>1. m \in Lists => ItemsOf(m)' = ItemsOf(m)
      BY <2>1, <2>2, <2>4 DEF NowAre
    <3> QED
      BY <1>2, <3>1, OtherLists
  <2> QED
    BY <1>3, <2>3, <2>4, OneListChanges
<1>5. CASE AddStep(c, d, call')
  <2>1. PICK l \in Lists, x \in Memory :
            call' = [op |-> "add", list |-> l, item |-> x] /\ d = [c EXCEPT ![l] = Append(c[l], x)]
    BY <1>5 DEF AddStep
  <2>2. Becomes(l, Append(AllItems[l], x))
    BY <1>3, <1>4, <2>1
  <2>3. x \in Things /\ LastCall' = [op |-> "add", list |-> l, item |-> x] /\ l \in ListsOf
    BY <1>1, <1>3, <2>1 DEF Things
  <2> QED
    BY <2>2, <2>3, PromisedAdd
<1>6. CASE DeleteStep(c, d, call')
  <2>1. PICK l \in Lists, x \in Memory :
            /\ call' = [op |-> "delete", list |-> l, item |-> x]
            /\ d = [c EXCEPT ![l] = Contents!RemoveFirst(c[l], x)]
    BY <1>6 DEF DeleteStep
  <2>2. Becomes(l, Contents!RemoveFirst(AllItems[l], x))
    BY <1>3, <1>4, <2>1
  <2>3. x \in Things /\ LastCall' = [op |-> "delete", list |-> l, item |-> x] /\ l \in ListsOf
    BY <1>1, <1>3, <2>1 DEF Things
  <2> QED
    BY <2>2, <2>3, PromisedDelete
<1>7. CASE FreeStep(c, d, call')
  <2>1. PICK l \in Lists : call' = [op |-> "free", list |-> l] /\ d = [c EXCEPT ![l] = <<>>]
    BY <1>7 DEF FreeStep
  <2>2. Becomes(l, <<>>)
    BY <1>4, <2>1
  <2> QED
    BY <1>1, <1>3, <2>1, <2>2, PromisedClear
<1>8. CASE RefusedStep(c, d, call')
  <2>1. PICK l \in Lists : call' = [op |-> "refused", list |-> l] /\ d = c
    BY <1>8 DEF RefusedStep
  <2>2. \A m \in Lists : ItemsOf(m)' = ItemsOf(m)
    BY <2>1 DEF NowAre
  <2>3. \A m \in ListsOf : ItemsOf(m)' = ItemsOf(m)
    BY <1>2, <2>2, OtherLists
  <2>4. AllItems' = AllItems
    BY <2>3 DEF AllItems
  <2> QED
    BY <1>1, <1>3, <2>1, <2>4, PromisedRefused
<1>9. CASE UndefinedStep(c, call')
  <2>1. PICK l \in Lists :
            /\ call'.op = "undefined" /\ call'.list = l
            /\ \/ c[l] = <<>>
               \/ \E m \in Lists \ {l} : \E i \in 1 .. Len(c[m]) : c[m][i] = call'.item
    BY <1>9 DEF UndefinedStep
  <2>2. \/ AllItems[l] = <<>>
        \/ \E m \in ListsOf \ {l} : \E i \in 1 .. Len(AllItems[m]) : AllItems[m][i] = LastCall'.item
    BY <1>1, <1>3, <2>1
  <2> QED
    BY <1>1, <1>3, <2>1, <2>2, PromisedNothing
<1> QED
    BY <1>5, <1>6, <1>7, <1>8, <1>9 DEF ListsStep

\* The layout of linked_list.c says what a list holds.
LEMMA LinearNow ==
    ASSUME NEW c, NEW hd, NEW lv, Laid(c, hd, lv), NEW nx, Linear(c, nx), NEW l \in Lists
    PROVE  (IF hd[l] = NULL THEN <<>> ELSE Linked!Along(nx, hd[l])) = c[l]
BY ChainIs, HeadOfNone

\* The layout of circular_linked_list.c says what a list holds.
LEMMA CircularNow ==
    ASSUME NEW c, NEW hd, NEW lv, Laid(c, hd, lv), NEW nx, NEW pv, Circular(c, nx, pv),
           NEW l \in Lists
    PROVE  (IF hd[l] = NULL THEN <<>>
            ELSE Ring!Along([n \in Memory |-> IF nx[n] = hd[l] THEN NULL ELSE nx[n]], hd[l])) = c[l]
BY RingAlong, HeadOfNone

\* linked_list.c keeps the promise.
LEMMA LinkedPromise ==
    ASSUME ListsInv, OnHeap(used = "linked" /\ Linked!Next /\ UNCHANGED prev)
    PROVE  Contents!Next
<1>1. /\ used = "linked" /\ Linked!Next
      /\ UNCHANGED <<used, made, count, cells, people>>
    BY DEF OnHeap, array, db
<1>2. PICK c : Laid(c, head, live) /\ Linear(c, next)
    BY <1>1 DEF ListsInv
<1>3. PICK d : LinkedTo(c, d)
    BY <1>1, <1>2, LinkedStep
<1>4. NowAre(c)
  <2>1. ASSUME NEW l \in Lists PROVE ItemsOf(l) = c[l]
    BY <1>1, <1>2, LinearNow, OtherLists DEF ItemsOf, Linked!Chain
  <2> QED
    BY <1>2, <2>1 DEF NowAre, Laid
<1>5. NowAre(d)'
  <2>1. ASSUME NEW l \in Lists PROVE ItemsOf(l)' = d[l]
    <3>1. Laid(d, head', live') /\ Linear(d, next') /\ used' = "linked"
      BY <1>1, <1>3 DEF LinkedTo
    <3>2. (IF head'[l] = NULL THEN <<>> ELSE Linked!Along(next', head'[l])) = d[l]
      BY <3>1, LinearNow
    <3> QED
      BY <3>1, <3>2, OtherLists DEF ItemsOf, Linked!Chain
  <2>2. d \in [Lists -> Seq(Memory)]
    BY <1>3 DEF LinkedTo, Laid
  <2> QED
    BY <2>1, <2>2 DEF NowAre
<1> QED
    BY <1>1, <1>3, <1>4, <1>5, ListsPromise DEF LinkedTo

\* circular_linked_list.c keeps it.
LEMMA RingPromise ==
    ASSUME ListsInv, OnHeap(used = "ring" /\ Ring!Next)
    PROVE  Contents!Next
<1>1. /\ used = "ring" /\ Ring!Next
      /\ UNCHANGED <<used, made, count, cells, people>>
    BY DEF OnHeap, array, db
<1>2. call.op # "undefined"
    BY <1>1 DEF Ring!Next, Ring!Running, Ring!ListInit, Ring!ListAdd, Ring!UseEmptied,
                Ring!Refuse,
       Ring!ListFree, Ring!DeleteOnly, Ring!DeleteHead, Ring!DeleteInside, Ring!DeleteEmptied
<1>3. PICK c : Laid(c, head, live) /\ Circular(c, next, prev)
    BY <1>1, <1>2 DEF ListsInv
<1>4. PICK d : RingTo(c, d)
    BY <1>1, <1>3, RingStep
<1>5. NowAre(c)
  <2>1. ASSUME NEW l \in Lists PROVE ItemsOf(l) = c[l]
    BY <1>1, <1>3, CircularNow, OtherLists DEF ItemsOf, Ring!Ring
  <2> QED
    BY <1>3, <2>1 DEF NowAre, Laid
<1>6. ASSUME call'.op # "undefined" PROVE NowAre(d)'
  <2>1. ASSUME NEW l \in Lists PROVE ItemsOf(l)' = d[l]
    <3>1. Laid(d, head', live') /\ Circular(d, next', prev') /\ used' = "ring"
      BY <1>1, <1>4, <1>6 DEF RingTo
    <3>2. (IF head'[l] = NULL THEN <<>>
           ELSE Ring!Along([n \in Memory |-> IF next'[n] = head'[l] THEN NULL ELSE next'[n]],
                           head'[l])) = d[l]
      BY <3>1, CircularNow
    <3> QED
      BY <3>1, <3>2, OtherLists DEF ItemsOf, Ring!Ring
  <2>2. d \in [Lists -> Seq(Memory)]
    BY <1>4, <1>6 DEF RingTo, Laid
  <2> QED
    BY <2>1, <2>2 DEF NowAre
<1> QED
    BY <1>1, <1>4, <1>5, <1>6, ListsPromise DEF RingTo

\* A step of the array changes its items only.
LEMMA ArrayChanges ==
    ASSUME used = "array", UNCHANGED <<used, head, next, people>>
    PROVE  /\ Becomes("array", ItemsOf("array")')
           /\ ItemsOf("array")' = ItemsOf("array") => AllItems' = AllItems
           /\ LastCall' = called'
<1>1. \A m \in ListsOf : m # "array" => ItemsOf(m)' = ItemsOf(m)
    BY ListsStay, PeopleStay, OtherLists
<1>2. Becomes("array", ItemsOf("array")')
    BY <1>1, OneListChanges, OtherLists
<1>3. ASSUME ItemsOf("array")' = ItemsOf("array") PROVE AllItems' = AllItems
  <2>1. \A m \in ListsOf : ItemsOf(m)' = ItemsOf(m)
    BY <1>1, <1>3
  <2> QED
    BY <2>1 DEF AllItems
<1>4. LastCall' = called'
    BY DEF LastCall
<1> QED
    BY <1>2, <1>3, <1>4

\* What the array holds.
LEMMA ArrayItems ==
    /\ ItemsOf("array") = (IF made THEN Cells(cells, count) ELSE <<>>)
    /\ ItemsOf("array")' = (IF made' THEN Cells(cells', count') ELSE <<>>)
    /\ AllItems["array"] = ItemsOf("array")
<1>1. ItemsOf("array") = (IF made THEN Cells(cells, count) ELSE <<>>)
    BY DEF ItemsOf, Cells
<1>2. ItemsOf("array")' = (IF made' THEN Cells(cells', count') ELSE <<>>)
    BY DEF ItemsOf, Cells
<1>3. AllItems["array"] = ItemsOf("array")
    BY OtherLists DEF AllItems
<1> QED
    BY <1>1, <1>2, <1>3

\* No cell at all.
LEMMA NoCells == ASSUME NEW f PROVE Cells(f, 0) = <<>>
BY DEF Cells

\* dyn_array_init and dyn_array_add put the value behind the others.
LEMMA ArrayAddPromise ==
    ASSUME NeverFull, Array!DynArrayAssumption, used = "array",
           UNCHANGED <<used, head, next, people>>,
           NEW v \in Numbers, Array!Make(v) \/ Array!Add(v) \/ Array!AddGrowing(v)
    PROVE  Contents!Next
<1>1. /\ capacity \in Nat /\ count \in Nat /\ DOMAIN cells = 0 .. (capacity - 1)
      /\ made => count < capacity /\ contents = block
    BY DEF NeverFull, Array!NeverFull, Array!TypeOK
<1>2. /\ called' = [op |-> "add", list |-> "array", item |-> v]
      /\ ItemsOf("array")' = Append(ItemsOf("array"), v)
  <2>1. CASE Array!Make(v)
    <3>1. /\ ~made /\ made' /\ count' = 0 + 1
          /\ called' = [op |-> "add", list |-> "array", item |-> v]
      BY <2>1 DEF Array!Make, Array!CallWith
    <3>2. cells'[0] = v
      BY <2>1 DEF Array!Make, Array!DynArrayAssumption
    <3>3. Cells(cells', 0 + 1) = Append(Cells(cells, 0), cells'[0])
      BY CellsWith
    <3>4. Cells(cells, 0) = <<>>
      BY NoCells
    <3> QED
      BY <3>1, <3>2, <3>3, <3>4, ArrayItems
  <2>2. CASE Array!Add(v)
    <3>1. made /\ count < capacity /\ contents = block
      BY <1>1, <2>2 DEF Array!Add
    <3>2. /\ made' /\ count' = count + 1 /\ cells' = [cells EXCEPT ![count] = v]
          /\ called' = [op |-> "add", list |-> "array", item |-> v]
      BY <2>2, <3>1 DEF Array!Add, Array!CallWith
    <3>3. cells'[count] = v /\ \A i \in 0 .. (count - 1) : cells'[i] = cells[i]
      BY <1>1, <3>1, <3>2
    <3>4. Cells(cells', count + 1) = Append(Cells(cells, count), cells'[count])
      BY <1>1, <3>3, CellsWith
    <3> QED
      BY <3>1, <3>2, <3>3, <3>4, ArrayItems
  <2>3. CASE Array!AddGrowing(v)
    <3>1. /\ made /\ made' /\ count' = count + 1
          /\ cells' = [Array!Resized(2 * capacity) EXCEPT ![count] = v]
          /\ called' = [op |-> "add", list |-> "array", item |-> v]
      BY <2>3 DEF Array!AddGrowing, Array!CallWith
    <3>2. cells' = [i \in 0 .. (2 * capacity - 1) |->
                       IF i = count THEN v
                       ELSE IF i < capacity THEN cells[i] ELSE Array!UNSET]
      BY <3>1 DEF Array!Resized
    <3>3. /\ count \in 0 .. (2 * capacity - 1)
          /\ \A i \in 0 .. (count - 1) :
                i \in 0 .. (2 * capacity - 1) /\ i < capacity /\ i # count
      BY <1>1, <3>1
    <3>4. cells'[count] = v /\ \A i \in 0 .. (count - 1) : cells'[i] = cells[i]
      BY <3>2, <3>3
    <3>5. Cells(cells', count + 1) = Append(Cells(cells, count), cells'[count])
      BY <1>1, <3>4, CellsWith
    <3> QED
      BY <3>1, <3>4, <3>5, ArrayItems
  <2> QED
    BY <2>1, <2>2, <2>3
<1>3. Becomes("array", Append(AllItems["array"], v)) /\ LastCall' = called'
    BY <1>2, ArrayChanges, ArrayItems
<1>4. v \in Things
    BY DEF Things
<1> QED
    BY <1>2, <1>3, <1>4, OtherLists, PromisedAdd

\* dyn_array_delete moves up what is behind the index, or gives up the last cell.
LEMMA ArrayDeletePromise ==
    ASSUME NeverFull, used = "array", UNCHANGED <<used, head, next, people>>,
           NEW i \in -1 .. MaxCapacity, MaxCapacity \in Nat, Array!DeleteAt(i)
    PROVE  Contents!Next
<1>1. /\ capacity \in Nat /\ count \in Nat \ {0} /\ count < capacity /\ i \in Int
    BY DEF NeverFull, Array!NeverFull, Array!TypeOK, Array!DeleteAt
<1>2. /\ made /\ made' /\ count' = count - 1
      /\ cells' = IF i < 0 THEN cells ELSE Array!Shifted(i)
      /\ called' = [op |-> "deleteAt", list |-> "array", at |-> i + 1]
    BY DEF Array!DeleteAt, Array!CallAt
<1>3. AllItems["array"] = Cells(cells, count) /\ ItemsOf("array")' = Cells(cells', count - 1)
    BY <1>2, ArrayItems
<1>4. DOMAIN AllItems["array"] = 1 .. count
    BY <1>3 DEF Cells
<1>5. \A j \in 0 .. (count - 2) :
          cells'[j] = IF 0 <= i /\ i <= j THEN cells[j + 1] ELSE cells[j]
  <2> SUFFICES ASSUME NEW j \in 0 .. (count - 2)
               PROVE  cells'[j] = IF 0 <= i /\ i <= j THEN cells[j + 1] ELSE cells[j]
    OBVIOUS
  <2>1. CASE i < 0
    BY <1>1, <1>2, <2>1
  <2>2. CASE ~(i < 0)
    <3>1. j \in 0 .. (capacity - 1) /\ j < count - 1 /\ 0 <= i
      BY <1>1, <2>2
    <3>2. cells'[j] = IF i <= j /\ j < count - 1 THEN cells[j + 1] ELSE cells[j]
      BY <1>2, <2>2, <3>1 DEF Array!Shifted
    <3> QED
      BY <3>1, <3>2
  <2> QED
    BY <2>1, <2>2
<1>6. CASE i + 1 \in 1 .. count
  <2>1. 0 <= i /\ (i + 1) - 1 = i
    BY <1>1, <1>6
  <2>2. Cells(cells', count - 1) = RemoveAt(Cells(cells, count), i + 1)
    <3>1. \A j \in 0 .. (count - 2) :
              cells'[j] = IF (i + 1) - 1 <= j THEN cells[j + 1] ELSE cells[j]
      BY <1>5, <2>1
    <3> QED
      BY <1>1, <1>6, <3>1, CellsWithout
  <2>3. Becomes("array", RemoveAt(AllItems["array"], i + 1)) /\ LastCall' = called'
    BY <1>3, <2>2, ArrayChanges
  <2> QED
    BY <1>2, <1>4, <1>6, <2>3, OtherLists, PromisedDeleteAt
<1>7. CASE i + 1 \notin 1 .. count
  <2>1. i < 0 \/ i >= count
    BY <1>1, <1>7
  <2>2. Cells(cells', count - 1) = Front(Cells(cells, count)) /\ Cells(cells, count) # <<>>
    <3>1. \A j \in 0 .. (count - 2) : cells'[j] = cells[j]
      BY <1>1, <1>5, <2>1
    <3> QED
      BY <1>1, <3>1, CellsButLast
  <2>3. Becomes("array", Front(AllItems["array"])) /\ LastCall' = called'
    BY <1>3, <2>2, ArrayChanges
  <2> QED
    BY <1>2, <1>3, <1>4, <1>7, <2>2, <2>3, OtherLists, PromisedOutside
<1> QED
    BY <1>6, <1>7

\* Every call on the array does what is promised of it.
LEMMA ArrayPromise ==
    ASSUME NeverFull, OnArray(Array!Next)
    PROVE  Contents!Next
<1>1. /\ used = "array" /\ Array!Next /\ UNCHANGED <<used, head, next, people>>
    BY DEF OnArray, heap, db
<1>2. Array!DynArrayAssumption /\ MaxCapacity \in Nat
    BY MCArrayAssumption DEF Array!DynArrayAssumption
<1>3. count \in Nat
    BY DEF NeverFull, Array!NeverFull, Array!TypeOK
<1>4. ASSUME NEW i \in -1 .. MaxCapacity, Array!Get(i) PROVE Contents!Next
  <2>1. /\ made /\ made' /\ count' = count /\ cells' = cells
        /\ called' = [op |-> "get", list |-> "array", at |-> i + 1,
                      ret |-> IF i \in 0 .. (count - 1) THEN cells[i] ELSE 0]
    BY <1>4 DEF Array!Get
  <2>2. AllItems["array"] = Cells(cells, count) /\ ItemsOf("array")' = ItemsOf("array")
    BY <2>1, ArrayItems
  <2>3. DOMAIN AllItems["array"] = 1 .. count
    BY <2>2 DEF Cells
  <2>4. (IF i \in 0 .. (count - 1) THEN cells[i] ELSE 0)
          = IF i + 1 \in DOMAIN AllItems["array"] THEN AllItems["array"][i + 1] ELSE 0
    <3>1. i \in Int /\ (i \in 0 .. (count - 1) <=> i + 1 \in 1 .. count) /\ (i + 1) - 1 = i
      BY <1>2, <1>3
    <3>2. i + 1 \in 1 .. count => AllItems["array"][i + 1] = cells[i]
      BY <2>2, <3>1 DEF Cells
    <3> QED
      BY <2>3, <3>1, <3>2
  <2>5. AllItems' = AllItems /\ LastCall' = called'
    BY <1>1, <2>2, ArrayChanges
  <2> QED
    BY <2>1, <2>4, <2>5, OtherLists, PromisedGet
<1>5. CASE Array!MakeRefused
  <2>1. /\ UNCHANGED <<made, count, cells>> /\ called' = [op |-> "refused", list |-> "array"]
    BY <1>5 DEF Array!MakeRefused, Array!Call
  <2>2. AllItems' = AllItems /\ LastCall' = called'
    BY <1>1, <2>1, ArrayStays, ArrayChanges
  <2> QED
    BY <2>1, <2>2, OtherLists, PromisedRefused
<1>6. CASE Array!AddRefused \/ Array!Free
  <2>1. PICK op \in {"free", "lost"} : ~made' /\ called' = [op |-> op, list |-> "array"]
    BY <1>6 DEF Array!AddRefused, Array!Free, Array!Call
  <2>2. Becomes("array", <<>>) /\ LastCall' = called'
    BY <1>1, <2>1, ArrayItems, ArrayChanges
  <2> QED
    BY <2>1, <2>2, OtherLists, PromisedClear
<1>7. CASE Array!DeleteFromEmpty \/ Array!UseLost
  <2>1. /\ made => count = 0
        /\ called' = [op |-> "undefined", list |-> "array"]
    BY <1>7 DEF Array!DeleteFromEmpty, Array!UseLost, Array!Call
  <2>2. AllItems["array"] = <<>>
    BY <2>1, ArrayItems, NoCells
  <2>3. LastCall' = called'
    BY <1>1, ArrayChanges
  <2>4. LastCall'.op = "undefined" /\ LastCall'.list = "array"
    BY <2>1, <2>3
  <2> QED
    BY <2>2, <2>4, OtherLists, PromisedNothing
<1> QED
    BY <1>1, <1>2, <1>4, <1>5, <1>6, <1>7, ArrayAddPromise, ArrayDeletePromise DEF Array!Next

\* The table holds names, and no more of them than it has room for.
PeopleInv == people \in Seq(Names) /\ slots \in Nat \ {0} /\ Len(people) <= slots

\* Nobody is in it at the start.
LEMMA InitPeople == ContainersInit => PeopleInv
BY MCDatabaseAssumption DEF ContainersInit, Database!Init, Database!DatabaseAssumption, PeopleInv

\* searchPerson finds the first of a name.
LEMMA PersonFound ==
    ASSUME PeopleInv, NEW name
    PROVE  \/ /\ Database!SearchPerson(name) = -1
              /\ \A i \in 1 .. Len(people) : people[i] # name
           \/ \E p \in 1 .. Len(people) :
                 /\ people[p] = name /\ \A i \in 1 .. (p - 1) : people[i] # name
                 /\ Database!SearchPerson(name) = p - 1
<1> DEFINE found == {i \in 1 .. Len(people) : people[i] = name}
<1>1. people \in Seq(Names) /\ Len(people) \in Nat /\ DOMAIN people = 1 .. Len(people)
    BY LenProperties DEF PeopleInv
<1>2. Database!SearchPerson(name) = IF found = {} THEN -1 ELSE Min(found) - 1
    BY <1>1 DEF Database!SearchPerson, Database!Min, Min
<1>3. CASE found = {}
    BY <1>2, <1>3
<1>4. CASE found # {}
  <2>1. found \subseteq Nat
    OBVIOUS
  <2>2. Min(found) \in found /\ \A k \in found : Min(found) <= k
    BY <1>4, <2>1, MinIsFirst
  <2> DEFINE p == Min(found)
  <2>3. p \in 1 .. Len(people) /\ people[p] = name
    BY <2>2
  <2>4. ASSUME NEW i \in 1 .. (p - 1) PROVE people[i] # name
    <3>1. i \in 1 .. Len(people) /\ ~(p <= i)
      BY <1>1, <2>3
    <3>2. i \notin found
      BY <2>2, <3>1
    <3> QED
      BY <3>1, <3>2
  <2>5. Database!SearchPerson(name) = p - 1
    BY <1>2, <1>4
  <2> QED
    BY <2>3, <2>4, <2>5
<1> QED
    BY <1>3, <1>4

\* deletePerson takes the first of a name out of the table.
LEMMA PersonGone ==
    ASSUME PeopleInv, NEW name, Database!DeletePerson(name)
    PROVE  people' = Contents!RemoveFirst(people, name) /\ people' \in Seq(Names)
              /\ Len(people') <= Len(people)
<1> DEFINE index == Database!SearchPerson(name)
<1>1. people \in Seq(Names) /\ Len(people) \in Nat
    BY LenProperties DEF PeopleInv
<1>2. people' = IF index = -1 THEN people
                ELSE [i \in 1 .. (Len(people) - 1) |->
                         IF i <= index THEN people[i] ELSE people[i + 1]]
    BY DEF Database!DeletePerson
<1>3. CASE index = -1 /\ \A i \in 1 .. Len(people) : people[i] # name
  <2>1. Contents!RemoveFirst(people, name) = people
    BY <1>3 DEF Contents!RemoveFirst
  <2> QED
    BY <1>1, <1>2, <1>3, <2>1
<1>4. ASSUME NEW p \in 1 .. Len(people), people[p] = name, index = p - 1,
             \A i \in 1 .. (p - 1) : people[i] # name
      PROVE  people' = Contents!RemoveFirst(people, name) /\ people' \in Seq(Names)
                /\ Len(people') <= Len(people)
  <2>1. Contents!RemoveFirst(people, name) = RemoveAt(people, p)
    BY <1>1, <1>4, FirstPlace
  <2>2. RemoveAt(people, p) \in Seq(Names)
    BY <1>1, RemoveAtIn
  <2>3. /\ Len(RemoveAt(people, p)) = Len(people) - 1
        /\ \A i \in 1 .. (Len(people) - 1) :
              RemoveAt(people, p)[i] = IF i < p THEN people[i] ELSE people[i + 1]
    BY <1>1, RemoveAtPlaces
  <2>4. people' = [i \in 1 .. (Len(people) - 1) |->
                      IF i < p THEN people[i] ELSE people[i + 1]]
    <3>1. index # -1 /\ \A i \in Nat : i <= index <=> i < p
      BY <1>1, <1>4
    <3> HIDE DEF index
    <3> QED
      BY <1>1, <1>2, <3>1
  <2>5. RemoveAt(people, p) = [i \in 1 .. (Len(people) - 1) |-> RemoveAt(people, p)[i]]
    BY <2>2, <2>3, LenProperties
  <2>6. people' = RemoveAt(people, p)
    BY <2>3, <2>4, <2>5
  <2> QED
    BY <1>1, <2>1, <2>2, <2>3, <2>6
<1> QED
    BY <1>3, <1>4, PersonFound

\* There is always room for one more, after doubling if need be.
LEMMA RoomForOneMore ==
    ASSUME PeopleInv, NEW name \in Names, Database!AddPerson(name)
    PROVE  /\ people' = Append(people, name) /\ people' \in Seq(Names)
           /\ Len(people') = Len(people) + 1
           /\ asked' = [op |-> "add", list |-> "people", item |-> name]
           /\ slots' \in Nat \ {0} /\ Len(people') <= slots'
<1>1. people \in Seq(Names) /\ Len(people) \in Nat /\ slots \in Nat \ {0} /\ Len(people) <= slots
    BY LenProperties DEF PeopleInv
<1>2. slots' = (IF Len(people) = slots THEN 2 * slots ELSE slots)
    BY DEF Database!AddPerson
<1>3. slots' \in Nat \ {0} /\ Len(people) < slots' /\ Len(people) + 1 <= slots'
    BY <1>1, <1>2
<1>4. people' = Append(people, name) /\ asked' = [op |-> "add", list |-> "people", item |-> name]
    BY <1>3 DEF Database!AddPerson, Database!Ask
<1>5. Append(people, name) \in Seq(Names) /\ Len(Append(people, name)) = Len(people) + 1
    BY <1>1, AppendProperties
<1> QED
    BY <1>3, <1>4, <1>5

\* Every step of the run keeps the table so.
LEMMA NextPeople ==
    PeopleInv /\ [ContainersNext]_<<used, vars, array, heap, db>> => PeopleInv'
<1> SUFFICES ASSUME PeopleInv, [ContainersNext]_<<used, vars, array, heap, db>>
             PROVE  PeopleInv'
    OBVIOUS
<1>1. people \in Seq(Names) /\ slots \in Nat \ {0} /\ Len(people) <= slots /\ Len(people) \in Nat
    BY LenProperties DEF PeopleInv
<1>2. CASE UNCHANGED db
    BY <1>1, <1>2 DEF db, PeopleInv
<1>3. ASSUME NEW name \in Names, Database!AddPerson(name) PROVE PeopleInv'
    BY <1>3, RoomForOneMore DEF PeopleInv
<1>4. ASSUME NEW name \in Names, Database!DeletePerson(name) PROVE PeopleInv'
  <2>1. people' \in Seq(Names) /\ Len(people') <= Len(people)
    BY <1>4, PersonGone
  <2>2. slots' = slots
    BY <1>4 DEF Database!DeletePerson
  <2>3. Len(people') \in Nat
    BY <2>1, LenProperties
  <2> QED
    BY <1>1, <2>1, <2>2, <2>3 DEF PeopleInv
<1>5. ASSUME NEW name \in Names, Database!Search(name) PROVE PeopleInv'
    BY <1>1, <1>5 DEF Database!Search, PeopleInv
<1>6. CASE Database!AddRefused \/ Database!Exit
  <2>1. people' = <<>> /\ slots' = slots
    BY <1>6 DEF Database!AddRefused, Database!Exit
  <2> QED
    BY <1>1, <2>1 DEF PeopleInv
<1>7. Database!Next \/ UNCHANGED db
    BY DEF ContainersNext, OnMap, OnArray, OnHeap, OnPeople
<1> QED
    BY <1>2, <1>3, <1>4, <1>5, <1>6, <1>7 DEF Database!Next

\* A step of the table changes its items only.
LEMMA PeopleChange ==
    ASSUME used = "database", UNCHANGED <<used, made, count, cells, head, next>>
    PROVE  /\ AllItems["people"] = people
           /\ Becomes("people", people')
           /\ people' = people => AllItems' = AllItems
           /\ LastCall' = asked'
<1>1. ItemsOf("people") = people /\ ItemsOf("people")' = people'
    BY OtherLists DEF ItemsOf
<1>2. \A m \in ListsOf : m # "people" => ItemsOf(m)' = ItemsOf(m)
    BY ListsStay, ArrayStays, OtherLists
<1>3. Becomes("people", people')
    BY <1>1, <1>2, OneListChanges, OtherLists
<1>4. ASSUME people' = people PROVE AllItems' = AllItems
  <2>1. \A m \in ListsOf : ItemsOf(m)' = ItemsOf(m)
    BY <1>1, <1>2, <1>4
  <2> QED
    BY <2>1 DEF AllItems
<1>5. LastCall' = asked'
    BY DEF LastCall
<1>6. AllItems["people"] = people
    BY <1>1, OtherLists DEF AllItems
<1> QED
    BY <1>3, <1>4, <1>5, <1>6

\* Every call on the table does what is promised of it.
LEMMA PeoplePromise ==
    ASSUME PeopleInv, OnPeople(Database!Next)
    PROVE  Contents!Next
<1>1. /\ used = "database" /\ Database!Next
      /\ UNCHANGED <<used, made, count, cells, head, next>>
    BY DEF OnPeople, array, heap
<1>2. /\ AllItems["people"] = people /\ Becomes("people", people')
      /\ people' = people => AllItems' = AllItems
      /\ LastCall' = asked' /\ "people" \in ListsOf
    BY <1>1, PeopleChange, OtherLists
<1>3. \A name \in Names : name \in Things
    BY DEF Things
<1>4. people \in Seq(Names)
    BY DEF PeopleInv
<1>5. ASSUME NEW name \in Names, Database!AddPerson(name) PROVE Contents!Next
  <2>1. people' = Append(people, name) /\ asked' = [op |-> "add", list |-> "people", item |-> name]
    BY <1>5, RoomForOneMore
  <2>2. /\ LastCall' = [op |-> "add", list |-> "people", item |-> name]
        /\ Becomes("people", Append(AllItems["people"], name))
    BY <1>2, <2>1
  <2> QED
    BY <1>2, <1>3, <2>2, PromisedAdd
<1>6. ASSUME NEW name \in Names, Database!DeletePerson(name) PROVE Contents!Next
  <2>1. people' = Contents!RemoveFirst(people, name)
    BY <1>6, PersonGone
  <2>2. asked' = [op |-> "delete", list |-> "people", item |-> name]
    BY <1>6 DEF Database!DeletePerson, Database!Ask
  <2>3. /\ LastCall' = [op |-> "delete", list |-> "people", item |-> name]
        /\ Becomes("people", Contents!RemoveFirst(AllItems["people"], name))
    BY <1>2, <2>1, <2>2
  <2> QED
    BY <1>2, <1>3, <2>3, PromisedDelete
<1>7. ASSUME NEW name \in Names, Database!Search(name) PROVE Contents!Next
  <2>1. /\ people' = people
        /\ asked' = [op |-> "search", list |-> "people", item |-> name,
                     ret |-> Database!SearchPerson(name)]
    BY <1>7 DEF Database!Search
  <2>2. Database!SearchPerson(name) =
          IF Contents!Contains(people, name)
          THEN Contents!SelectInSeq(people, LAMBDA y : y = name) - 1 ELSE -1
    <3>1. CASE /\ Database!SearchPerson(name) = -1
               /\ \A i \in 1 .. Len(people) : people[i] # name
      <4>1. ~Contents!Contains(people, name)
        BY <3>1 DEF Contents!Contains
      <4> QED
        BY <3>1, <4>1
    <3>2. ASSUME NEW p \in 1 .. Len(people), people[p] = name,
                 \A i \in 1 .. (p - 1) : people[i] # name,
                 Database!SearchPerson(name) = p - 1
          PROVE  /\ Contents!Contains(people, name)
                 /\ Database!SearchPerson(name) =
                      Contents!SelectInSeq(people, LAMBDA y : y = name) - 1
      <4> DEFINE found == {i \in 1 .. Len(people) : people[i] = name}
      <4>1. found # {} /\ Min(found) = p
        BY <1>4, <3>2, FirstPlace
      <4>2. Contents!SelectInSeq(people, LAMBDA y : y = name) =
              IF found # {} THEN Min(found) ELSE 0
        BY DEF Contents!SelectInSeq, Contents!Min, Min
      <4>3. Contents!Contains(people, name)
        BY <4>1 DEF Contents!Contains
      <4> HIDE DEF found
      <4> QED
        BY <3>2, <4>1, <4>2, <4>3
    <3> QED
      BY <3>1, <3>2, PersonFound
  <2>3. /\ LastCall' = [op |-> "search", list |-> "people", item |-> name,
                        ret |-> IF Contents!Contains(AllItems["people"], name)
                                THEN Contents!SelectInSeq(AllItems["people"], LAMBDA y : y = name) - 1
                                ELSE -1]
        /\ AllItems' = AllItems
    BY <1>2, <2>1, <2>2
  <2> QED
    BY <1>2, <1>3, <2>3, PromisedSearch
<1>8. CASE Database!AddRefused \/ Database!Exit
  <2>1. PICK op \in {"free", "lost"} : people' = <<>> /\ asked' = [op |-> op, list |-> "people"]
    BY <1>8 DEF Database!AddRefused, Database!Exit
  <2>2. LastCall' = [op |-> op, list |-> "people"] /\ Becomes("people", <<>>)
    BY <1>2, <2>1
  <2> QED
    BY <1>2, <2>2, PromisedClear
<1> QED
    BY <1>1, <1>5, <1>6, <1>7, <1>8 DEF Database!Next

----------------------------------------------------------------------------
(***************************************************************************)
(* The refinement.                                                         *)
(***************************************************************************)

\* Every list is empty before the first call.
LEMMA InitContents == ContainersInit => Contents!Init
<1> SUFFICES ASSUME ContainersInit PROVE Contents!Init
    OBVIOUS
<1>1. /\ made = FALSE /\ people = <<>> /\ head = [l \in Lists |-> NULL]
      /\ called = [op |-> "none"] /\ call = [op |-> "none"] /\ asked = [op |-> "none"]
    BY DEF ContainersInit, Array!Init, Ring!Init, Database!Init
<1>2. \A l \in ListsOf : ItemsOf(l) = <<>>
    BY <1>1, OtherLists DEF ItemsOf
<1>3. AllItems = [l \in ListsOf |-> <<>>]
    BY <1>2 DEF AllItems
<1>4. LastCall = [op |-> "none"]
    BY <1>1 DEF LastCall
<1> QED
    BY <1>3, <1>4 DEF Contents!Init

\* A step of the hash map, or none, is no step of the lists.
LEMMA ContentsStay ==
    ASSUME OnMap(Next) \/ UNCHANGED <<used, vars, array, heap, db>>
    PROVE  AllItems' = AllItems /\ LastCall' = LastCall
<1>1. UNCHANGED <<used, made, count, cells, called, head, next, call, people, asked>>
    BY DEF OnMap, array, heap, db
<1>2. \A l \in ListsOf : ItemsOf(l)' = ItemsOf(l)
    BY <1>1, ListsStay, ArrayStays, PeopleStay, OtherLists
<1>3. AllItems' = AllItems
    BY <1>2 DEF AllItems
<1>4. LastCall' = LastCall
    BY <1>1 DEF LastCall
<1> QED
    BY <1>3, <1>4

\* Every step of the run is one that the promise allows, or none of its steps.
LEMMA NextContents ==
    ASSUME ListsInv, NeverFull, PeopleInv, [ContainersNext]_<<used, vars, array, heap, db>>
    PROVE  [Contents!Next]_(Contents!vars)
<1>1. CASE OnMap(Next) \/ UNCHANGED <<used, vars, array, heap, db>>
  <2>1. AllItems' = AllItems /\ LastCall' = LastCall
    BY <1>1, ContentsStay
  <2> QED
    BY <2>1 DEF Contents!vars
<1>2. CASE OnArray(Array!Next)
    BY <1>2, ArrayPromise
<1>3. CASE OnHeap(used = "linked" /\ Linked!Next /\ UNCHANGED prev)
    BY <1>3, LinkedPromise
<1>4. CASE OnHeap(used = "ring" /\ Ring!Next)
    BY <1>4, RingPromise
<1>5. CASE OnPeople(Database!Next)
    BY <1>5, PeoplePromise
<1> QED
    BY <1>1, <1>2, <1>3, <1>4, <1>5 DEF ContainersNext

\* Every call on the arrays, the lists and the table of lesson 5 does what is promised of a
\* list of items, and nothing to another list: whatever their number, whatever the memory,
\* the values and the names, and whatever was allocated, freed, moved or refused before.
THEOREM ContainersAreLists == ContainersSpec => ImplementsItems
<1>1. ContainersSpec => []NeverFull
    BY ContainersSafe, PTL
<1>2. ContainersSpec => []ListsInv
    BY InitLists, NextLists, PTL DEF ContainersSpec
<1>3. ContainersSpec => []PeopleInv
    BY InitPeople, NextPeople, PTL DEF ContainersSpec
<1>4. NeverFull /\ ListsInv /\ PeopleInv /\ [ContainersNext]_<<used, vars, array, heap, db>>
        => [Contents!Next]_(Contents!vars)
    BY NextContents
<1> QED
    BY <1>1, <1>2, <1>3, <1>4, InitContents, PTL
       DEF ContainersSpec, ImplementsItems, Contents!Spec
=============================================================================
