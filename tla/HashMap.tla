------------------------------ MODULE HashMap ------------------------------
(***************************************************************************)
(* ed-lesson-7/hash/hash.c: a chained hash map that doubles its table when *)
(* an insertion would fill more than three quarters of it.                 *)
(***************************************************************************)
EXTENDS Integers, Sequences, FiniteSets, SequencesExt

CONSTANTS
    Keys, Values,
    NULL,             \* the pointer no value is
    ABSENT,           \* used by the abstract map only
    Hash,             \* the hash function of the keys
    InitSize,         \* the size given to hashmap_init
    MaxSize           \* bound: the largest table calloc grants

ASSUME HashMapAssumption ==
    /\ Hash \in [Keys -> Nat]
    /\ InitSize \in Nat \ {0}
    /\ MaxSize \in Nat
    /\ NULL \notin Values /\ ABSENT \notin Values \cup {NULL}

VARIABLES
    data,             \* map->data: each bucket's chain of nodes
    size,             \* map->size
    elements,         \* map->elements
    ret,              \* what the last call returned
    status,           \* "live", "destroyed", or "crashed" when malloc's NULL is used
    refused           \* history: a resize has failed for lack of memory

vars == <<data, size, elements, ret, status, refused>>

Node(k, v) == [key |-> k, value |-> v]

\* hashmap_init (its own allocation failures return no map).
Init ==
    /\ data = [b \in 0 .. InitSize - 1 |-> <<>>]
    /\ size = InitSize
    /\ elements = 0
    /\ ret = NULL
    /\ status = "live"
    /\ refused = FALSE

Live == status = "live"
Bucket(k) == Hash[k] % size

\* The first node of a chain with that key, or 0.
Find(chain, k) == SelectInSeq(chain, LAMBDA node : node.key = k)

\* (float)(elements + 1) / size > 0.75
Crowded == 4 * (elements + 1) > 3 * size

----------------------------------------------------------------------------
\* Variants of the operations below, each with one plausible slip.

\* The table grows and the nodes stay in the buckets they were in.
ResizedUnhashed(n) == [b \in 0 .. n - 1 |-> IF b < size THEN data[b] ELSE <<>>]

\* Every new chain gets the first node of a bucket only.
MovedFirstOnly(t, n, chain) ==
    [b \in 0 .. n - 1 |->
        IF chain # <<>> /\ Hash[chain[1].key] % n = b THEN Append(t[b], chain[1]) ELSE t[b]]

----------------------------------------------------------------------------
\* A node goes to the end of its chain in a table of n buckets.
Chained(t, n, node) == [t EXCEPT ![Hash[node.key] % n] = Append(@, node)]

\* The nodes of a chain go there one after the other.
Moved(t, n, chain) ==
    LET T[p \in 0 .. Len(chain)] == IF p = 0 THEN t ELSE Chained(T[p - 1], n, chain[p])
    IN  T[Len(chain)]

\* hashmap_resize: walks the buckets in order and appends each node to its new chain.
Resized(n) ==
    LET T[i \in 0 .. size] ==
          IF i = 0 THEN [b \in 0 .. n - 1 |-> <<>>] ELSE Moved(T[i - 1], n, data[i - 1])
    IN  T[size]

\* The sizes an insertion may go on with: the same one, or, when the table is crowded, twice
\* that unless calloc refuses.
Sizes == {size} \cup {n \in {2 * size} : Crowded /\ n <= MaxSize}
Table(n) == IF n = size THEN data ELSE Resized(n)

\* hashmap_insert.  The table is grown before the key is looked for, so even replacing a
\* value may grow it.  The new node's allocation is not checked.
Insert(k, v) ==
    /\ Live
    /\ \E n \in Sizes :
          LET t == Table(n)
              b == Hash[k] % n
              p == Find(t[b], k)
          IN  /\ size' = n
              /\ refused' = (refused \/ (Crowded /\ n = size))
              /\ IF p # 0
                 THEN /\ data' = [t EXCEPT ![b][p].value = v]
                      /\ ret' = NULL
                      /\ UNCHANGED <<elements, status>>
                 ELSE \/ /\ data' = Chained(t, n, Node(k, v))
                         /\ elements' = elements + 1
                         /\ ret' = NULL
                         /\ status' = status
                      \/ /\ status' = "crashed"
                         /\ data' = t
                         /\ UNCHANGED <<elements, ret>>

Get(k) ==
    /\ Live
    /\ LET chain == data[Bucket(k)]
           p     == Find(chain, k)
       IN  ret' = IF p = 0 THEN NULL ELSE chain[p].value
    /\ UNCHANGED <<data, size, elements, status, refused>>

\* hashmap_remove_value: the entry stays, without a value, and still counts.
RemoveValue(k) ==
    /\ Live
    /\ LET chain == data[Bucket(k)]
           p     == Find(chain, k)
       IN  IF p = 0
           THEN ret' = NULL /\ UNCHANGED data
           ELSE /\ ret' = chain[p].value
                /\ data' = [data EXCEPT ![Bucket(k)][p].value = NULL]
    /\ UNCHANGED <<size, elements, status, refused>>

\* hashmap_remove_entry: unlinks the node.
RemoveEntry(k) ==
    /\ Live
    /\ LET chain == data[Bucket(k)]
           p     == Find(chain, k)
       IN  IF p = 0
           THEN ret' = NULL /\ UNCHANGED <<data, elements>>
           ELSE /\ ret' = chain[p].value
                /\ data' = [data EXCEPT ![Bucket(k)] = RemoveAt(@, p)]
                /\ elements' = elements - 1
    /\ UNCHANGED <<size, status, refused>>

Size ==
    /\ Live
    /\ ret' = elements
    /\ UNCHANGED <<data, size, elements, status, refused>>

\* hashmap_destroy: every node and the table are freed.
Destroy ==
    /\ Live
    /\ status' = "destroyed"
    /\ data' = [b \in 0 .. size - 1 |-> <<>>]
    /\ ret' = NULL
    /\ UNCHANGED <<size, elements, refused>>

Ended == ~Live /\ UNCHANGED vars

Next ==
    \/ \E k \in Keys, v \in Values : Insert(k, v)
    \/ \E k \in Keys : Get(k) \/ RemoveValue(k) \/ RemoveEntry(k)
    \/ Size \/ Destroy \/ Ended

Spec == Init /\ [][Next]_vars

----------------------------------------------------------------------------
Chains == {data[b] : b \in DOMAIN data}
AllNodes == UNION {ToSet(chain) : chain \in Chains}

\* Every variable stays in its range.
TypeOK ==
    /\ size \in Nat \ {0} /\ DOMAIN data = 0 .. size - 1
    /\ AllNodes \subseteq [key : Keys, value : Values \cup {NULL}]
    /\ elements \in Nat
    /\ ret \in Values \cup {NULL} \cup Nat
    /\ status \in {"live", "destroyed", "crashed"}
    /\ refused \in BOOLEAN

\* What lookups rely on, through every resize: a node is in the bucket its key hashes to
\* at the present size, and no key has two nodes.  `elements`, kept by hand in two places,
\* is the number of nodes; and what it is for, the load factor's limit, holds after every
\* call while memory lasts: one doubling before each insertion is enough.
WellPlaced ==
    /\ TypeOK
    /\ \A b \in DOMAIN data : \A p \in DOMAIN data[b] :
          /\ Hash[data[b][p].key] % size = b
          /\ \A q \in DOMAIN data[b] : data[b][p].key = data[b][q].key => p = q
    /\ Live => elements = Cardinality(AllNodes) /\ (refused \/ 4 * elements <= 3 * size)

\* The chains are a representation of the abstract map: each call does to it, and
\* returns, what hash.h promises, resizes and failed resizes included.
kvBar ==
    [k \in Keys |->
        LET chain == data[Bucket(k)]
            p     == Find(chain, k)
        IN  IF p = 0 THEN ABSENT ELSE chain[p].value]

Map == INSTANCE KeyMap WITH kv <- kvBar, ret <- ret, status <- status

ImplementsMap == Map!MapSpec
============================================================================
