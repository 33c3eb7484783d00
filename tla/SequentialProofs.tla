-------------------------- MODULE SequentialProofs --------------------------
(***************************************************************************)
(* What the sequential programs of MCSequential.tla are for, whatever is   *)
(* typed or read.  The market: the report of the till holds every purchase *)
(* of every customer, in order.  The delegator: each result it prints is   *)
(* that of the command on its line.  The shell: the arguments of a command *)
(* are the words of the line that was typed, in order.                     *)
(*                                                                         *)
(* Each program goes through a sequence and keeps what it has seen in      *)
(* another; the invariants say how far it is and that what it keeps is     *)
(* what went by.  Facts about all places of a sequence are proved by the   *)
(* least place that would break them.                                      *)
(***************************************************************************)
EXTENDS MCSequential, SequenceTheorems, FiniteSetTheorems, WellFoundedInduction, TLAPS

\* A set of numbers has a least one.
LEMMA LeastOf ==
    ASSUME NEW I, I \subseteq Nat, I # {}
    PROVE  \E m \in I : \A k \in I : m <= k
<1>1. PICK m \in I : \A k \in I : ~(<<k, m>> \in OpToRel(<, Nat))
    BY NatLessThanWellFounded, WFMin
<1>2. ASSUME NEW k \in I PROVE m <= k
  <2>1. k \in Nat /\ m \in Nat
    OBVIOUS
  <2>2. ~(<<k, m>> \in Nat \X Nat /\ k < m)
    BY <1>1, Zenon DEF OpToRel
  <2> QED
    BY <2>1, <2>2
<1> QED
    BY <1>2

----------------------------------------------------------------------------
(***************************************************************************)
(* Sequences put one behind the other.                                     *)
(***************************************************************************)

\* g[i] is the first i of the sequences ss, as FlattenSeq computes it.
Flattens(ss, m, g) == g = [i \in 1 .. m |-> IF i = 1 THEN ss[i] ELSE g[i - 1] \o ss[i]]

\* The first m are the same.
SameFirst(ss, tt, m) == \A i \in 1 .. m : ss[i] = tt[i]

\* For every number of them the recursion defines it.
LEMMA FlattensExist ==
    ASSUME NEW ss, NEW m \in Nat
    PROVE  \E g : Flattens(ss, m, g)
<1> DEFINE I == {k \in Nat : ~ \E g : Flattens(ss, k, g)}
<1>1. ASSUME I # {} PROVE FALSE
  <2>1. PICK k \in I : \A j \in I : k <= j
    <3>1. I \subseteq Nat
      OBVIOUS
    <3> HIDE DEF I
    <3> QED
      BY <1>1, <3>1, LeastOf
  <2>2. CASE k = 0
    <3>1. Flattens(ss, 0, [i \in 1 .. 0 |-> <<>>])
      BY DEF Flattens
    <3> QED
      BY <2>1, <2>2, <3>1
  <2>3. CASE k # 0
    <3>1. k - 1 \in Nat /\ k \in Nat /\ k - 1 \notin I
      BY <2>1, <2>3
    <3>2. PICK g : Flattens(ss, k - 1, g)
      BY <3>1
    <3> DEFINE h == [i \in 1 .. k |->
                        IF i = k THEN IF k = 1 THEN ss[k] ELSE g[k - 1] \o ss[k] ELSE g[i]]
    <3>3. ASSUME NEW i \in 1 .. k PROVE h[i] = IF i = 1 THEN ss[i] ELSE h[i - 1] \o ss[i]
      <4>1. CASE i = k
        <5>1. k # 1 => k - 1 \in 1 .. k /\ k - 1 # k
          BY <3>1
        <5>2. k # 1 => h[k - 1] = g[k - 1]
          BY <5>1
        <5> QED
          BY <4>1, <5>2
      <4>2. CASE i # k
        <5>1. i \in 1 .. (k - 1) /\ (i # 1 => i - 1 \in 1 .. k /\ i - 1 # k)
          BY <3>1, <4>2
        <5>2. g[i] = IF i = 1 THEN ss[i] ELSE g[i - 1] \o ss[i]
          BY <3>2, <5>1 DEF Flattens
        <5>3. h[i] = g[i] /\ (i # 1 => h[i - 1] = g[i - 1])
          BY <4>2, <5>1
        <5> QED
          BY <5>2, <5>3
      <4> QED
        BY <4>1, <4>2
    <3>4. h = [i \in 1 .. k |-> h[i]]
      OBVIOUS
    <3> HIDE DEF h
    <3>5. Flattens(ss, k, h)
      BY <3>3, <3>4 DEF Flattens
    <3> QED
      BY <2>1, <3>5
  <2> QED
    BY <2>2, <2>3
<1> QED
    BY <1>1

\* It depends on the sequences alone.
LEMMA FlattensAgree ==
    ASSUME NEW ss, NEW tt, NEW m \in Nat, NEW n \in Nat, NEW g, NEW h,
           m <= n, SameFirst(ss, tt, m), Flattens(ss, m, g), Flattens(tt, n, h)
    PROVE  \A i \in 1 .. m : g[i] = h[i]
<1> DEFINE I == {i \in 1 .. m : g[i] # h[i]}
<1>1. ASSUME I # {} PROVE FALSE
  <2>1. PICK k \in I : \A j \in I : k <= j
    <3>1. I \subseteq Nat
      OBVIOUS
    <3> HIDE DEF I
    <3> QED
      BY <1>1, <3>1, LeastOf
  <2>2. k \in 1 .. m /\ k \in 1 .. n /\ g[k] # h[k] /\ ss[k] = tt[k]
    BY <2>1 DEF SameFirst
  <2>3. /\ g[k] = IF k = 1 THEN ss[k] ELSE g[k - 1] \o ss[k]
        /\ h[k] = IF k = 1 THEN tt[k] ELSE h[k - 1] \o tt[k]
    BY <2>2 DEF Flattens
  <2>4. k # 1
    BY <2>2, <2>3
  <2>5. k - 1 \in 1 .. m /\ ~(k <= k - 1)
    BY <2>2, <2>4
  <2>6. g[k - 1] = h[k - 1]
    BY <2>1, <2>5
  <2> QED
    BY <2>2, <2>3, <2>4, <2>6
<1> QED
    BY <1>1

\* FlattenSeq is the last of them.
LEMMA FlattenIs ==
    ASSUME NEW ss, Len(ss) \in Nat \ {0}
    PROVE  \E g : Flattens(ss, Len(ss), g) /\ FlattenSeq(ss) = g[Len(ss)]
<1> DEFINE flatten == CHOOSE g : Flattens(ss, Len(ss), g)
<1>1. \E g : Flattens(ss, Len(ss), g)
    BY FlattensExist
<1>2. Flattens(ss, Len(ss), flatten)
    BY <1>1
<1>3. FlattenSeq(ss) = flatten[Len(ss)]
    BY DEF FlattenSeq, Flattens
<1> QED
    BY <1>2, <1>3

\* No sequences at all flatten to none.
LEMMA FlattenEmpty == FlattenSeq(<<>>) = <<>>
BY DEF FlattenSeq

\* A single sequence is all there is.
LEMMA FlattenOne ==
    ASSUME NEW ss, Len(ss) = 1
    PROVE  FlattenSeq(ss) = ss[1]
<1>1. PICK m \in Nat \ {0} : m = 1 /\ Len(ss) = m
    OBVIOUS
<1>2. PICK g : Flattens(ss, m, g) /\ FlattenSeq(ss) = g[m]
    BY <1>1, FlattenIs
<1>3. g[m] = ss[m]
    BY <1>1, <1>2 DEF Flattens
<1> QED
    BY <1>1, <1>2, <1>3

\* One sequence more goes to the end.
LEMMA FlattenMore ==
    ASSUME NEW ss, NEW tt, NEW m \in Nat \ {0}, Len(ss) = m, Len(tt) = m + 1,
           SameFirst(ss, tt, m)
    PROVE  FlattenSeq(tt) = FlattenSeq(ss) \o tt[m + 1]
<1>1. PICK h : Flattens(tt, m + 1, h) /\ FlattenSeq(tt) = h[m + 1]
    BY FlattenIs
<1>2. PICK g : Flattens(ss, m, g) /\ FlattenSeq(ss) = g[m]
    BY FlattenIs
<1>3. h[m + 1] = IF m + 1 = 1 THEN tt[m + 1] ELSE h[(m + 1) - 1] \o tt[m + 1]
  <2>1. m + 1 \in 1 .. (m + 1)
    OBVIOUS
  <2> QED
    BY <1>1, <2>1 DEF Flattens
<1>4. g[m] = h[m]
  <2>1. m + 1 \in Nat /\ m <= m + 1 /\ m \in 1 .. m
    OBVIOUS
  <2>2. \A i \in 1 .. m : g[i] = h[i]
    BY <1>1, <1>2, <2>1, FlattensAgree
  <2> QED
    BY <2>1, <2>2
<1>5. (m + 1) - 1 = m /\ m + 1 # 1
    OBVIOUS
<1> QED
    BY <1>1, <1>2, <1>3, <1>4, <1>5

\* Also if it is the first.
LEMMA FlattenAppend ==
    ASSUME NEW T, NEW ss \in Seq(Seq(T)), NEW s \in Seq(T)
    PROVE  FlattenSeq(Append(ss, s)) = FlattenSeq(ss) \o s
<1>1. PICK tt : tt = Append(ss, s)
    OBVIOUS
<1>2. /\ Len(ss) \in Nat /\ Len(tt) = Len(ss) + 1 /\ tt[Len(ss) + 1] = s
      /\ SameFirst(ss, tt, Len(ss))
    BY <1>1, LenProperties, AppendProperties DEF SameFirst
<1>3. CASE Len(ss) = 0
  <2>1. ss = <<>> /\ tt = <<s>>
    BY <1>1, <1>3, EmptySeq
  <2>2. FlattenSeq(tt) = s
    <3>1. Len(tt) = 1 /\ tt[1] = s
      BY <1>2, <1>3
    <3> QED
      BY <3>1, FlattenOne
  <2>3. <<>> \o s = s
    OBVIOUS
  <2> QED
    BY <1>1, <2>1, <2>2, <2>3, FlattenEmpty
<1>4. CASE Len(ss) # 0
  <2>1. FlattenSeq(tt) = FlattenSeq(ss) \o tt[Len(ss) + 1]
    BY <1>2, <1>4, FlattenMore
  <2> QED
    BY <1>1, <1>2, <2>1
<1> QED
    BY <1>3, <1>4

\* What it puts together is over the same set.
LEMMA FlattenIn ==
    ASSUME NEW T, NEW ss \in Seq(Seq(T))
    PROVE  FlattenSeq(ss) \in Seq(T)
<1>1. Len(ss) \in Nat
    BY LenProperties
<1>2. CASE Len(ss) = 0
  <2>1. ss = <<>>
    BY <1>2, EmptySeq
  <2>2. <<>> \in Seq(T)
    OBVIOUS
  <2> QED
    BY <2>1, <2>2, FlattenEmpty
<1>3. CASE Len(ss) # 0
  <2>1. PICK g : Flattens(ss, Len(ss), g) /\ FlattenSeq(ss) = g[Len(ss)]
    BY <1>1, <1>3, FlattenIs
  <2> DEFINE I == {i \in 1 .. Len(ss) : g[i] \notin Seq(T)}
  <2>2. ASSUME I # {} PROVE FALSE
    <3>1. PICK k \in I : \A j \in I : k <= j
      <4>1. I \subseteq Nat
        OBVIOUS
      <4> HIDE DEF I
      <4> QED
        BY <2>2, <4>1, LeastOf
    <3>2. k \in 1 .. Len(ss) /\ g[k] \notin Seq(T) /\ ss[k] \in Seq(T)
      BY <3>1, ElementOfSeq
    <3>3. g[k] = IF k = 1 THEN ss[k] ELSE g[k - 1] \o ss[k]
      BY <2>1, <3>2 DEF Flattens
    <3>4. k # 1
      BY <3>2, <3>3
    <3>5. k - 1 \in 1 .. Len(ss) /\ ~(k <= k - 1)
      BY <3>2, <3>4
    <3>6. g[k - 1] \in Seq(T)
      BY <3>1, <3>5
    <3> QED
      BY <3>2, <3>3, <3>4, <3>6, ConcatProperties
  <2>3. Len(ss) \in 1 .. Len(ss)
    BY <1>1, <1>3
  <2> QED
    BY <2>1, <2>2, <2>3
<1> QED
    BY <1>1, <1>2, <1>3

----------------------------------------------------------------------------
(***************************************************************************)
(* The till.                                                               *)
(***************************************************************************)

\* What can be said to it, and what it keeps of a customer.
Said == Goods \cup {Market!Done, Market!Unparsed}
Customer == [items : Seq(Goods), number : Nat]

\* The lines of customers who have checked out.
Told(cs) == [k \in DOMAIN cs |-> Append(cs[k].items, Market!Done)]
Day(cs) == FlattenSeq(Told(cs))

\* Every line counted was stored.
AllStored(cs) == \A i \in DOMAIN cs : cs[i].number = Len(cs[i].items)

(***************************************************************************)
(* While every line counted was stored, the log is what the customers who  *)
(* have checked out said, and then what the one at the till has said.      *)
(***************************************************************************)
MarketInv ==
    /\ at \in {"name", "phone", "item", "parse", "finished", "outside"}
    /\ purchase \in Seq(Goods)
    /\ customers \in Seq(Customer)
    /\ at = "parse" => line \in Said
    /\ at \in {"item", "parse"} => number = Len(purchase)
    /\ AllStored(customers) =>
          /\ at \in {"name", "phone"} => log = Day(customers)
          /\ at = "item" => log = Day(customers) \o purchase
          /\ at = "parse" => log = Day(customers) \o Append(purchase, line)
    /\ at = "finished" => ReportComplete

\* The till flattens as any other module does.
LEMMA MarketFlattens == ASSUME NEW ss PROVE Market!FlattenSeq(ss) = FlattenSeq(ss)
BY DEF Market!FlattenSeq, FlattenSeq

\* One customer more.
LEMMA ToldMore ==
    ASSUME NEW cs \in Seq(Customer), NEW r \in Customer
    PROVE  /\ Told(cs) \in Seq(Seq(Said)) /\ Append(r.items, Market!Done) \in Seq(Said)
           /\ Told(Append(cs, r)) = Append(Told(cs), Append(r.items, Market!Done))
<1> DEFINE said(c) == Append(c.items, Market!Done)
<1>1. ASSUME NEW c \in Customer PROVE said(c) \in Seq(Said)
  <2>1. c.items \in Seq(Goods)
    BY DEF Customer
  <2>2. c.items \in Seq(Said) /\ Market!Done \in Said
    BY <2>1 DEF Said
  <2> QED
    BY <2>2, AppendProperties
<1>2. PICK n \in Nat : n = Len(cs) /\ DOMAIN cs = 1 .. n
    BY LenProperties
<1>3. \A k \in 1 .. n : cs[k] \in Customer
    BY <1>2, ElementOfSeq
<1> HIDE DEF said
<1>4. Told(cs) = [k \in 1 .. n |-> said(cs[k])]
    BY <1>2 DEF Told, said
<1>5. \A k \in 1 .. n : said(cs[k]) \in Seq(Said)
    BY <1>1, <1>3
<1>6. Told(cs) \in Seq(Seq(Said)) /\ Len(Told(cs)) = n
    BY <1>4, <1>5
<1> DEFINE ds == Append(cs, r)
<1>7. DOMAIN ds = 1 .. (n + 1) /\ ds[n + 1] = r /\ \A k \in 1 .. n : ds[k] = cs[k]
    BY <1>2, AppendProperties, LenProperties
<1> HIDE DEF ds
<1>8. Told(ds) = [k \in 1 .. (n + 1) |-> said(ds[k])]
    BY <1>7 DEF Told, said
<1>9. ASSUME NEW k \in 1 .. (n + 1)
      PROVE  said(ds[k]) = IF k = n + 1 THEN said(r) ELSE Told(cs)[k]
    BY <1>4, <1>7, <1>9
<1>10. Told(ds) \in Seq(Seq(Said)) /\ Len(Told(ds)) = n + 1
  <2>1. \A k \in 1 .. (n + 1) : said(ds[k]) \in Seq(Said)
    BY <1>1, <1>3, <1>7
  <2> QED
    BY <1>8, <2>1
<1>11. Told(ds) = Append(Told(cs), said(r))
  <2>1. PICK t : t = Append(Told(cs), said(r))
    OBVIOUS
  <2>2. /\ t \in Seq(Seq(Said)) /\ Len(t) = n + 1 /\ t[n + 1] = said(r)
        /\ \A k \in 1 .. n : t[k] = Told(cs)[k]
    BY <1>1, <1>6, <2>1, AppendProperties
  <2>3. ASSUME NEW k \in 1 .. (n + 1) PROVE Told(ds)[k] = t[k]
    <3>1. k # n + 1 => k \in 1 .. n
      OBVIOUS
    <3>2. Told(ds)[k] = said(ds[k])
      BY <1>8
    <3> QED
      BY <1>9, <2>2, <3>1, <3>2
  <2>4. Told(ds) = t
    BY <1>10, <2>2, <2>3, SeqEqual
  <2> QED
    BY <2>1, <2>4
<1> QED
    BY <1>1, <1>6, <1>11 DEF ds, said

\* What the day comes to then.
LEMMA DayMore ==
    ASSUME NEW cs \in Seq(Customer), NEW r \in Customer
    PROVE  /\ Day(Append(cs, r)) = Day(cs) \o Append(r.items, Market!Done)
           /\ Day(cs) \in Seq(Said)
BY ToldMore, FlattenAppend, FlattenIn DEF Day

\* The sequence of a purchase and one thing more.
LEMMA SaidMore ==
    ASSUME NEW d \in Seq(Said), NEW p \in Seq(Goods), NEW x \in Said
    PROVE  Append(d \o p, x) = d \o Append(p, x) /\ d \o <<>> = d
<1>1. p \in Seq(Said)
    BY DEF Said
<1>2. Append(d \o p, x) = d \o Append(p, x)
    BY <1>1
<1>3. d \o <<>> = d
    OBVIOUS
<1> QED
    BY <1>2, <1>3

\* Nobody has said anything.
LEMMA InitMarket == Market!Init => MarketInv
<1> SUFFICES ASSUME Market!Init PROVE MarketInv
    OBVIOUS
<1>1. at = "name" /\ purchase = <<>> /\ customers = <<>> /\ log = <<>>
    BY DEF Market!Init
<1>2. Told(<<>>) = <<>>
    BY DEF Told
<1>3. Day(customers) = <<>>
    BY <1>1, <1>2, FlattenEmpty DEF Day
<1> QED
    BY <1>1, <1>3 DEF MarketInv

\* The customer at the till joins the others.
LEMMA CheckOutInv ==
    ASSUME MarketInv, NEW n \in Nat, Market!CheckOut(n), line \in Said,
           at = "parse", n = Len(purchase) => line = Market!Done
    PROVE  MarketInv'
<1> DEFINE r == [items |-> purchase, number |-> n]
<1>1. /\ customers' = Append(customers, r) /\ at' = "name"
      /\ purchase' = purchase /\ log' = log
    BY DEF Market!CheckOut
<1>2. r \in Customer /\ customers \in Seq(Customer) /\ purchase \in Seq(Goods)
    BY DEF MarketInv, Customer
<1>3. customers' \in Seq(Customer)
    BY <1>1, <1>2, AppendProperties
<1>4. ASSUME AllStored(customers') PROVE log' = Day(customers')
  <2>1. PICK m \in Nat : /\ DOMAIN customers = 1 .. m /\ DOMAIN customers' = 1 .. (m + 1)
                         /\ customers'[m + 1] = r
                         /\ \A k \in 1 .. m : customers'[k] = customers[k]
    BY <1>1, <1>2, AppendProperties, LenProperties
  <2>2. AllStored(customers)
    BY <1>4, <2>1 DEF AllStored
  <2>3. n = Len(purchase)
    <3>1. customers'[m + 1].number = Len(customers'[m + 1].items)
      BY <1>4, <2>1 DEF AllStored
    <3> QED
      BY <2>1, <3>1
  <2>4. log = Day(customers) \o Append(purchase, line)
    BY <2>2 DEF MarketInv
  <2>5. Day(customers') = Day(customers) \o Append(r.items, Market!Done)
    BY <1>1, <1>2, DayMore
  <2> QED
    BY <1>1, <2>3, <2>4, <2>5
<1> QED
    BY <1>1, <1>2, <1>3, <1>4 DEF MarketInv

\* The day is finished.
LEMMA FinishInv ==
    ASSUME MarketInv, Market!FinishDay
    PROVE  MarketInv'
<1>1. /\ at \in {"name", "phone"}
      /\ UNCHANGED <<line, purchase, number, customers, log>>
    BY DEF Market!FinishDay, Market!MayFinish
<1>2. CASE AllStored(customers)
  <2>1. at' = "finished" /\ report' = [i \in DOMAIN customers |-> customers[i].items]
    BY <1>2 DEF Market!FinishDay, AllStored
  <2>2. log = Day(customers) /\ customers \in Seq(Customer)
    BY <1>1, <1>2 DEF MarketInv
  <2>3. /\ DOMAIN report' = DOMAIN customers
        /\ \A k \in DOMAIN customers : report'[k] = customers[k].items
    BY <2>1
  <2>4. [k \in DOMAIN report' |-> Append(report'[k], Market!Done)] = Told(customers)
    BY <2>3 DEF Told
  <2>5. log' = Market!FlattenSeq([k \in DOMAIN report' |-> Append(report'[k], Market!Done)])
    BY <1>1, <2>2, <2>4, MarketFlattens DEF Day
  <2>6. ASSUME NEW k \in DOMAIN report' PROVE ~Market!Contains(report'[k], Market!Done)
    <3>1. customers[k] \in Customer
      BY <2>2, <2>3, ElementOfSeq, LenProperties
    <3>2. report'[k] \in Seq(Goods)
      BY <2>3, <3>1 DEF Customer
    <3>3. \A i \in 1 .. Len(report'[k]) : report'[k][i] \in Goods
      BY <3>2, ElementOfSeq
    <3>4. Market!Done \notin Goods
      BY MCSequentialAssumption DEF Market!MarketAssumption
    <3> QED
      BY <3>3, <3>4 DEF Market!Contains
  <2>7. ReportComplete'
    BY <2>5, <2>6 DEF ReportComplete, Market!ReportComplete
  <2> QED
    BY <1>1, <2>1, <2>7 DEF MarketInv
<1>3. CASE ~AllStored(customers)
  <2>1. at' = "outside"
    BY <1>3 DEF Market!FinishDay, AllStored
  <2> QED
    BY <1>1, <1>3, <2>1 DEF MarketInv
<1> QED
    BY <1>2, <1>3

\* Every step of the till keeps its invariant.
LEMMA NextMarket == MarketInv /\ [Market!Next]_(Market!vars) => MarketInv'
<1> SUFFICES ASSUME MarketInv, [Market!Next]_(Market!vars) PROVE MarketInv'
    OBVIOUS
<1>1. /\ purchase \in Seq(Goods) /\ Len(purchase) \in Nat /\ customers \in Seq(Customer)
    BY LenProperties DEF MarketInv
<1>2. Day(customers) \in Seq(Said)
  <2>1. [items |-> <<>>, number |-> 0] \in Customer
    BY DEF Customer
  <2> QED
    BY <1>1, <2>1, DayMore
<1>3. CASE Market!Store
  <2>1. /\ at = "parse" /\ at' = "item" /\ line \in Goods /\ number' = number + 1
        /\ purchase' = Append(purchase, line) /\ customers' = customers /\ log' = log
    BY <1>3 DEF Market!Store
  <2>2. purchase' \in Seq(Goods) /\ Len(purchase') = Len(purchase) + 1
    BY <1>1, <2>1, AppendProperties
  <2> QED
    BY <2>1, <2>2 DEF MarketInv
<1>4. CASE Market!DoneShopping
  <2>1. at = "parse" /\ line = Market!Done /\ Market!CheckOut(number)
    BY <1>4 DEF Market!DoneShopping
  <2>2. number \in Nat /\ line \in Said
    BY <1>1, <2>1 DEF MarketInv
  <2> QED
    BY <2>1, <2>2, CheckOutInv
<1>5. CASE Market!StoreRefused
  <2>1. at = "parse" /\ Market!CheckOut(number + 1)
    BY <1>5 DEF Market!StoreRefused
  <2>2. number + 1 \in Nat /\ number + 1 # Len(purchase) /\ line \in Said
    BY <1>1, <2>1 DEF MarketInv
  <2> QED
    BY <2>1, <2>2, CheckOutInv
<1>6. CASE Market!FinishDay
    BY <1>6, FinishInv
<1>7. CASE Market!TakeName
  <2>1. at = "name" /\ at' = "phone" /\ UNCHANGED <<line, purchase, number, customers, log>>
    BY <1>7 DEF Market!TakeName
  <2> QED
    BY <2>1 DEF MarketInv
<1>8. CASE Market!TakePhone
  <2>1. /\ at = "phone" /\ at' = "item" /\ purchase' = <<>> /\ number' = 0
        /\ customers' = customers /\ log' = log
    BY <1>8 DEF Market!TakePhone
  <2>2. Day(customers) \o <<>> = Day(customers)
    BY <1>2
  <2> QED
    BY <2>1, <2>2 DEF MarketInv
<1>9. ASSUME NEW l \in Goods \cup {Market!Done, Market!Unparsed}, Market!TakeLine(l)
      PROVE  MarketInv'
  <2>1. /\ at = "item" /\ at' = "parse" /\ line' = l /\ log' = Append(log, l)
        /\ UNCHANGED <<purchase, number, customers>>
    BY <1>9 DEF Market!TakeLine
  <2>2. l \in Said
    BY DEF Said
  <2>3. Append(Day(customers) \o purchase, l) = Day(customers) \o Append(purchase, l)
    BY <1>1, <1>2, <2>2, SaidMore
  <2> QED
    BY <2>1, <2>2, <2>3 DEF MarketInv
<1>10. CASE UNCHANGED Market!vars
    BY <1>10 DEF Market!vars, MarketInv, ReportComplete, Market!ReportComplete
<1>11. Market!AskAgain \/ Market!EofInPurchase \/ Market!ParseAgain => UNCHANGED Market!vars
    BY DEF Market!AskAgain, Market!EofInPurchase, Market!ParseAgain
<1> QED
    BY <1>3, <1>4, <1>5, <1>6, <1>7, <1>8, <1>9, <1>10, <1>11 DEF Market!Next, Market!Till

\* A step of the run is a step of the till, or leaves it alone.
LEMMA TillAlone ==
    /\ SeqInit => Market!Init
    /\ [SeqNext]_seqVars => [Market!Next]_(Market!vars)
BY DEF SeqInit, SeqNext, AtTill, InShell, Delegate, seqVars, till, Market!vars

\* The day's file holds every line that was taken for an item, in order and by customer,
\* for every day: whatever is sold, however many come and whichever realloc is refused.
THEOREM ReportIsComplete == SeqSpec => []ReportComplete
<1>1. MarketInv => ReportComplete
    BY DEF MarketInv, ReportComplete, Market!ReportComplete
<1> QED
    BY <1>1, InitMarket, NextMarket, TillAlone, PTL DEF SeqSpec

----------------------------------------------------------------------------
(***************************************************************************)
(* Lines in a file.                                                        *)
(***************************************************************************)

\* e[k] is where the k-th of n lines ends, with the newline that follows it.
Ends(ss, n, e) ==
    /\ e \in [0 .. n -> Nat] /\ e[0] = 0
    /\ \A k \in 1 .. n : e[k] = e[k - 1] + Len(ss[k]) + 1

\* The k-th line lies in f where e says.
LiesAt(f, ss, k, e, nl) ==
    /\ f[e[k]] = nl
    /\ \A p \in 1 .. Len(ss[k]) : f[e[k - 1] + p] = ss[k][p]

\* The first m of them fill f.
Fill(f, ss, m, e, nl) ==
    /\ Len(f) = e[m]
    /\ \A k \in 1 .. m : e[k] <= e[m] /\ LiesAt(f, ss, k, e, nl)

\* Each of the lines is over T.
LinesOver(ss, n, T) == \A k \in 1 .. n : ss[k] \in Seq(T) /\ Len(ss[k]) \in Nat

\* Every number of lines has ends.
LEMMA EndsExist ==
    ASSUME NEW ss, NEW T, NEW n \in Nat, LinesOver(ss, n, T)
    PROVE  \E e : Ends(ss, n, e)
<1> DEFINE I == {k \in 0 .. n : ~ \E e : Ends(ss, k, e)}
<1>1. ASSUME I # {} PROVE FALSE
  <2>1. PICK k \in I : \A j \in I : k <= j
    <3>1. I \subseteq Nat
      OBVIOUS
    <3> HIDE DEF I
    <3> QED
      BY <1>1, <3>1, LeastOf
  <2>2. CASE k = 0
    <3>1. Ends(ss, 0, [i \in 0 .. 0 |-> 0])
      BY DEF Ends
    <3> QED
      BY <2>1, <2>2, <3>1
  <2>3. CASE k # 0
    <3>1. k - 1 \in 0 .. n /\ k \in 1 .. n /\ k - 1 \notin I
      BY <2>1, <2>3
    <3>2. PICK e : Ends(ss, k - 1, e)
      BY <3>1
    <3>3. PICK len \in Nat : len = Len(ss[k])
      BY <3>1 DEF LinesOver
    <3> DEFINE h == [i \in 0 .. k |-> IF i = k THEN e[k - 1] + len + 1 ELSE e[i]]
    <3>4. e \in [0 .. k - 1 -> Nat] /\ e[0] = 0 /\ k - 1 \in 0 .. k - 1
      BY <3>1, <3>2 DEF Ends
    <3>5. h \in [0 .. k -> Nat]
      <4>1. \A i \in 0 .. k : i # k => i \in 0 .. k - 1
        BY <3>1
      <4> QED
        BY <3>4, <4>1
    <3>6. h[0] = 0 /\ h[k] = h[k - 1] + len + 1
      BY <3>1, <3>4
    <3>7. \A i \in 1 .. k - 1 : h[i] = e[i] /\ h[i - 1] = e[i - 1]
      BY <3>1
    <3> HIDE DEF h
    <3>8. ASSUME NEW i \in 1 .. k PROVE h[i] = h[i - 1] + Len(ss[i]) + 1
      <4>1. CASE i = k
        BY <3>3, <3>6, <4>1
      <4>2. CASE i # k
        <5>1. i \in 1 .. k - 1
          BY <3>1, <4>2
        <5> QED
          BY <3>2, <3>7, <5>1 DEF Ends
      <4> QED
        BY <4>1, <4>2
    <3>9. Ends(ss, k, h)
      BY <3>5, <3>6, <3>8 DEF Ends
    <3> QED
      BY <2>1, <3>9
  <2> QED
    BY <2>2, <2>3
<1> QED
  <2>1. n \in 0 .. n
    OBVIOUS
  <2> QED
    BY <1>1, <2>1

\* A line goes behind the lines there are.
LEMMA FillMore ==
    ASSUME NEW T, NEW nl \in T, NEW ss, NEW n \in Nat, LinesOver(ss, n, T),
           NEW e, Ends(ss, n, e), NEW m \in 1 .. n,
           NEW f \in Seq(T), Fill(f, ss, m - 1, e, nl)
    PROVE  /\ f \o Append(ss[m], nl) \in Seq(T)
           /\ Fill(f \o Append(ss[m], nl), ss, m, e, nl)
<1>1. PICK s \in Seq(T) : s = ss[m] /\ Len(s) \in Nat
    BY DEF LinesOver
<1>2. PICK t \in Seq(T) : /\ t = Append(s, nl) /\ Len(t) = Len(s) + 1 /\ t[Len(s) + 1] = nl
                          /\ \A p \in 1 .. Len(s) : t[p] = s[p]
  <2>1. /\ Append(s, nl) \in Seq(T) /\ Len(Append(s, nl)) = Len(s) + 1
        /\ Append(s, nl)[Len(s) + 1] = nl /\ \A p \in 1 .. Len(s) : Append(s, nl)[p] = s[p]
    BY AppendProperties
  <2> QED
    BY <2>1
<1>3. Len(f) \in Nat /\ Len(f) = e[m - 1] /\ e[m] = e[m - 1] + Len(s) + 1
    BY <1>1, LenProperties DEF Ends, Fill
<1> DEFINE h == f \o t
<1>4. /\ h \in Seq(T) /\ Len(h) = e[m]
      /\ \A i \in 1 .. e[m] : h[i] = IF i <= e[m - 1] THEN f[i] ELSE t[i - e[m - 1]]
  <2>1. /\ h \in Seq(T) /\ Len(h) = Len(f) + Len(t)
        /\ \A i \in 1 .. Len(f) + Len(t) : h[i] = IF i <= Len(f) THEN f[i] ELSE t[i - Len(f)]
    BY ConcatProperties
  <2>2. Len(f) + Len(t) = e[m]
    BY <1>1, <1>2, <1>3
  <2> QED
    BY <1>3, <2>1, <2>2
<1> HIDE DEF h
<1>5. LiesAt(h, ss, m, e, nl)
  <2>1. h[e[m]] = nl
    <3>1. e[m] \in 1 .. e[m] /\ ~(e[m] <= e[m - 1]) /\ e[m] - e[m - 1] = Len(s) + 1
      BY <1>1, <1>3
    <3> QED
      BY <1>2, <1>4, <3>1
  <2>2. ASSUME NEW p \in 1 .. Len(s) PROVE h[e[m - 1] + p] = s[p]
    <3>1. /\ e[m - 1] + p \in 1 .. e[m] /\ ~(e[m - 1] + p <= e[m - 1])
          /\ (e[m - 1] + p) - e[m - 1] = p
      BY <1>1, <1>3
    <3> QED
      BY <1>2, <1>4, <3>1
  <2> QED
    BY <1>1, <2>1, <2>2 DEF LiesAt
<1>6. ASSUME NEW k \in 1 .. m - 1 PROVE e[k] <= e[m] /\ LiesAt(h, ss, k, e, nl)
  <2>1. e[k] <= e[m - 1] /\ LiesAt(f, ss, k, e, nl)
    BY DEF Fill
  <2>2. PICK len \in Nat : len = Len(ss[k])
    BY DEF LinesOver
  <2>3. e[k] \in Nat /\ e[k - 1] \in Nat /\ e[k] = e[k - 1] + len + 1
    <3>1. k \in 1 .. n /\ k \in 0 .. n /\ k - 1 \in 0 .. n
      OBVIOUS
    <3> QED
      BY <2>2, <3>1 DEF Ends
  <2>4. e[k] <= e[m] /\ e[k] \in 1 .. e[m]
    <3>1. e[m] \in Nat /\ e[m - 1] \in Nat /\ e[m - 1] <= e[m]
      BY <1>1, <1>3
    <3>2. PICK c \in Nat, d \in Nat, g \in Nat : c = e[k] /\ d = e[m - 1] /\ g = e[m]
      BY <2>3, <3>1
    <3>3. c <= d /\ d <= g /\ 1 <= c
      <4>1. PICK b \in Nat : b = e[k - 1]
        BY <2>3
      <4>2. c = b + len + 1
        BY <2>3, <3>2, <4>1
      <4>3. c <= d /\ d <= g
        BY <2>1, <3>1, <3>2
      <4> QED
        BY <4>2, <4>3
    <3>4. c <= g /\ c \in 1 .. g
      BY <3>3
    <3> QED
      BY <3>2, <3>4
  <2>5. h[e[k]] = f[e[k]]
    BY <1>4, <2>1, <2>4
  <2>6. ASSUME NEW p \in 1 .. len PROVE h[e[k - 1] + p] = f[e[k - 1] + p]
    <3>1. e[m] \in Nat /\ e[m - 1] \in Nat /\ e[m - 1] <= e[m]
      BY <1>1, <1>3
    <3>2. e[k - 1] + p \in 1 .. e[m] /\ e[k - 1] + p <= e[m - 1]
      <4>1. PICK c \in Nat, d \in Nat, g \in Nat : c = e[k - 1] /\ d = e[m - 1] /\ g = e[m]
        BY <2>3, <3>1
      <4>2. c + len + 1 <= d /\ d <= g
        BY <2>1, <2>3, <3>1, <4>1
      <4>3. p \in Nat /\ 1 <= p /\ p <= len
        BY <2>2
      <4>4. c + p \in 1 .. g /\ c + p <= d
        BY <2>2, <4>2, <4>3
      <4> QED
        BY <4>1, <4>4
    <3> QED
      BY <1>4, <3>2
  <2> QED
    BY <2>1, <2>2, <2>4, <2>5, <2>6 DEF LiesAt
<1>7. Fill(h, ss, m, e, nl)
  <2>1. e[m] \in Nat
    BY DEF Ends
  <2>2. \A k \in 1 .. m : k = m \/ k \in 1 .. m - 1
    OBVIOUS
  <2> QED
    BY <1>4, <1>5, <1>6, <2>1, <2>2 DEF Fill
<1> QED
    BY <1>1, <1>2, <1>4, <1>7 DEF h

\* Lines put one behind the other, each with its newline, lie in order.
LEMMA LinesFill ==
    ASSUME NEW T, NEW nl \in T, NEW ss, NEW n \in Nat, LinesOver(ss, n, T),
           NEW e, Ends(ss, n, e),
           NEW tt, Len(tt) = n, tt = [k \in 1 .. n |-> Append(ss[k], nl)]
    PROVE  FlattenSeq(tt) \in Seq(T) /\ Fill(FlattenSeq(tt), ss, n, e, nl)
<1>1. CASE n = 0
  <2>1. tt = <<>>
    BY <1>1
  <2>2. <<>> \in Seq(T) /\ Fill(<<>>, ss, 0, e, nl)
    <3>1. e[0] = 0 /\ Len(<<>>) = 0
      BY DEF Ends
    <3> QED
      BY <3>1 DEF Fill
  <2> QED
    BY <1>1, <2>1, <2>2, FlattenEmpty
<1>2. CASE n # 0
  <2>1. PICK g : Flattens(tt, n, g) /\ FlattenSeq(tt) = g[n]
    BY <1>2, FlattenIs
  <2> DEFINE I == {i \in 1 .. n : ~(g[i] \in Seq(T) /\ Fill(g[i], ss, i, e, nl))}
  <2>2. ASSUME I # {} PROVE FALSE
    <3>1. PICK k \in I : \A j \in I : k <= j
      <4>1. I \subseteq Nat
        OBVIOUS
      <4> HIDE DEF I
      <4> QED
        BY <2>2, <4>1, LeastOf
    <3>2. k \in 1 .. n /\ k - 1 \in Nat
      BY <3>1
    <3>3. g[k] = IF k = 1 THEN tt[k] ELSE g[k - 1] \o tt[k]
      BY <2>1, <3>2 DEF Flattens
    <3>4. tt[k] = Append(ss[k], nl)
      BY <3>2
    <3>5. PICK f \in Seq(T) : g[k] = f \o tt[k] /\ Fill(f, ss, k - 1, e, nl)
      <4>1. CASE k = 1
        <5>1. e[0] = 0 /\ Len(<<>>) = 0
          BY DEF Ends
        <5>2. <<>> \in Seq(T) /\ Fill(<<>>, ss, k - 1, e, nl)
          BY <4>1, <5>1 DEF Fill
        <5>3. tt[k] \in Seq(T)
          <6>1. ss[k] \in Seq(T)
            BY <3>2 DEF LinesOver
          <6> QED
            BY <3>4, <6>1, AppendProperties
        <5>4. <<>> \o tt[k] = tt[k]
          BY <5>3, ConcatEmptySeq
        <5> QED
          BY <3>3, <4>1, <5>2, <5>4
      <4>2. CASE k # 1
        <5>1. k - 1 \in 1 .. n /\ ~(k <= k - 1)
          BY <3>2, <4>2
        <5>2. k - 1 \notin I
          BY <3>1, <5>1
        <5> QED
          BY <3>3, <4>2, <5>1, <5>2
      <4> QED
        BY <4>1, <4>2
    <3>6. g[k] \in Seq(T) /\ Fill(g[k], ss, k, e, nl)
      BY <3>2, <3>4, <3>5, FillMore
    <3> QED
      BY <3>1, <3>6
  <2>3. n \in 1 .. n
    BY <1>2
  <2> QED
    BY <2>1, <2>2, <2>3
<1> QED
    BY <1>1, <1>2

\* The ends of lines are in order.
LEMMA EndsGrow ==
    ASSUME NEW T, NEW ss, NEW n \in Nat, LinesOver(ss, n, T), NEW e, Ends(ss, n, e),
           NEW a \in 0 .. n, NEW b \in 0 .. n, a < b
    PROVE  e[a] < e[b]
<1> DEFINE I == {k \in 0 .. n : a < k /\ ~(e[a] < e[k])}
<1>1. ASSUME I # {} PROVE FALSE
  <2>1. PICK k \in I : \A j \in I : k <= j
    <3>1. I \subseteq Nat
      OBVIOUS
    <3> HIDE DEF I
    <3> QED
      BY <1>1, <3>1, LeastOf
  <2>2. k \in 1 .. n /\ k - 1 \in 0 .. n /\ a < k /\ ~(e[a] < e[k]) /\ ~(k <= k - 1)
    BY <2>1
  <2>3. PICK len \in Nat : len = Len(ss[k])
    BY <2>2 DEF LinesOver
  <2>4. /\ e[k] = e[k - 1] + len + 1
        /\ e[k - 1] \in Nat /\ e[k] \in Nat /\ e[a] \in Nat
    BY <2>2, <2>3 DEF Ends
  <2>5. CASE a = k - 1
    BY <2>2, <2>4, <2>5
  <2>6. CASE a # k - 1
    <3>1. a < k - 1
      BY <2>2, <2>6
    <3>2. e[a] < e[k - 1]
      BY <2>1, <2>2, <3>1
    <3> QED
      BY <2>2, <2>4, <3>2
  <2> QED
    BY <2>5, <2>6
<1> QED
    BY <1>1

\* Every place up to the last end is in one of the lines, or is its end.
LEMMA InALine ==
    ASSUME NEW T, NEW ss, NEW n \in Nat, LinesOver(ss, n, T), NEW e, Ends(ss, n, e),
           NEW p \in 1 .. e[n]
    PROVE  \E k \in 1 .. n : e[k - 1] < p /\ p <= e[k]
<1> DEFINE I == {k \in 0 .. n : p <= e[k]}
<1>1. PICK k \in I : \A j \in I : k <= j
  <2>1. n \in I
    OBVIOUS
  <2>2. I \subseteq Nat /\ I # {}
    BY <2>1
  <2> HIDE DEF I
  <2> QED
    BY <2>2, LeastOf
<1>2. k \in 0 .. n /\ p <= e[k] /\ e[k] \in Nat /\ e[n] \in Nat /\ e[0] = 0
    BY <1>1 DEF Ends
<1>3. k # 0 /\ p \in Nat /\ p >= 1
    BY <1>2
<1>4. k \in 1 .. n /\ k - 1 \in 0 .. n /\ ~(k <= k - 1)
    BY <1>2, <1>3
<1>5. ~(p <= e[k - 1]) /\ e[k - 1] \in Nat
    BY <1>1, <1>4 DEF Ends
<1> QED
    BY <1>2, <1>3, <1>4, <1>5

\* No word is a newline.
PlainLine(s, nl) == \A p \in 1 .. Len(s) : s[p] # nl
Plain(ss, n, nl) == \A k \in 1 .. n : PlainLine(ss[k], nl)

FirstOf(e, n) == {e[k] : k \in 1 .. n}
Newlines(f, nl) == {p \in DOMAIN f : f[p] = nl}
Between(f, e, k) == SubSeq(f, e[k - 1] + 1, e[k] - 1)

\* The newlines of a file are the ends of its lines.
LEMMA NewlinesAreEnds ==
    ASSUME NEW T, NEW nl \in T, NEW ss, NEW n \in Nat, LinesOver(ss, n, T), Plain(ss, n, nl),
           NEW e, Ends(ss, n, e), NEW f \in Seq(T), Fill(f, ss, n, e, nl),
           NEW tail \in Seq(T), PlainLine(tail, nl)
    PROVE  Newlines(f \o tail, nl) = FirstOf(e, n)
<1> DEFINE h == f \o tail
<1>1. /\ Len(f) = e[n] /\ Len(f) \in Nat /\ Len(tail) \in Nat
      /\ DOMAIN h = 1 .. Len(f) + Len(tail)
      /\ \A p \in 1 .. Len(f) + Len(tail) : h[p] = IF p <= Len(f) THEN f[p] ELSE tail[p - Len(f)]
  <2>1. Len(f) = e[n]
    BY DEF Fill
  <2>2. h \in Seq(T) /\ Len(h) = Len(f) + Len(tail)
    BY ConcatProperties
  <2>3. DOMAIN h = 1 .. Len(h)
    BY <2>2, LenProperties
  <2>4. Len(f) \in Nat /\ Len(tail) \in Nat
    BY LenProperties
  <2>5. \A p \in 1 .. Len(f) + Len(tail) : h[p] = IF p <= Len(f) THEN f[p] ELSE tail[p - Len(f)]
    BY ConcatProperties
  <2> QED
    BY <2>1, <2>2, <2>3, <2>4, <2>5
<1> HIDE DEF h
<1>2. ASSUME NEW k \in 1 .. n PROVE e[k] \in DOMAIN h /\ h[e[k]] = nl
  <2>1. PICK len \in Nat : len = Len(ss[k])
    BY DEF LinesOver
  <2>2. e[k] = e[k - 1] + len + 1 /\ e[k] \in Nat /\ e[k - 1] \in Nat
    BY <2>1 DEF Ends
  <2>3. e[k] <= e[n] /\ f[e[k]] = nl
    BY DEF Fill, LiesAt
  <2>4. e[k] \in 1 .. Len(f) + Len(tail) /\ e[k] <= Len(f)
    BY <1>1, <2>1, <2>2, <2>3
  <2> QED
    BY <1>1, <2>3, <2>4
<1>3. ASSUME NEW p \in DOMAIN h, h[p] = nl PROVE \E k \in 1 .. n : p = e[k]
  <2>1. p \in 1 .. Len(f) + Len(tail)
    BY <1>1
  <2>2. p <= Len(f)
    <3>1. ASSUME ~(p <= Len(f)) PROVE FALSE
      <4>1. p - Len(f) \in 1 .. Len(tail)
        BY <1>1, <2>1, <3>1
      <4>2. h[p] = tail[p - Len(f)]
        BY <1>1, <2>1, <3>1
      <4> QED
        BY <1>3, <4>1, <4>2 DEF PlainLine
    <3> QED
      BY <3>1
  <2>3. p \in 1 .. e[n] /\ f[p] = nl
    BY <1>1, <1>3, <2>1, <2>2
  <2>4. PICK k \in 1 .. n : e[k - 1] < p /\ p <= e[k]
    BY <2>3, InALine
  <2>5. PICK len \in Nat : len = Len(ss[k])
    BY DEF LinesOver
  <2>6. e[k] = e[k - 1] + len + 1 /\ e[k] \in Nat /\ e[k - 1] \in Nat
    BY <2>5 DEF Ends
  <2>7. LiesAt(f, ss, k, e, nl)
    BY DEF Fill
  <2>8. p = e[k]
    <3>1. ASSUME p # e[k] PROVE FALSE
      <4>1. p - e[k - 1] \in 1 .. len /\ e[k - 1] + (p - e[k - 1]) = p
        <5>1. PICK c \in Nat : c = e[k - 1]
          BY <2>6
        <5>2. p \in Nat /\ c < p /\ p < c + len + 1
          BY <2>1, <2>4, <2>5, <2>6, <3>1, <5>1
        <5>3. p - c \in 1 .. len /\ c + (p - c) = p
          BY <2>5, <5>2
        <5> QED
          BY <5>1, <5>3
      <4>2. f[p] = ss[k][p - e[k - 1]]
        BY <2>5, <2>7, <4>1 DEF LiesAt
      <4> QED
        BY <2>3, <2>5, <4>1, <4>2 DEF Plain, PlainLine
    <3> QED
      BY <3>1
  <2> QED
    BY <2>8
<1> QED
    BY <1>2, <1>3 DEF h, Newlines, FirstOf

\* A line is what lies between two ends.
LEMMA LineBetween ==
    ASSUME NEW T, NEW nl \in T, NEW ss, NEW n \in Nat, LinesOver(ss, n, T),
           NEW e, Ends(ss, n, e), NEW f \in Seq(T), Fill(f, ss, n, e, nl),
           NEW tail \in Seq(T), NEW k \in 1 .. n
    PROVE  Between(f \o tail, e, k) = ss[k]
<1> DEFINE h == f \o tail
<1>1. /\ Len(f) = e[n] /\ Len(f) \in Nat /\ Len(tail) \in Nat
      /\ \A p \in 1 .. Len(f) + Len(tail) : h[p] = IF p <= Len(f) THEN f[p] ELSE tail[p - Len(f)]
  <2>1. Len(f) = e[n]
    BY DEF Fill
  <2>2. Len(f) \in Nat /\ Len(tail) \in Nat
    BY LenProperties
  <2>3. \A p \in 1 .. Len(f) + Len(tail) : h[p] = IF p <= Len(f) THEN f[p] ELSE tail[p - Len(f)]
    BY ConcatProperties
  <2> QED
    BY <2>1, <2>2, <2>3
<1>2. PICK s \in Seq(T) : s = ss[k]
    BY DEF LinesOver
<1>3. PICK len \in Nat : len = Len(s)
    BY LenProperties
<1>4. PICK c \in Nat, d \in Nat : /\ c = e[k - 1] /\ c + len + 1 = e[k] /\ d = Len(f) + Len(tail)
                                  /\ c + len + 1 <= Len(f) /\ c + len + 1 <= d
  <2>1. e[k] = e[k - 1] + len + 1 /\ e[k - 1] \in Nat /\ e[k] <= e[n] /\ e[n] \in Nat
    BY <1>2, <1>3 DEF Ends, Fill
  <2>2. PICK c \in Nat : c = e[k - 1]
    BY <2>1
  <2>3. PICK l \in Nat, t \in Nat : l = Len(f) /\ t = Len(tail)
    BY <1>1
  <2>4. c + len + 1 <= l
    BY <1>1, <2>1, <2>2, <2>3
  <2>5. c + len + 1 <= l + t /\ l + t \in Nat
    BY <1>3, <2>4
  <2> QED
    BY <2>1, <2>2, <2>3, <2>4, <2>5
<1>5. c \in Nat /\ len \in Nat
    BY <1>3, <1>4
<1>6. ASSUME NEW p \in 1 .. len PROVE h[c + p] = s[p]
  <2>1. c + p \in 1 .. d /\ c + p <= c + len + 1
    <3>1. p \in Nat /\ 1 <= p /\ p <= len /\ c + len + 1 <= d
      BY <1>4
    <3> QED
      BY <3>1
  <2>2. c + p <= Len(f)
    <3>1. PICK l \in Nat : l = Len(f)
      BY <1>1
    <3>2. c + len + 1 <= l
      BY <1>4, <3>1
    <3>3. c + p <= l
      BY <1>5, <3>2
    <3> QED
      BY <3>1, <3>3
  <2>3. f[c + p] = s[p]
    BY <1>2, <1>3, <1>4 DEF Fill, LiesAt
  <2> QED
    BY <1>1, <1>4, <2>1, <2>2, <2>3
<1> HIDE DEF h
<1>7. \A i \in c + 1 .. c + len : h[i] \in T
  <2>1. ASSUME NEW i \in c + 1 .. c + len PROVE h[i] \in T
    <3>1. i - c \in 1 .. len /\ c + (i - c) = i
      BY <1>5
    <3>2. h[i] = s[i - c]
      BY <1>6, <3>1
    <3> QED
      BY <1>3, <3>1, <3>2, ElementOfSeq
  <2> QED
    BY <2>1
<1>8. PICK t \in Seq(T) : /\ t = SubSeq(h, c + 1, c + len) /\ Len(t) = len
                          /\ \A i \in 1 .. len : t[i] = h[c + i]
  <2>1. PICK a \in Int, b \in Int : a = c + 1 /\ b = c + len
    BY <1>3, <1>4
  <2>2. /\ SubSeq(h, a, b) \in Seq(T)
        /\ Len(SubSeq(h, a, b)) = IF a <= b THEN b - a + 1 ELSE 0
        /\ \A i \in 1 .. b - a + 1 : SubSeq(h, a, b)[i] = h[a + i - 1]
    BY <1>7, <2>1, SubSeqProperties
  <2>3. b - a + 1 = len /\ (a <= b <=> len # 0)
    BY <1>5, <2>1
  <2>4. \A i \in 1 .. len : a + i - 1 = c + i
    BY <1>5, <2>1
  <2> DEFINE q == SubSeq(h, a, b)
  <2>5. q \in Seq(T)
    BY <2>2
  <2>6. Len(q) = len
    BY <1>5, <2>2, <2>3
  <2>7. \A i \in 1 .. len : q[i] = h[c + i]
    BY <2>2, <2>3, <2>4
  <2>8. q = SubSeq(h, c + 1, c + len)
    BY <2>1
  <2> HIDE DEF q
  <2> QED
    BY <2>5, <2>6, <2>7, <2>8
<1>9. t = s
    BY <1>3, <1>6, <1>8, SeqEqual
<1>10. e[k - 1] + 1 = c + 1 /\ e[k] - 1 = c + len
  <2>1. (c + len + 1) - 1 = c + len
    BY <1>5
  <2> QED
    BY <1>4, <2>1
<1> QED
    BY <1>2, <1>8, <1>9, <1>10 DEF h, Between

\* So many numbers, each larger than the one before.
LEMMA CountRising ==
    ASSUME NEW n \in Nat, NEW e, \A k \in 1 .. n : e[k] \in Nat,
           \A a, b \in 1 .. n : a < b => e[a] < e[b],
           NEW m \in 0 .. n
    PROVE  Cardinality({e[k] : k \in 1 .. m}) = m
<1> DEFINE S == {e[k] : k \in 1 .. m}
           f == [k \in 1 .. m |-> e[k]]
<1>1. \A a \in 1 .. m : a \in 1 .. n
    OBVIOUS
<1>2. f \in [1 .. m -> S]
    OBVIOUS
<1>3. ASSUME NEW a \in 1 .. m, NEW b \in 1 .. m, f[a] = f[b] PROVE a = b
  <2>1. a \in 1 .. n /\ b \in 1 .. n /\ e[a] = e[b]
    BY <1>1, <1>3
  <2>2. e[a] \in Nat /\ e[b] \in Nat /\ ~(e[a] < e[b]) /\ ~(e[b] < e[a])
    BY <2>1
  <2> QED
    BY <2>1, <2>2
<1>4. \A s \in S : \E a \in 1 .. m : f[a] = s
    OBVIOUS
<1>5. ExistsBijection(1 .. m, S)
    BY <1>2, <1>3, <1>4 DEF ExistsBijection, Bijection, Injection, Surjection, IsInjective
<1> HIDE DEF S
<1>6. m \in Nat
    OBVIOUS
<1> QED
    BY <1>5, <1>6, FS_CountingElements DEF S

\* Numbers that rise are in order.
LEMMA RisingInOrder ==
    ASSUME NEW n \in Nat, NEW e, \A k \in 1 .. n : e[k] \in Nat,
           \A a, b \in 1 .. n : a < b => e[a] < e[b]
    PROVE  InOrder(FirstOf(e, n)) = [k \in 1 .. n |-> e[k]]
<1> DEFINE S == {e[k] : k \in 1 .. n}
           Below(i) == {j \in S : j < i}
<1>1. Cardinality(S) = n
  <2>1. n \in 0 .. n
    OBVIOUS
  <2> QED
    BY <2>1, CountRising
<1>2. ASSUME NEW k \in 1 .. n PROVE Cardinality(Below(e[k])) = k - 1
  <2>1. Below(e[k]) \subseteq {e[m] : m \in 1 .. k - 1}
    <3>1. ASSUME NEW m \in 1 .. n, e[m] < e[k] PROVE m \in 1 .. k - 1
      <4>1. e[m] \in Nat /\ e[k] \in Nat /\ ~(e[k] < e[m]) /\ e[k] # e[m]
        BY <3>1
      <4>2. ~(k < m) /\ k # m
        BY <4>1
      <4> QED
        BY <4>2
    <3> QED
      BY <3>1
  <2>2. {e[m] : m \in 1 .. k - 1} \subseteq Below(e[k])
    <3>1. ASSUME NEW m \in 1 .. k - 1 PROVE m \in 1 .. n /\ e[m] < e[k]
      <4>1. m \in 1 .. n /\ m < k
        OBVIOUS
      <4> QED
        BY <4>1
    <3> QED
      BY <3>1
  <2>3. k - 1 \in 0 .. n
    OBVIOUS
  <2>4. Below(e[k]) = {e[m] : m \in 1 .. k - 1}
    BY <2>1, <2>2
  <2> HIDE DEF Below
  <2> QED
    BY <2>3, <2>4, CountRising
<1>3. ASSUME NEW k \in 1 .. n
      PROVE  (CHOOSE i \in S : Cardinality(Below(i)) = k - 1) = e[k]
  <2>1. e[k] \in S /\ Cardinality(Below(e[k])) = k - 1
    BY <1>2
  <2>2. ASSUME NEW i \in S, Cardinality(Below(i)) = k - 1 PROVE i = e[k]
    <3>1. PICK m \in 1 .. n : i = e[m]
      OBVIOUS
    <3> HIDE DEF S, Below
    <3>2. m - 1 = k - 1
      BY <1>2, <2>2, <3>1
    <3> QED
      BY <3>1, <3>2
  <2> HIDE DEF S, Below
  <2> QED
    BY <2>1, <2>2
<1>4. InOrder(S) = [k \in 1 .. Cardinality(S) |-> CHOOSE i \in S : Cardinality(Below(i)) = k - 1]
    BY DEF InOrder
<1> HIDE DEF S, Below
<1>5. InOrder(S) = [k \in 1 .. n |-> e[k]]
    BY <1>1, <1>3, <1>4
<1> QED
    BY <1>5 DEF S, FirstOf

\* Each line, with its newline.
Newlined(tt, ss, n, nl) == Len(tt) = n /\ tt = [k \in 1 .. n |-> Append(ss[k], nl)]

\* e holds the places of f's newlines, and the lines lie between them.
Located(f, ss, n, e, nl) ==
    /\ e \in [0 .. n -> Nat] /\ e[0] = 0
    /\ InOrder(Newlines(f, nl)) = [k \in 1 .. n |-> e[k]]
    /\ \A k \in 1 .. n : Between(f, e, k) = ss[k]

\* The places where a file's lines end, and what lies between them.
LEMMA FileOfLines ==
    ASSUME NEW T, NEW nl \in T, NEW ss, NEW n \in Nat, LinesOver(ss, n, T), Plain(ss, n, nl),
           NEW tt, Newlined(tt, ss, n, nl),
           NEW tail \in Seq(T), PlainLine(tail, nl),
           NEW f, f = FlattenSeq(tt) \o tail
    PROVE  \E e : Located(f, ss, n, e, nl)
<1>1. PICK e : Ends(ss, n, e)
    BY EndsExist
<1>2. PICK g \in Seq(T) : g = FlattenSeq(tt) /\ Fill(g, ss, n, e, nl)
    BY <1>1, LinesFill DEF Newlined
<1>3. Newlines(f, nl) = FirstOf(e, n)
  <2>1. Newlines(g \o tail, nl) = FirstOf(e, n)
    BY <1>1, <1>2, NewlinesAreEnds
  <2> QED
    BY <1>2, <2>1, Zenon
<1>4. ASSUME NEW k \in 1 .. n PROVE Between(f, e, k) = ss[k]
  <2>1. Between(g \o tail, e, k) = ss[k]
    BY <1>1, <1>2, LineBetween
  <2> QED
    BY <1>2, <2>1, Zenon
<1>5. \A k \in 1 .. n : e[k] \in Nat
    BY <1>1 DEF Ends
<1>6. ASSUME NEW a \in 1 .. n, NEW b \in 1 .. n, a < b PROVE e[a] < e[b]
  <2>1. a \in 0 .. n /\ b \in 0 .. n
    OBVIOUS
  <2> QED
    BY <1>1, <1>6, <2>1, EndsGrow
<1>7. InOrder(FirstOf(e, n)) = [k \in 1 .. n |-> e[k]]
    BY <1>5, <1>6, RisingInOrder
<1>8. e \in [0 .. n -> Nat] /\ e[0] = 0
    BY <1>1 DEF Ends
<1> QED
    BY <1>3, <1>4, <1>7, <1>8 DEF Located

----------------------------------------------------------------------------
(***************************************************************************)
(* The delegator.                                                          *)
(***************************************************************************)

\* What a file is made of.
Word == STRING \cup {Delegator!Newline}

\* Where the k-th line of a file ends.
Place(f, k) == IF k = 0 THEN 0 ELSE InOrder(Newlines(f, Delegator!Newline))[k]

\* The newlines of the file end the lines.
FileInv(f, ss) ==
    /\ Len(ss) \in Nat /\ LinesOver(ss, Len(ss), Word)
    /\ DOMAIN InOrder(Newlines(f, Delegator!Newline)) = 1 .. Len(ss)
    /\ \A k \in 1 .. Len(ss) :
          Place(f, k) \in Nat /\ SubSeq(f, Place(f, k - 1) + 1, Place(f, k) - 1) = ss[k]

\* The j-th word of the last of the first k lines that has one, and the instruction that
\* these words make.
Latest(ss, k, j) == ss[Delegator!Max({m \in 1 .. k : Len(ss[m]) >= j})][j]
Given(ss, k) ==
    [j \in 1 .. 3 |-> IF \E m \in 1 .. k : Len(ss[m]) >= j THEN Latest(ss, k, j)
                                                            ELSE Delegator!Garbage]

(***************************************************************************)
(* The second loop has put the instructions of the lines before its own in *)
(* the place of their ends; the third has carried out those before its own.*)
(***************************************************************************)
DelegatorInv ==
    /\ state \in {"open", "index", "parse", "run", "end", "failed", "fault"}
    /\ state \in {"open", "index"} =>
          loop = 1 /\ begin = 1 /\ value = 0 /\ words = Given(lines, 0)
    /\ state \in {"index", "parse", "run", "end"} => FileInv(file, lines)
    /\ state \in {"parse", "run"} => loop \in 1 .. Len(lines) + 1
    /\ state = "parse" =>
          /\ begin = Place(file, loop - 1) + 1 /\ value = 0
          /\ words = Given(lines, loop - 1)
          /\ index = [k \in 1 .. Len(lines) |->
                         IF k < loop THEN Given(lines, k) ELSE <<Place(file, k)>>]
    /\ state = "run" =>
          /\ index = [k \in 1 .. Len(lines) |-> Given(lines, k)]
          /\ value = Delegator!Carried[loop - 1]
    /\ state = "end" => Delegated

\* Before the first line no word is given.
LEMMA GivenNone == ASSUME NEW ss
                   PROVE  Given(ss, 0) =
                            <<Delegator!Garbage, Delegator!Garbage, Delegator!Garbage>>
<1>1. Given(ss, 0) = [j \in 1 .. 3 |-> Delegator!Garbage]
    BY DEF Given
<1> QED
    BY <1>1

\* The largest of some numbers, when it is known.
LEMMA MaxIs ==
    ASSUME NEW S, NEW m \in S, S \subseteq Nat, \A i \in S : i <= m
    PROVE  Delegator!Max(S) = m
<1>1. \A i \in S : m >= i
    OBVIOUS
<1>2. ASSUME NEW i \in S, \A j \in S : i >= j PROVE i = m
  <2>1. i >= m /\ i <= m /\ i \in Nat /\ m \in Nat
    BY <1>2
  <2> QED
    BY <2>1
<1> QED
    BY <1>1, <1>2 DEF Delegator!Max

\* sscanf takes the words that a line has and leaves the others.
LEMMA GivenMore ==
    ASSUME NEW n \in Nat, NEW ss, LinesOver(ss, n, Word), NEW k \in 1 .. n
    PROVE  [j \in 1 .. 3 |-> IF j \in DOMAIN ss[k] THEN ss[k][j] ELSE Given(ss, k - 1)[j]]
               = Given(ss, k)
<1> DEFINE Having(m, j) == {i \in 1 .. m : Len(ss[i]) >= j}
<1>1. \A i \in 1 .. n : Len(ss[i]) \in Nat /\ DOMAIN ss[i] = 1 .. Len(ss[i])
    BY LenProperties DEF LinesOver
<1>2. k \in Nat /\ k - 1 \in Nat
    OBVIOUS
<1>3. ASSUME NEW j \in 1 .. 3
      PROVE  (IF j \in DOMAIN ss[k] THEN ss[k][j] ELSE Given(ss, k - 1)[j]) = Given(ss, k)[j]
  <2>1. CASE j \in DOMAIN ss[k]
    <3>1. Len(ss[k]) >= j
      BY <1>1, <2>1
    <3>2. k \in Having(k, j) /\ Having(k, j) \subseteq Nat /\ \A i \in Having(k, j) : i <= k
      BY <3>1
    <3>3. Delegator!Max(Having(k, j)) = k
      <4> HIDE DEF Having
      <4> QED
        BY <3>2, MaxIs
    <3>4. Latest(ss, k, j) = ss[k][j]
      BY <3>3 DEF Latest
    <3>5. \E m \in 1 .. k : Len(ss[m]) >= j
      BY <3>1
    <3>6. Given(ss, k)[j] = Latest(ss, k, j)
      BY <3>5 DEF Given
    <3> QED
      BY <2>1, <3>4, <3>6
  <2>2. CASE j \notin DOMAIN ss[k]
    <3>1. ~(Len(ss[k]) >= j)
      BY <1>1, <2>2
    <3>2. \A i : i \in 1 .. k <=> (i = k \/ i \in 1 .. k - 1)
      BY <1>2
    <3>3. Having(k, j) = Having(k - 1, j)
      BY <3>1, <3>2
    <3>4. Latest(ss, k, j) = Latest(ss, k - 1, j)
      BY <3>3 DEF Latest
    <3>5. (\E m \in 1 .. k : Len(ss[m]) >= j) <=> (\E m \in 1 .. k - 1 : Len(ss[m]) >= j)
      BY <3>1, <3>2
    <3>6. Given(ss, k)[j] = Given(ss, k - 1)[j]
      BY <3>4, <3>5 DEF Given
    <3> QED
      BY <2>2, <3>6
  <2> QED
    BY <2>1, <2>2
<1>4. Given(ss, k) = [j \in 1 .. 3 |-> Given(ss, k)[j]]
    BY DEF Given
<1> QED
    BY <1>3, <1>4

\* A file that is read has its lines.
LEMMA LoadedFile ==
    ASSUME NEW ls, NEW n \in Nat, Len(ls) = n, DOMAIN ls = 1 .. n,
           \A k \in 1 .. n : ls[k] \in FileLines,
           NEW tail, tail \in FileLines \cup {<<>>},
           NEW f, f = FlattenSeq([k \in DOMAIN ls |-> Append(ls[k], Delegator!Newline)]) \o tail
    PROVE  FileInv(f, ls)
<1> DEFINE nl == Delegator!Newline
           tt == [k \in 1 .. n |-> Append(ls[k], nl)]
<1>1. nl \in Word
    BY DEF Word
<1> HIDE DEF nl
<1>2. ASSUME NEW l \in FileLines PROVE l \in Seq(Word) /\ Len(l) \in Nat /\ PlainLine(l, nl)
  <2>1. l \in Seq(STRING) /\ \A p \in DOMAIN l : l[p] # nl
    BY MCSequentialAssumption DEF Delegator!DelegatorAssumption, nl
  <2>2. Len(l) \in Nat /\ DOMAIN l = 1 .. Len(l)
    BY <2>1, LenProperties
  <2>3. l \in Seq(Word)
    BY <2>1, SeqMonotonic DEF Word
  <2> QED
    BY <2>1, <2>2, <2>3 DEF PlainLine
<1>3. LinesOver(ls, n, Word) /\ Plain(ls, n, nl)
    BY <1>2 DEF LinesOver, Plain
<1>4. tail \in Seq(Word) /\ PlainLine(tail, nl)
  <2>1. <<>> \in Seq(Word) /\ PlainLine(<<>>, nl)
    BY DEF PlainLine
  <2> QED
    BY <1>2, <2>1
<1>5. f = FlattenSeq(tt) \o tail
    BY DEF nl
<1>6. Newlined(tt, ls, n, nl)
    BY DEF Newlined
<1> HIDE DEF tt
<1>7. PICK e : Located(f, ls, n, e, nl)
    BY <1>1, <1>3, <1>4, <1>5, <1>6, FileOfLines
<1>8. ASSUME NEW k \in 0 .. n PROVE Place(f, k) = e[k]
  <2>1. k # 0 => k \in 1 .. n
    OBVIOUS
  <2> QED
    BY <1>7, <2>1 DEF Located, Place, nl
<1>9. ASSUME NEW k \in 1 .. n
      PROVE  Place(f, k) \in Nat /\ SubSeq(f, Place(f, k - 1) + 1, Place(f, k) - 1) = ls[k]
  <2>1. k \in 0 .. n /\ k - 1 \in 0 .. n
    OBVIOUS
  <2>2. Place(f, k) = e[k] /\ Place(f, k - 1) = e[k - 1] /\ e[k] \in Nat
    BY <1>7, <1>8, <2>1 DEF Located
  <2>3. Between(f, e, k) = ls[k]
    BY <1>7 DEF Located
  <2> QED
    BY <2>2, <2>3 DEF Between
<1>10. DOMAIN InOrder(Newlines(f, Delegator!Newline)) = 1 .. n
    BY <1>7 DEF Located, nl
<1> QED
    BY <1>3, <1>9, <1>10 DEF FileInv

\* g[k] is what the first k lines come to, as Carried computes it.
Carries(m, g) ==
    g = [k \in 0 .. m |-> IF k = 0 THEN 0 ELSE Delegator!Comes(Delegator!Meant(k), g[k - 1])]

\* For every number of lines the recursion defines it.
LEMMA CarriesExist ==
    ASSUME NEW n \in Nat
    PROVE  \E g : Carries(n, g)
<1> DEFINE I == {k \in Nat : ~ \E g : Carries(k, g)}
           Step(k, v) == Delegator!Comes(Delegator!Meant(k), v)
<1> HIDE DEF Step
<1>1. ASSUME NEW m, NEW g
      PROVE  Carries(m, g) <=> g = [k \in 0 .. m |-> IF k = 0 THEN 0 ELSE Step(k, g[k - 1])]
    BY DEF Carries, Step
<1>2. ASSUME I # {} PROVE FALSE
  <2>1. PICK k \in I : \A j \in I : k <= j
    <3>1. I \subseteq Nat
      OBVIOUS
    <3> HIDE DEF I
    <3> QED
      BY <1>2, <3>1, LeastOf
  <2>2. CASE k = 0
    <3> DEFINE z == [i \in 0 .. 0 |-> 0]
    <3>1. z = [i \in 0 .. 0 |-> IF i = 0 THEN 0 ELSE Step(i, z[i - 1])]
      OBVIOUS
    <3> HIDE DEF z
    <3>2. Carries(0, z)
      BY <1>1, <3>1
    <3> QED
      BY <2>1, <2>2, <3>2
  <2>3. CASE k # 0
    <3>1. k - 1 \in Nat /\ k \in Nat /\ k - 1 \notin I
      BY <2>1, <2>3
    <3>2. PICK g : Carries(k - 1, g)
      BY <3>1
    <3>3. g = [i \in 0 .. k - 1 |-> IF i = 0 THEN 0 ELSE Step(i, g[i - 1])]
      BY <1>1, <3>2
    <3> DEFINE h == [i \in 0 .. k |-> IF i = k THEN Step(k, g[k - 1]) ELSE g[i]]
    <3>4. ASSUME NEW i \in 0 .. k PROVE h[i] = IF i = 0 THEN 0 ELSE Step(i, h[i - 1])
      <4>1. CASE i = k
        <5>1. k - 1 \in 0 .. k /\ k - 1 # k
          BY <3>1
        <5>2. h[k - 1] = g[k - 1] /\ h[k] = Step(k, g[k - 1])
          BY <3>1, <5>1
        <5> QED
          BY <2>3, <4>1, <5>2
      <4>2. CASE i # k
        <5>1. i \in 0 .. (k - 1) /\ (i # 0 => i - 1 \in 0 .. k /\ i - 1 # k)
          BY <3>1, <4>2
        <5>2. g[i] = IF i = 0 THEN 0 ELSE Step(i, g[i - 1])
          BY <3>3, <5>1
        <5>3. h[i] = g[i] /\ (i # 0 => h[i - 1] = g[i - 1])
          BY <4>2, <5>1
        <5> QED
          BY <5>2, <5>3
      <4> QED
        BY <4>1, <4>2
    <3>5. h = [i \in 0 .. k |-> h[i]]
      OBVIOUS
    <3> HIDE DEF h
    <3>6. h = [i \in 0 .. k |-> IF i = 0 THEN 0 ELSE Step(i, h[i - 1])]
      BY <3>4, <3>5
    <3>7. Carries(k, h)
      BY <1>1, <3>6
    <3> QED
      BY <2>1, <3>7
  <2> QED
    BY <2>2, <2>3
<1> QED
    BY <1>2

\* What the first line, and what each line after it, adds.
LEMMA CarriedIs ==
    ASSUME Len(lines) \in Nat
    PROVE  /\ Delegator!Carried[0] = 0
           /\ \A k \in 1 .. Len(lines) :
                 Delegator!Carried[k] =
                     Delegator!Comes(Delegator!Meant(k), Delegator!Carried[k - 1])
<1>1. \E g : Carries(Len(lines), g)
    BY CarriesExist
<1>2. Delegator!Carried = CHOOSE g : Carries(Len(lines), g)
    BY DEF Delegator!Carried, Carries
<1>3. Carries(Len(lines), Delegator!Carried)
    BY <1>1, <1>2
<1> QED
    BY <1>3 DEF Carries

\* Before the file is read.
LEMMA InitDelegator == Delegator!Init => DelegatorInv
<1> SUFFICES ASSUME Delegator!Init PROVE DelegatorInv
    OBVIOUS
<1>1. /\ state = "open" /\ loop = 1 /\ begin = 1 /\ value = 0
      /\ words = <<Delegator!Garbage, Delegator!Garbage, Delegator!Garbage>>
    BY DEF Delegator!Init
<1>2. words = Given(lines, 0)
    BY <1>1, GivenNone
<1> QED
    BY <1>1, <1>2 DEF DelegatorInv

\* The file is read.
LEMMA LoadInv == ASSUME DelegatorInv, Delegator!Load PROVE DelegatorInv'
<1>1. /\ state = "open" /\ state' = "index"
      /\ UNCHANGED <<index, loop, begin, words, value>>
    BY DEF Delegator!Load
<1>2. PICK ls \in Delegator!BoundedSeq(FileLines, MaxInstructions), tail \in FileLines \cup {<<>>} :
          /\ lines' = ls
          /\ file' = Delegator!FlattenSeq(
                        [k \in DOMAIN ls |-> Append(ls[k], Delegator!Newline)]) \o tail
    BY DEF Delegator!Load
<1>3. PICK m \in 0 .. MaxInstructions : ls \in [1 .. m -> FileLines]
    BY <1>2 DEF Delegator!BoundedSeq, Delegator!SeqOf
<1>4. m \in Nat /\ Len(ls) = m /\ DOMAIN ls = 1 .. m /\ \A k \in 1 .. m : ls[k] \in FileLines
  <2>1. m \in Nat
    BY MCSequentialAssumption DEF Delegator!DelegatorAssumption
  <2>2. ls \in Seq(FileLines)
    BY <1>3, <2>1, SeqDef
  <2>3. DOMAIN ls = 1 .. m /\ DOMAIN ls = 1 .. Len(ls) /\ Len(ls) \in Nat
    BY <1>3, <2>2, LenProperties
  <2>4. Len(ls) = m
    BY <2>1, <2>3
  <2> QED
    BY <1>3, <2>1, <2>3, <2>4
<1>5. file' = FlattenSeq([k \in DOMAIN ls |-> Append(ls[k], Delegator!Newline)]) \o tail
  <2>1. ASSUME NEW ss PROVE Delegator!FlattenSeq(ss) = FlattenSeq(ss)
    BY DEF Delegator!FlattenSeq, FlattenSeq
  <2> QED
    BY <1>2, <2>1
<1>6. FileInv(file', lines')
    BY <1>2, <1>4, <1>5, LoadedFile
<1>7. words' = Given(lines', 0)
    BY <1>1, GivenNone DEF DelegatorInv
<1> QED
    BY <1>1, <1>6, <1>7 DEF DelegatorInv

\* The lines are indexed by their ends.
LEMMA IndexInv == ASSUME DelegatorInv, Delegator!Index PROVE DelegatorInv'
<1>1. /\ state = "index" /\ state' = "parse"
      /\ UNCHANGED <<file, loop, begin, words, value, lines>>
      /\ loop = 1 /\ begin = 1 /\ value = 0 /\ words = Given(lines, 0) /\ FileInv(file, lines)
    BY DEF Delegator!Index, DelegatorInv
<1>2. PICK n \in Nat : n = Len(lines)
    BY <1>1 DEF FileInv
<1> DEFINE ends == InOrder(Newlines(file, Delegator!Newline))
<1>3. DOMAIN ends = 1 .. n
    BY <1>1, <1>2 DEF FileInv
<1>4. index' = [k \in DOMAIN ends |-> <<ends[k]>>]
  <2>1. ASSUME NEW S PROVE Delegator!InOrder(S) = InOrder(S)
    BY DEF Delegator!InOrder, InOrder, Delegator!Cardinality, Cardinality
  <2> QED
    BY <2>1 DEF Delegator!Index, Newlines
<1>5. ASSUME NEW k \in 1 .. n
      PROVE  <<ends[k]>> = IF k < 1 THEN Given(lines, k) ELSE <<Place(file, k)>>
  <2>1. k # 0 /\ ~(k < 1)
    OBVIOUS
  <2> QED
    BY <2>1 DEF Place
<1> HIDE DEF ends
<1>6. index' = [k \in 1 .. n |-> IF k < 1 THEN Given(lines, k) ELSE <<Place(file, k)>>]
    BY <1>3, <1>4, <1>5
<1>7. begin' = Place(file, loop' - 1) + 1 /\ words' = Given(lines, loop' - 1)
    BY <1>1 DEF Place
<1>8. loop' \in 1 .. n + 1
    BY <1>1, <1>2
<1> QED
    BY <1>1, <1>2, <1>6, <1>7, <1>8 DEF DelegatorInv

\* The next line is taken apart.
LEMMA ParseInv == ASSUME DelegatorInv, Delegator!Parse PROVE DelegatorInv'
<1>1. /\ state = "parse" /\ state' = state /\ loop \in DOMAIN index /\ loop' = loop + 1
      /\ UNCHANGED <<file, value, lines>>
      /\ FileInv(file, lines) /\ loop \in 1 .. Len(lines) + 1
      /\ begin = Place(file, loop - 1) + 1 /\ value = 0 /\ words = Given(lines, loop - 1)
      /\ index = [k \in 1 .. Len(lines) |->
                     IF k < loop THEN Given(lines, k) ELSE <<Place(file, k)>>]
    BY DEF Delegator!Parse, DelegatorInv
<1>2. PICK n \in Nat : n = Len(lines)
    BY <1>1 DEF FileInv
<1>3. loop \in 1 .. n
    BY <1>1, <1>2
<1>4. index[loop][1] = Place(file, loop)
    BY <1>1, <1>2, <1>3
<1>5. /\ words' = Delegator!Scanned(SubSeq(file, begin, Place(file, loop) - 1))
      /\ begin' = Place(file, loop) + 1
      /\ index' = [index EXCEPT ![loop] = words']
    BY <1>4 DEF Delegator!Parse
<1>6. SubSeq(file, begin, Place(file, loop) - 1) = lines[loop]
    BY <1>1, <1>2, <1>3 DEF FileInv
<1>7. words' = Given(lines, loop)
  <2>1. words' = [j \in 1 .. 3 |-> IF j \in DOMAIN lines[loop] THEN lines[loop][j] ELSE words[j]]
    BY <1>5, <1>6 DEF Delegator!Scanned
  <2>2. LinesOver(lines, n, Word)
    BY <1>1, <1>2 DEF FileInv
  <2>3. [j \in 1 .. 3 |-> IF j \in DOMAIN lines[loop] THEN lines[loop][j]
                                                      ELSE Given(lines, loop - 1)[j]]
            = Given(lines, loop)
    BY <1>3, <2>2, GivenMore
  <2> QED
    BY <1>1, <2>1, <2>3
<1>8. index' = [k \in 1 .. n |-> IF k < loop + 1 THEN Given(lines, k) ELSE <<Place(file, k)>>]
  <2>1. index' = [k \in 1 .. n |-> IF k = loop THEN Given(lines, loop) ELSE index[k]]
    BY <1>1, <1>2, <1>5, <1>7
  <2>2. ASSUME NEW k \in 1 .. n
        PROVE  (IF k = loop THEN Given(lines, loop) ELSE index[k])
                   = IF k < loop + 1 THEN Given(lines, k) ELSE <<Place(file, k)>>
    <3>1. k < loop + 1 <=> (k = loop \/ k < loop)
      BY <1>3
    <3>2. index[k] = IF k < loop THEN Given(lines, k) ELSE <<Place(file, k)>>
      BY <1>1, <1>2
    <3> QED
      BY <1>3, <3>1, <3>2
  <2> QED
    BY <2>1, <2>2
<1>9. loop' \in 1 .. n + 1 /\ loop' - 1 = loop
    BY <1>1, <1>3
<1> QED
    BY <1>1, <1>2, <1>5, <1>7, <1>8, <1>9 DEF DelegatorInv

\* While the lines stay, so does what they come to.
LEMMA CarriedStays == lines' = lines => Delegator!Carried' = Delegator!Carried
<1> SUFFICES ASSUME lines' = lines PROVE Delegator!Carried' = Delegator!Carried
    OBVIOUS
<1> QED
    BY DEF Delegator!Carried, Delegator!Meant, Delegator!Comes

\* The lines have all been taken apart.
LEMMA ParsedInv == ASSUME DelegatorInv, Delegator!Parsed PROVE DelegatorInv'
<1>1. /\ state = "parse" /\ state' = "run" /\ loop \notin DOMAIN index /\ loop' = 1
      /\ UNCHANGED <<file, index, begin, words, value, lines>>
      /\ FileInv(file, lines) /\ loop \in 1 .. Len(lines) + 1 /\ value = 0
      /\ index = [k \in 1 .. Len(lines) |->
                     IF k < loop THEN Given(lines, k) ELSE <<Place(file, k)>>]
    BY DEF Delegator!Parsed, DelegatorInv
<1>2. PICK n \in Nat : n = Len(lines)
    BY <1>1 DEF FileInv
<1>3. loop = n + 1
    BY <1>1, <1>2
<1>4. index = [k \in 1 .. n |-> Given(lines, k)]
  <2>1. \A k \in 1 .. n : k < loop
    BY <1>3
  <2> QED
    BY <1>1, <1>2, <2>1
<1>5. Delegator!Carried' = Delegator!Carried
    BY <1>1, CarriedStays
<1>6. value' = Delegator!Carried'[loop' - 1]
    BY <1>1, <1>2, <1>5, CarriedIs
<1>7. loop' \in 1 .. n + 1
    BY <1>1, <1>2
<1> QED
    BY <1>1, <1>2, <1>4, <1>6, <1>7 DEF DelegatorInv

\* An instruction whose words are given comes to what its line means.
LEMMA RunGiven ==
    ASSUME NEW k \in 1 .. Len(lines), Len(lines) \in Nat,
           ~Delegator!Unset(Given(lines, k)), NEW v
    PROVE  Delegator!Result(Given(lines, k), v) = Delegator!Comes(Delegator!Meant(k), v)
<1>1. ASSUME NEW j \in 1 .. 3 PROVE Given(lines, k)[j] = Delegator!Meant(k)[j]
  <2>1. Given(lines, k)[j] # Delegator!Garbage
    BY DEF Delegator!Unset
  <2>2. Given(lines, k)[j] = Latest(lines, k, j)
    BY <2>1 DEF Given
  <2>3. Delegator!Meant(k)[j] = Latest(lines, k, j)
    BY DEF Delegator!Meant, Latest
  <2> QED
    BY <2>2, <2>3
<1> DEFINE g == Given(lines, k)
           m == Delegator!Meant(k)
<1>2. g[1] = m[1] /\ g[2] = m[2] /\ g[3] = m[3]
    BY <1>1
<1> HIDE DEF g, m
<1>3. ASSUME NEW i \in 1 .. 2
      PROVE  Delegator!Arguments(g, v)[i]
                 = IF m[i + 1] = Delegator!Previous THEN v ELSE Delegator!Atoi(m[i + 1])
  <2>1. g[i + 1] = m[i + 1]
    BY <1>2
  <2> QED
    BY <2>1 DEF Delegator!Arguments
<1>4. Delegator!Result(g, v) = Delegator!Comes(m, v)
    BY <1>2, <1>3 DEF Delegator!Result, Delegator!Comes
<1> QED
    BY <1>4 DEF g, m

\* The next instruction is carried out.
LEMMA RunInv == ASSUME DelegatorInv, Delegator!Run PROVE DelegatorInv'
<1>1. /\ state = "run" /\ state' = state /\ loop \in DOMAIN index /\ loop' = loop + 1
      /\ UNCHANGED <<file, index, begin, words, lines>>
      /\ ~Delegator!Unset(index[loop]) /\ value' = Delegator!Result(index[loop], value)
      /\ FileInv(file, lines) /\ loop \in 1 .. Len(lines) + 1
      /\ index = [k \in 1 .. Len(lines) |-> Given(lines, k)]
      /\ value = Delegator!Carried[loop - 1]
    BY DEF Delegator!Run, DelegatorInv
<1>2. PICK n \in Nat : n = Len(lines)
    BY <1>1 DEF FileInv
<1>3. loop \in 1 .. n /\ index[loop] = Given(lines, loop)
    BY <1>1, <1>2
<1>4. value' = Delegator!Comes(Delegator!Meant(loop), value)
    BY <1>1, <1>2, <1>3, RunGiven
<1>5. value' = Delegator!Carried[loop]
    BY <1>1, <1>2, <1>3, <1>4, CarriedIs
<1>6. Delegator!Carried' = Delegator!Carried
    BY <1>1, CarriedStays
<1>7. loop' \in 1 .. n + 1 /\ loop' - 1 = loop
    BY <1>1, <1>3
<1> QED
    BY <1>1, <1>2, <1>5, <1>6, <1>7 DEF DelegatorInv

\* All of them have been.
LEMMA EndInv == ASSUME DelegatorInv, Delegator!End PROVE DelegatorInv'
<1>1. /\ state = "run" /\ state' = "end" /\ loop \notin DOMAIN index
      /\ UNCHANGED <<file, index, loop, begin, words, value, lines>>
      /\ FileInv(file, lines) /\ loop \in 1 .. Len(lines) + 1
      /\ index = [k \in 1 .. Len(lines) |-> Given(lines, k)]
      /\ value = Delegator!Carried[loop - 1]
    BY DEF Delegator!End, DelegatorInv
<1>2. PICK n \in Nat : n = Len(lines)
    BY <1>1 DEF FileInv
<1>3. loop - 1 = n
    BY <1>1, <1>2
<1>4. Delegator!Carried' = Delegator!Carried
    BY <1>1, CarriedStays
<1>5. Delegated'
    BY <1>1, <1>2, <1>3, <1>4 DEF Delegated, Delegator!Delegated
<1> QED
    BY <1>1, <1>5 DEF DelegatorInv

\* Every step of the delegator keeps its invariant.
LEMMA NextDelegator == DelegatorInv /\ [Delegator!Next]_(Delegator!vars) => DelegatorInv'
<1> SUFFICES ASSUME DelegatorInv, [Delegator!Next]_(Delegator!vars) PROVE DelegatorInv'
    OBVIOUS
<1>1. CASE Delegator!GiveUp
  <2>1. state' = "failed"
    BY <1>1 DEF Delegator!GiveUp
  <2> QED
    BY <2>1 DEF DelegatorInv
<1>2. CASE Delegator!RunFaults
  <2>1. state' = "fault"
    BY <1>2 DEF Delegator!RunFaults
  <2> QED
    BY <2>1 DEF DelegatorInv
<1>3. CASE UNCHANGED Delegator!vars
  <2>1. UNCHANGED <<file, index, loop, begin, words, value, state, lines>>
    BY <1>3 DEF Delegator!vars
  <2>2. Delegator!Carried' = Delegator!Carried
    BY <2>1, CarriedStays
  <2>3. Delegated' = Delegated
    BY <2>1, <2>2 DEF Delegated, Delegator!Delegated
  <2> QED
    BY <2>1, <2>2, <2>3 DEF DelegatorInv
<1> QED
    BY <1>1, <1>2, <1>3, LoadInv, IndexInv, ParseInv, ParsedInv, RunInv, EndInv
    DEF Delegator!Next

\* A step of the run is a step of the delegator, or leaves it alone.
LEMMA DelegatorAlone ==
    /\ SeqInit => Delegator!Init
    /\ [SeqNext]_seqVars => [Delegator!Next]_(Delegator!vars)
BY DEF SeqInit, SeqNext, AtTill, InShell, Delegate, seqVars, delegator, Delegator!vars

\* The result printed is that of the lines in order, each with the words it lacks from the
\* lines before it and each % standing for the last result: for files of any length over any
\* words.
THEOREM ResultsAreCarried == SeqSpec => []Delegated
<1>1. DelegatorInv => Delegated
    BY DEF DelegatorInv, Delegated, Delegator!Delegated
<1> QED
    BY <1>1, InitDelegator, NextDelegator, DelegatorAlone, PTL DEF SeqSpec

----------------------------------------------------------------------------
(***************************************************************************)
(* Words in a line.                                                        *)
(***************************************************************************)

\* The members of S below i, and up to i.
Below(S, i) == {j \in S : j < i}
UpTo(S, i) == {j \in S : j <= i}

\* A member is in order behind those below it.
LEMMA InItsPlace ==
    ASSUME NEW n \in Nat, NEW S, S \subseteq 1 .. n, NEW i \in S
    PROVE  /\ Cardinality(UpTo(S, i)) \in 1 .. Cardinality(S)
           /\ InOrder(S)[Cardinality(UpTo(S, i))] = i
<1>1. IsFiniteSet(S) /\ Cardinality(S) \in Nat
  <2>1. IsFiniteSet(1 .. n)
    BY FS_Interval
  <2> QED
    BY <2>1, FS_Subset, FS_CardinalityType
<1>2. ASSUME NEW j \in S
      PROVE  /\ IsFiniteSet(Below(S, j)) /\ Cardinality(Below(S, j)) \in Nat
             /\ Cardinality(UpTo(S, j)) = Cardinality(Below(S, j)) + 1
             /\ Cardinality(UpTo(S, j)) <= Cardinality(S)
  <2>1. Below(S, j) \subseteq S /\ UpTo(S, j) \subseteq S
    BY DEF Below, UpTo
  <2>2. IsFiniteSet(Below(S, j)) /\ Cardinality(Below(S, j)) \in Nat
    BY <1>1, <2>1, FS_Subset, FS_CardinalityType
  <2>3. UpTo(S, j) = Below(S, j) \cup {j} /\ j \notin Below(S, j)
    <3>1. \A m \in S : m <= j <=> (m < j \/ m = j)
      OBVIOUS
    <3>2. ~(j < j)
      OBVIOUS
    <3> QED
      BY <3>1, <3>2 DEF Below, UpTo
  <2>4. Cardinality(UpTo(S, j)) = Cardinality(Below(S, j)) + 1
    BY <2>2, <2>3, FS_AddElement
  <2>5. Cardinality(UpTo(S, j)) <= Cardinality(S)
    BY <1>1, <2>1, FS_Subset
  <2> QED
    BY <2>2, <2>4, <2>5
<1>3. ASSUME NEW a \in S, NEW b \in S, a < b
      PROVE  Cardinality(Below(S, a)) # Cardinality(Below(S, b))
  <2>1. UpTo(S, a) \subseteq Below(S, b)
    <3>1. \A j \in S : j <= a => j < b
      BY <1>3
    <3> QED
      BY <3>1 DEF UpTo, Below
  <2>2. Cardinality(UpTo(S, a)) <= Cardinality(Below(S, b))
    BY <1>2, <2>1, FS_Subset
  <2> QED
    BY <1>2, <2>2
<1>4. ASSUME NEW j \in S, Cardinality(Below(S, j)) = Cardinality(Below(S, i)) PROVE j = i
  <2>1. i \in Nat /\ j \in Nat
    OBVIOUS
  <2>2. ~(i < j) /\ ~(j < i)
    BY <1>3, <1>4
  <2> QED
    BY <2>1, <2>2
<1> DEFINE k == Cardinality(UpTo(S, i))
<1>5. k \in 1 .. Cardinality(S) /\ k - 1 = Cardinality(Below(S, i))
    BY <1>1, <1>2
<1>6. InOrder(S)[k] = CHOOSE j \in S : Cardinality(Below(S, j)) = k - 1
    BY <1>5 DEF InOrder, Below
<1> QED
    BY <1>4, <1>5, <1>6

\* Two sequences that agree from i to j have the same subsequence there.
LEMMA SameSubSeq ==
    ASSUME NEW T, NEW s, NEW t, NEW i \in Int, NEW j \in Int, i <= j,
           \A m \in i .. j : s[m] \in T /\ t[m] = s[m]
    PROVE  SubSeq(s, i, j) = SubSeq(t, i, j)
<1> DEFINE u == SubSeq(s, i, j)
           v == SubSeq(t, i, j)
<1>1. \A m \in i .. j : s[m] \in T
    OBVIOUS
<1>2. \A m \in i .. j : t[m] \in T
    BY <1>1
<1>3. /\ u \in Seq(T) /\ Len(u) = j - i + 1
      /\ \A k \in 1 .. j - i + 1 : u[k] = s[i + k - 1]
    BY <1>1, SubSeqProperties
<1>4. /\ v \in Seq(T) /\ Len(v) = j - i + 1
      /\ \A k \in 1 .. j - i + 1 : v[k] = t[i + k - 1]
    BY <1>2, SubSeqProperties
<1>5. ASSUME NEW k \in 1 .. j - i + 1 PROVE u[k] = v[k]
  <2>1. i + k - 1 \in i .. j
    OBVIOUS
  <2> QED
    BY <1>3, <1>4, <2>1
<1> HIDE DEF u, v
<1>6. u = v
    BY <1>3, <1>4, <1>5, SeqEqual
<1> QED
    BY <1>6 DEF u, v

\* What a terminal sends.
Char == Letters \cup {Bash!Blank, Bash!Newline}

\* The words of a line that ends in a newline, taken apart.
LEMMA WordsOf ==
    ASSUME NEW l \in Seq(Char), NEW n \in Nat \ {0}, Len(l) = n, l[n] = Bash!Newline,
           NEW before, before = SubSeq(l, 1, n - 1),
           NEW args, args = Bash!Words(l)
    PROVE  Bash!TakenApart(before, args)
<1> DEFINE starts == Bash!WordStarts(before)
           empty == n = 1 \/ l[n - 1] = Bash!Blank
           all == Bash!WordStarts(l)
<1>1. Bash!Newline # Bash!Blank
    BY MCSequentialAssumption DEF Bash!BashAssumption
<1>2. DOMAIN l = 1 .. n
    BY LenProperties
<1>3. /\ before \in Seq(Char) /\ Len(before) = n - 1 /\ DOMAIN before = 1 .. n - 1
      /\ \A i \in 1 .. n - 1 : before[i] = l[i]
  <2>1. \A i \in 1 .. n - 1 : l[i] \in Char
    BY ElementOfSeq
  <2>2. PICK a \in Int, b \in Int : a = 1 /\ b = n - 1
    OBVIOUS
  <2>3. /\ SubSeq(l, a, b) \in Seq(Char)
        /\ Len(SubSeq(l, a, b)) = IF a <= b THEN b - a + 1 ELSE 0
        /\ \A i \in 1 .. b - a + 1 : SubSeq(l, a, b)[i] = l[a + i - 1]
    BY <2>1, <2>2, SubSeqProperties
  <2>4. before \in Seq(Char) /\ Len(before) = n - 1
    BY <2>2, <2>3
  <2>5. DOMAIN before = 1 .. n - 1
    BY <2>4, LenProperties
  <2>6. ASSUME NEW i \in 1 .. n - 1 PROVE before[i] = l[i]
    <3>1. i \in 1 .. b - a + 1 /\ a + i - 1 = i
      BY <2>2
    <3> QED
      BY <2>2, <2>3, <3>1
  <2> QED
    BY <2>4, <2>5, <2>6
<1>4. all = starts \cup (IF empty THEN {n} ELSE {})
  <2>1. ASSUME NEW i \in 1 .. n - 1 PROVE i \in all <=> i \in starts
    <3>1. i \in 1 .. n /\ before[i] = l[i] /\ (i # 1 => i - 1 \in 1 .. n - 1)
      BY <1>3
    <3>2. i # 1 => before[i - 1] = l[i - 1]
      BY <1>3, <3>1
    <3> QED
      BY <1>2, <1>3, <3>1, <3>2 DEF Bash!WordStarts
  <2>2. n \in all <=> empty
    BY <1>1, <1>2 DEF Bash!WordStarts
  <2>3. all \subseteq 1 .. n /\ starts \subseteq 1 .. n - 1
    BY <1>2, <1>3 DEF Bash!WordStarts
  <2>4. \A i : i \in 1 .. n <=> i = n \/ i \in 1 .. n - 1
    OBVIOUS
  <2>5. n \notin 1 .. n - 1
    OBVIOUS
  <2> HIDE DEF all, starts, empty
  <2> QED
    BY <2>1, <2>2, <2>3, <2>4, <2>5
<1>5. /\ starts \subseteq 1 .. n - 1 /\ all \subseteq 1 .. n /\ n \notin starts
      /\ IsFiniteSet(starts) /\ Cardinality(starts) \in Nat
  <2>1. all \subseteq 1 .. n /\ starts \subseteq 1 .. n - 1
    BY <1>2, <1>3 DEF Bash!WordStarts
  <2>2. IsFiniteSet(1 .. n - 1)
    BY FS_Interval
  <2>3. n \notin 1 .. n - 1
    OBVIOUS
  <2> HIDE DEF starts, all
  <2> QED
    BY <2>1, <2>2, <2>3, FS_Subset, FS_CardinalityType
<1> HIDE DEF starts, all
<1>6. Cardinality(all) = Cardinality(starts) + (IF empty THEN 1 ELSE 0)
  <2> HIDE DEF empty
  <2>1. CASE empty
    BY <1>4, <1>5, <2>1, FS_AddElement
  <2>2. CASE ~empty
    BY <1>4, <1>5, <2>2
  <2> QED
    BY <2>1, <2>2
<1>7. PICK c \in Nat : c = Cardinality(all)
    BY <1>5, <1>6
<1>8. args = [k \in 1 .. c |-> Bash!WordFrom(l, InOrder(all)[k])]
  <2>1. Bash!InOrder(all) = InOrder(all)
    BY DEF Bash!InOrder, InOrder, Bash!Cardinality, Cardinality
  <2>2. DOMAIN InOrder(all) = 1 .. c
    BY <1>7 DEF InOrder
  <2>3. args = [k \in DOMAIN Bash!InOrder(all) |-> Bash!WordFrom(l, Bash!InOrder(all)[k])]
    BY DEF Bash!Words, all
  <2> QED
    BY <2>1, <2>2, <2>3
<1>9. Len(args) = c
    BY <1>8
<1>10. ASSUME NEW i \in all
       PROVE  args[Cardinality(UpTo(all, i))] = Bash!WordFrom(l, i)
  <2>1. Cardinality(UpTo(all, i)) \in 1 .. c /\ InOrder(all)[Cardinality(UpTo(all, i))] = i
    BY <1>5, <1>7, InItsPlace
  <2> QED
    BY <1>8, <2>1
<1>11. ASSUME empty PROVE args[c] = <<>>
  <2>1. n \in all
    BY <1>4, <1>11
  <2>2. UpTo(all, n) = all
    <3>1. \A m \in all : m <= n
      BY <1>5
    <3> QED
      BY <3>1 DEF UpTo
  <2>3. args[c] = Bash!WordFrom(l, n)
    BY <1>7, <1>10, <2>1, <2>2
  <2>4. {j \in n .. Len(l) : l[j] = Bash!Blank} = {}
    BY <1>1
  <2>5. Bash!WordFrom(l, n) = SubSeq(l, n, n - 1)
    BY <2>4 DEF Bash!WordFrom
  <2>6. SubSeq(l, n, n - 1) = <<>>
    BY SubSeqEmpty
  <2> QED
    BY <2>3, <2>5, <2>6
<1>12. ASSUME NEW i \in DOMAIN before, NEW j \in DOMAIN before, Bash!IsWord(before, i, j)
       PROVE  args[Cardinality(UpTo(starts, i))] = SubSeq(before, i, j)
  <2>1. /\ i \in starts /\ i \in 1 .. n - 1 /\ j \in 1 .. n - 1 /\ i <= j
        /\ \A m \in i .. j : before[m] # Bash!Blank
        /\ j = n - 1 \/ before[j + 1] = Bash!Blank
    BY <1>3, <1>12 DEF Bash!IsWord, starts
  <2>2. UpTo(all, i) = UpTo(starts, i) /\ i \in all
    <3>1. ~(n <= i)
      BY <2>1
    <3> HIDE DEF empty
    <3> QED
      BY <1>4, <2>1, <3>1 DEF UpTo
  <2>3. args[Cardinality(UpTo(starts, i))] = Bash!WordFrom(l, i)
    BY <1>10, <2>2
  <2>4. ASSUME NEW m \in i .. j PROVE m \in 1 .. n - 1 /\ before[m] = l[m] /\ l[m] # Bash!Blank
    <3>1. m \in 1 .. n - 1
      BY <2>1
    <3> QED
      BY <1>3, <2>1, <3>1
  <2> DEFINE blanks == {m \in i .. n : l[m] = Bash!Blank}
  <2>5. Bash!WordFrom(l, i) = SubSeq(l, i, (IF blanks = {} THEN n ELSE Bash!Min(blanks)) - 1)
    BY DEF Bash!WordFrom
  <2>6. (IF blanks = {} THEN n ELSE Bash!Min(blanks)) = j + 1
    <3>1. CASE j = n - 1
      <4>1. ASSUME NEW m \in i .. n PROVE l[m] # Bash!Blank
        <5>1. m = n \/ m \in i .. j
          BY <2>1, <3>1
        <5> QED
          BY <1>1, <2>4, <5>1
      <4>2. blanks = {}
        BY <4>1
      <4> QED
        BY <3>1, <4>2
    <3>2. CASE j # n - 1
      <4>1. j + 1 \in i .. n /\ j + 1 \in 1 .. n - 1
        BY <2>1, <3>2
      <4>2. l[j + 1] = Bash!Blank
        BY <1>3, <2>1, <3>2, <4>1
      <4>3. j + 1 \in blanks
        BY <4>1, <4>2
      <4>4. ASSUME NEW m \in blanks PROVE j + 1 <= m
        <5>1. m \in i .. n /\ m \notin i .. j
          BY <2>4
        <5> QED
          BY <2>1, <5>1
      <4>5. blanks \subseteq Int
        BY <2>1
      <4> HIDE DEF blanks
      <4>6. \A m \in blanks : (\A k \in blanks : m <= k) => m = j + 1
        <5>1. ASSUME NEW m \in blanks, \A k \in blanks : m <= k PROVE m = j + 1
          <6>1. m \in Int /\ m <= j + 1 /\ j + 1 <= m
            BY <4>3, <4>4, <4>5, <5>1
          <6> QED
            BY <2>1, <6>1
        <5> QED
          BY <5>1
      <4>7. Bash!Min(blanks) = j + 1
        BY <4>3, <4>4, <4>6 DEF Bash!Min
      <4> QED
        BY <4>3, <4>7
    <3> QED
      BY <3>1, <3>2
  <2> HIDE DEF blanks
  <2>7. Bash!WordFrom(l, i) = SubSeq(l, i, j)
    <3>1. (j + 1) - 1 = j
      BY <2>1
    <3> QED
      BY <2>5, <2>6, <3>1
  <2>8. SubSeq(l, i, j) = SubSeq(before, i, j)
    <3>1. ASSUME NEW m \in i .. j PROVE l[m] \in Char /\ before[m] = l[m]
      BY <2>4, ElementOfSeq
    <3> QED
      BY <2>1, <3>1, SameSubSeq
  <2> QED
    BY <2>3, <2>7, <2>8
<1>13. (before = <<>> \/ Bash!Last(before) = Bash!Blank) <=> empty
  <2>1. before = <<>> <=> n = 1
    BY <1>3, EmptySeq
  <2>2. n # 1 => Bash!Last(before) = l[n - 1]
    BY <1>3 DEF Bash!Last
  <2> QED
    BY <2>1, <2>2
<1>14. Len(args) = Cardinality(starts) + (IF empty THEN 1 ELSE 0)
    BY <1>6, <1>7, <1>9
<1>15. empty => Bash!Last(args) = <<>>
    BY <1>9, <1>11 DEF Bash!Last
<1> HIDE DEF empty
<1>16. \A i, j \in DOMAIN before : Bash!IsWord(before, i, j) =>
           args[Cardinality({m \in starts : m <= i})] = SubSeq(before, i, j)
    BY <1>12 DEF UpTo
<1>17. \A S : Bash!Cardinality(S) = Cardinality(S)
    BY DEF Bash!Cardinality, Cardinality
<1> QED
    BY <1>13, <1>14, <1>15, <1>16, <1>17 DEF Bash!TakenApart, starts

----------------------------------------------------------------------------
(***************************************************************************)
(* The shell.                                                              *)
(***************************************************************************)

\* No byte of l is a newline; none but the last is.
NoNewline(l) == \A i \in 1 .. Len(l) : l[i] # Bash!Newline
NewlineLast(l) == \A i \in 1 .. Len(l) - 1 : l[i] # Bash!Newline

(***************************************************************************)
(* What was typed is what was put together, the piece that was read last   *)
(* and what the terminal still holds; a newline can only end it, and a     *)
(* piece that is not full leaves nothing behind.                           *)
(***************************************************************************)
BashInv ==
    /\ pc \in {"read", "loop", "parse", "run", "ended"}
    /\ tty \in Seq(Char) /\ buf \in Seq(Char) /\ text \in Seq(Char) /\ typed \in Seq(Char)
    /\ NewlineLast(typed)
    /\ ~typing => tty = <<>>
    /\ pc \in {"read", "loop", "parse"} => typed = (text \o buf) \o tty /\ NoNewline(text)
    /\ pc = "read" => text = <<>> /\ buf = <<>>
    /\ pc = "loop" => (Len(buf) # CliBuf => tty = <<>>)
    /\ pc = "parse" => tty = <<>>
    /\ pc = "run" => tty = <<>> /\ argv = Bash!Words(typed)

\* Newlines in two sequences that are put together.
LEMMA NewlineEnds ==
    ASSUME NEW a \in Seq(Char), NEW b \in Seq(Char)
    PROVE  /\ NoNewline(a) /\ NoNewline(b) => NoNewline(a \o b)
           /\ NoNewline(a) /\ NewlineLast(b) => NewlineLast(a \o b)
           /\ NewlineLast(a \o b) => NewlineLast(b)
           /\ NewlineLast(a \o b) /\ b # <<>> => NoNewline(a)
<1>1. PICK m \in Nat, n \in Nat : m = Len(a) /\ n = Len(b)
    BY LenProperties
<1>2. PICK c : c = a \o b
    OBVIOUS
<1>3. Len(c) = m + n /\ \A i \in 1 .. m + n : c[i] = IF i <= m THEN a[i] ELSE b[i - m]
    BY <1>1, <1>2, ConcatProperties
<1>4. NoNewline(a) /\ NoNewline(b) => NoNewline(c)
  <2>1. SUFFICES ASSUME NoNewline(a), NoNewline(b), NEW i \in 1 .. m + n
                 PROVE  c[i] # Bash!Newline
    BY <1>3 DEF NoNewline
  <2>2. CASE i <= m
    <3>1. i \in 1 .. m
      BY <2>2
    <3> QED
      BY <1>1, <1>3, <2>1, <2>2, <3>1 DEF NoNewline
  <2>3. CASE ~(i <= m)
    <3>1. i - m \in 1 .. n
      BY <2>3
    <3> QED
      BY <1>1, <1>3, <2>1, <2>3, <3>1 DEF NoNewline
  <2> QED
    BY <2>2, <2>3
<1>5. NoNewline(a) /\ NewlineLast(b) => NewlineLast(c)
  <2>1. SUFFICES ASSUME NoNewline(a), NewlineLast(b), NEW i \in 1 .. m + n - 1
                 PROVE  c[i] # Bash!Newline
    BY <1>3 DEF NewlineLast
  <2>2. i \in 1 .. m + n
    OBVIOUS
  <2>3. CASE i <= m
    <3>1. i \in 1 .. m
      BY <2>3
    <3> QED
      BY <1>1, <1>3, <2>1, <2>2, <2>3, <3>1 DEF NoNewline
  <2>4. CASE ~(i <= m)
    <3>1. i - m \in 1 .. n - 1
      BY <2>4
    <3> QED
      BY <1>1, <1>3, <2>1, <2>2, <2>4, <3>1 DEF NewlineLast
  <2> QED
    BY <2>3, <2>4
<1>6. NewlineLast(c) => NewlineLast(b)
  <2>1. SUFFICES ASSUME NewlineLast(c), NEW i \in 1 .. n - 1
                 PROVE  b[i] # Bash!Newline
    BY <1>1 DEF NewlineLast
  <2>2. m + i \in 1 .. m + n - 1 /\ m + i \in 1 .. m + n /\ ~(m + i <= m) /\ (m + i) - m = i
    OBVIOUS
  <2>3. c[m + i] = b[i]
    BY <1>3, <2>2
  <2> QED
    BY <1>3, <2>1, <2>2, <2>3 DEF NewlineLast
<1>7. NewlineLast(c) /\ b # <<>> => NoNewline(a)
  <2>1. SUFFICES ASSUME NewlineLast(c), b # <<>>, NEW i \in 1 .. m
                 PROVE  a[i] # Bash!Newline
    BY <1>1 DEF NoNewline
  <2>2. n # 0
    BY <1>1, <2>1, EmptySeq
  <2>3. i \in 1 .. m + n - 1 /\ i \in 1 .. m + n /\ i <= m
    BY <2>2
  <2>4. c[i] = a[i]
    BY <1>3, <2>3
  <2> QED
    BY <1>3, <2>1, <2>3, <2>4 DEF NewlineLast
<1> QED
    BY <1>2, <1>4, <1>5, <1>6, <1>7

\* A sequence cut in two.
LEMMA CutInTwo ==
    ASSUME NEW T, NEW s \in Seq(T), NEW t \in Nat, Len(s) = t, NEW n \in 0 .. t,
           NEW b, b = SubSeq(s, 1, n), NEW r, r = SubSeq(s, n + 1, t)
    PROVE  /\ b \in Seq(T) /\ Len(b) = n
           /\ r \in Seq(T) /\ Len(r) = t - n
           /\ s = b \o r
<1>1. Len(s) = t
    OBVIOUS
<1>2. n \in Nat /\ n <= t
    OBVIOUS
<1>3. \A i \in 1 .. t : s[i] \in T
    BY <1>1, ElementOfSeq
<1>4. b \in Seq(T) /\ Len(b) = n
  <2>1. PICK k \in Int : k = 1
    OBVIOUS
  <2>2. ASSUME NEW i \in k .. n PROVE s[i] \in T
    <3>1. i \in 1 .. t
      BY <1>2, <2>1
    <3> QED
      BY <1>3, <3>1
  <2>3. n \in Int
    BY <1>2
  <2>4. SubSeq(s, k, n) \in Seq(T) /\ Len(SubSeq(s, k, n)) = IF k <= n THEN n - k + 1 ELSE 0
    BY <2>2, <2>3, SubSeqProperties
  <2>5. (IF k <= n THEN n - k + 1 ELSE 0) = n
    BY <1>2, <2>1
  <2> QED
    BY <2>1, <2>4, <2>5
<1>5. r \in Seq(T) /\ Len(r) = t - n
  <2>1. PICK k \in Int : k = n + 1
    BY <1>2
  <2>2. ASSUME NEW i \in k .. t PROVE s[i] \in T
    <3>1. i \in 1 .. t
      BY <1>2, <2>1
    <3> QED
      BY <1>3, <3>1
  <2>3. t \in Int
    OBVIOUS
  <2>4. SubSeq(s, k, t) \in Seq(T) /\ Len(SubSeq(s, k, t)) = IF k <= t THEN t - k + 1 ELSE 0
    BY <2>2, <2>3, SubSeqProperties
  <2>5. (IF k <= t THEN t - k + 1 ELSE 0) = t - n
    BY <1>2, <2>1
  <2> QED
    BY <1>1, <2>1, <2>4, <2>5
<1>6. s = b \o r
  <2>1. PICK k : k = 1
    OBVIOUS
  <2>2. k \in 1 .. Len(s) + 1 /\ n \in k - 1 .. Len(s) /\ Len(s) \in n .. Len(s)
    BY <1>1, <1>2, <2>1
  <2>3. SubSeq(s, k, n) \o SubSeq(s, n + 1, Len(s)) = SubSeq(s, k, Len(s))
    BY <2>2, ConcatAdjacentSubSeq
  <2> QED
    BY <2>1, <2>3, SubSeqFull
<1> QED
    BY <1>1, <1>4, <1>5, <1>6

\* A piece is full, or all there is.
LEMMA PieceLength ==
    ASSUME NEW t \in Nat, NEW n, n = Bash!Min({CliBuf, t})
    PROVE  n \in 0 .. t /\ (n # CliBuf => n = t) /\ (n = 0 => t = 0)
<1>1. PICK c \in Nat \ {0} : c = CliBuf
    BY MCSequentialAssumption DEF Bash!BashAssumption
<1>2. n = IF c <= t THEN c ELSE t
  <2>1. ASSUME NEW x \in {c, t}, \A y \in {c, t} : x <= y PROVE x = IF c <= t THEN c ELSE t
    <3>1. x <= c /\ x <= t /\ (x = c \/ x = t)
      BY <2>1
    <3> QED
      BY <3>1
  <2>2. PICK x \in {c, t} : \A y \in {c, t} : x <= y
    <3>1. c <= t \/ t <= c
      OBVIOUS
    <3> QED
      BY <3>1
  <2>3. n = CHOOSE z \in {c, t} : \A y \in {c, t} : z <= y
    BY <1>1 DEF Bash!Min
  <2> QED
    BY <2>1, <2>2, <2>3
<1> QED
    BY <1>1, <1>2

\* A piece that is read is what the terminal held first; if it is not full, that was all.
LEMMA APiece ==
    ASSUME tty \in Seq(Char), Bash!ReadPiece
    PROVE  /\ buf' \in Seq(Char) /\ tty' \in Seq(Char) /\ tty = buf' \o tty'
           /\ Len(buf') # CliBuf => tty' = <<>>
           /\ buf' = <<>> => tty' = <<>>
           /\ ~typing' => tty' = <<>>
<1>1. PICK t \in Nat : t = Len(tty)
    BY LenProperties
<1>2. PICK n : /\ n = Bash!Min({CliBuf, t})
               /\ buf' = SubSeq(tty, 1, n) /\ tty' = SubSeq(tty, n + 1, t)
               /\ typing' = (tty' # <<>>)
    BY <1>1 DEF Bash!ReadPiece
<1>3. n \in 0 .. t /\ (n # CliBuf => n = t) /\ (n = 0 => t = 0)
    BY <1>2, PieceLength
<1>4. /\ buf' \in Seq(Char) /\ Len(buf') = n
      /\ tty' \in Seq(Char) /\ Len(tty') = t - n
      /\ tty = buf' \o tty'
  <2>1. PICK s \in Seq(Char) : s = tty
    OBVIOUS
  <2>2. PICK b, r : b = buf' /\ r = tty'
    OBVIOUS
  <2>3. Len(s) = t /\ b = SubSeq(s, 1, n) /\ r = SubSeq(s, n + 1, t)
    BY <1>1, <1>2, <2>1, <2>2
  <2>4. b \in Seq(Char) /\ Len(b) = n /\ r \in Seq(Char) /\ Len(r) = t - n /\ s = b \o r
    BY <1>3, <2>3, CutInTwo
  <2> QED
    BY <2>1, <2>2, <2>4
<1>5. ASSUME n = t PROVE tty' = <<>>
  <2>1. Len(tty') = 0
    BY <1>4, <1>5
  <2> QED
    BY <1>4, <2>1, EmptySeq
<1>6. buf' = <<>> => n = t
  <2>1. Len(<<>>) = 0
    OBVIOUS
  <2> QED
    BY <1>3, <1>4, <2>1
<1> QED
    BY <1>2, <1>3, <1>4, <1>5, <1>6

\* Before anything is typed.
LEMMA InitBash == Bash!Init => BashInv
<1> SUFFICES ASSUME Bash!Init PROVE BashInv
    OBVIOUS
<1>1. /\ pc = "read" /\ tty = <<>> /\ typing = FALSE
      /\ buf = <<>> /\ text = <<>> /\ typed = <<>>
    BY DEF Bash!Init
<1>2. <<>> \in Seq(Char) /\ (<<>> \o <<>>) \o <<>> = <<>> /\ Len(<<>>) = 0
    OBVIOUS
<1>3. NoNewline(<<>>) /\ NewlineLast(<<>>)
    BY <1>2 DEF NoNewline, NewlineLast
<1> QED
    BY <1>1, <1>2, <1>3 DEF BashInv

\* A line that is typed.
LEMMA LineTyped ==
    ASSUME NEW l \in Bash!Lines
    PROVE  l \in Seq(Char) /\ NewlineLast(l)
<1>1. PICK a \in Bash!BoundedSeq(Letters \cup {Bash!Blank}, MaxTyped) :
          l = a \/ l = Append(a, Bash!Newline)
    BY DEF Bash!Lines
<1>2. PICK m \in 0 .. MaxTyped : a \in [1 .. m -> Letters \cup {Bash!Blank}]
    BY <1>1 DEF Bash!BoundedSeq, Bash!SeqOf
<1>3. m \in Nat /\ Bash!Newline \notin Letters \cup {Bash!Blank}
  <2>1. MaxTyped \in Nat /\ Bash!Newline \notin Letters /\ Bash!Newline # Bash!Blank
    BY MCSequentialAssumption DEF Bash!BashAssumption
  <2> QED
    BY <2>1
<1>4. a \in Seq(Letters \cup {Bash!Blank}) /\ Letters \cup {Bash!Blank} \subseteq Char
    BY <1>2, <1>3, SeqDef DEF Char
<1>5. a \in Seq(Char)
    BY <1>4, SeqMonotonic
<1>6. PICK n \in Nat : n = Len(a)
    BY <1>5, LenProperties
<1>7. \A i \in 1 .. n : a[i] # Bash!Newline
    BY <1>3, <1>4, <1>6, ElementOfSeq
<1>8. CASE l = a
    BY <1>5, <1>6, <1>7, <1>8 DEF NewlineLast
<1>9. CASE l = Append(a, Bash!Newline)
  <2>1. Bash!Newline \in Char
    BY DEF Char
  <2>2. l \in Seq(Char) /\ Len(l) = n + 1 /\ \A i \in 1 .. n : l[i] = a[i]
    BY <1>5, <1>6, <1>9, <2>1, AppendProperties
  <2>3. Len(l) - 1 = n
    BY <2>2
  <2> QED
    BY <1>7, <2>2, <2>3 DEF NewlineLast
<1> QED
    BY <1>1, <1>8, <1>9

\* Nothing put in front or behind.
LEMMA Nothing ==
    ASSUME NEW s \in Seq(Char)
    PROVE  s \o <<>> = s /\ <<>> \o s = s /\ <<>> \in Seq(Char)
BY ConcatEmptySeq, EmptySeq

\* More is typed.
LEMMA TypeInv == ASSUME BashInv, NEW l \in Bash!Lines, Bash!Type(l) PROVE BashInv'
<1>1. /\ pc \in {"read", "loop"} /\ ~typing /\ (pc = "loop" => Bash!MoreToCome)
      /\ tty' = l /\ typing' = TRUE /\ typed' = typed \o l
      /\ pc' = pc /\ buf' = buf /\ text' = text
    BY DEF Bash!Type
<1>2. l \in Seq(Char) /\ NewlineLast(l)
    BY LineTyped
<1>3. /\ buf \in Seq(Char) /\ text \in Seq(Char) /\ typed \in Seq(Char) /\ tty = <<>>
      /\ typed = (text \o buf) \o tty /\ NoNewline(text) /\ (pc = "read" => buf = <<>>)
      /\ (pc = "read" => text = <<>>)
    BY <1>1 DEF BashInv
<1>4. NoNewline(buf) /\ (pc = "loop" => Len(buf) = CliBuf)
  <2>1. CASE pc = "read"
    <3>1. NoNewline(<<>>)
      <4>1. Len(<<>>) = 0
        OBVIOUS
      <4> QED
        BY <4>1 DEF NoNewline
    <3> QED
      BY <1>3, <2>1, <3>1
  <2>2. CASE pc = "loop"
    BY <1>1, <2>2 DEF Bash!MoreToCome, Bash!Contains, NoNewline
  <2> QED
    BY <1>1, <2>1, <2>2
<1>5. PICK c \in Seq(Char) : c = text \o buf
    BY <1>3, ConcatProperties
<1>6. typed = c /\ NoNewline(c)
    BY <1>3, <1>4, <1>5, Nothing, NewlineEnds
<1>7. typed' \in Seq(Char) /\ NewlineLast(typed')
    BY <1>1, <1>2, <1>3, <1>6, NewlineEnds, ConcatProperties
<1>8. typed' = (text' \o buf') \o tty'
    BY <1>1, <1>5, <1>6
<1>9. NoNewline(text')
    BY <1>1, <1>3 DEF NoNewline
<1> QED
    BY <1>1, <1>2, <1>3, <1>4, <1>7, <1>8, <1>9 DEF BashInv

\* The first piece.
LEMMA ReadFirstInv == ASSUME BashInv, Bash!ReadFirst PROVE BashInv'
<1>1. /\ pc = "read" /\ pc' = (IF buf' = <<>> THEN "read" ELSE "loop") /\ Bash!ReadPiece
      /\ text' = text /\ typed' = typed
    BY DEF Bash!ReadFirst
<1>2. /\ tty \in Seq(Char) /\ text = <<>> /\ typed \in Seq(Char) /\ NewlineLast(typed)
      /\ typed = (text \o buf) \o tty /\ buf = <<>> /\ NoNewline(text)
    BY <1>1 DEF BashInv
<1>3. /\ buf' \in Seq(Char) /\ tty' \in Seq(Char) /\ tty = buf' \o tty'
      /\ Len(buf') # CliBuf => tty' = <<>>
      /\ buf' = <<>> => tty' = <<>>
      /\ ~typing' => tty' = <<>>
    BY <1>1, <1>2, APiece
<1>4. typed = tty
    BY <1>2, Nothing
<1>5. typed' = (text' \o buf') \o tty'
    BY <1>1, <1>2, <1>3, <1>4, Nothing
<1>6. text' = <<>> /\ <<>> \in Seq(Char)
    BY <1>1, <1>2, Nothing
<1>7. NoNewline(text') /\ NewlineLast(typed')
    BY <1>1, <1>2 DEF NoNewline, NewlineLast
<1> QED
    BY <1>1, <1>2, <1>3, <1>5, <1>6, <1>7 DEF BashInv

\* A piece more.
LEMMA ReadMoreInv == ASSUME BashInv, Bash!ReadMore PROVE BashInv'
<1>1. /\ pc = "loop" /\ Bash!MoreToCome /\ pc' = (IF buf' = <<>> THEN "parse" ELSE "loop")
      /\ Bash!ReadPiece /\ text' = text \o buf /\ typed' = typed
    BY DEF Bash!ReadMore
<1>2. /\ tty \in Seq(Char) /\ buf \in Seq(Char) /\ text \in Seq(Char) /\ typed \in Seq(Char)
      /\ NewlineLast(typed) /\ typed = (text \o buf) \o tty /\ NoNewline(text)
    BY <1>1 DEF BashInv
<1>3. /\ buf' \in Seq(Char) /\ tty' \in Seq(Char) /\ tty = buf' \o tty'
      /\ Len(buf') # CliBuf => tty' = <<>>
      /\ buf' = <<>> => tty' = <<>>
      /\ ~typing' => tty' = <<>>
    BY <1>1, <1>2, APiece
<1>4. NoNewline(buf)
    BY <1>1 DEF Bash!MoreToCome, Bash!Contains, NoNewline
<1>5. text' \in Seq(Char) /\ NoNewline(text \o buf)
    BY <1>1, <1>2, <1>4, NewlineEnds, ConcatProperties
<1>6. NoNewline(text') /\ NewlineLast(typed')
    BY <1>1, <1>2, <1>5 DEF NoNewline, NewlineLast
<1>7. typed' = (text' \o buf') \o tty'
  <2>1. PICK x \in Seq(Char) : x = text'
    BY <1>5
  <2>2. PICK b \in Seq(Char) : b = buf'
    BY <1>3
  <2>3. PICK t \in Seq(Char) : t = tty'
    BY <1>3
  <2>4. typed' = x \o (b \o t)
    <3>1. typed' = (text \o buf) \o tty /\ x = text \o buf /\ tty = b \o t
      BY <1>1, <1>2, <1>3, <2>1, <2>2, <2>3, Zenon
    <3> QED
      BY <3>1, Zenon
  <2>5. x \o (b \o t) = (x \o b) \o t
    BY SMTT(20), ConcatAssociative
  <2> QED
    BY <2>1, <2>2, <2>3, <2>4, <2>5
<1> QED
    BY <1>1, <1>2, <1>3, <1>5, <1>6, <1>7 DEF BashInv

\* The line is taken apart, and nothing of it is left at the terminal.
LEMMA ParseLineInv == ASSUME BashInv, Bash!Parse PROVE BashInv'
<1>1. /\ pc = "parse" \/ (pc = "loop" /\ ~Bash!MoreToCome)
      /\ argv' = Bash!Words(text \o buf) /\ pc' = "run"
      /\ tty' = tty /\ typing' = typing /\ buf' = buf /\ text' = text /\ typed' = typed
    BY DEF Bash!Parse
<1>2. /\ tty \in Seq(Char) /\ buf \in Seq(Char) /\ text \in Seq(Char) /\ typed \in Seq(Char)
      /\ NewlineLast(typed) /\ typed = (text \o buf) \o tty
      /\ pc = "parse" => tty = <<>>
      /\ pc = "loop" => (Len(buf) # CliBuf => tty = <<>>)
    BY <1>1 DEF BashInv
<1>3. PICK c \in Seq(Char) : c = text \o buf
    BY <1>2, ConcatProperties
<1>4. tty = <<>>
  <2>1. ASSUME tty # <<>>, Bash!Contains(buf, Bash!Newline) PROVE FALSE
    <3>1. NoNewline(c)
      BY <1>2, <1>3, <2>1, NewlineEnds
    <3>2. PICK i \in 1 .. Len(buf) : buf[i] = Bash!Newline
      BY <2>1 DEF Bash!Contains
    <3>3. PICK m \in Nat, n \in Nat : m = Len(text) /\ n = Len(buf)
      BY <1>2, LenProperties
    <3>4. m + i \in 1 .. m + n /\ ~(m + i <= m) /\ (m + i) - m = i
      BY <3>2, <3>3
    <3>5. /\ Len(c) = m + n
          /\ \A k \in 1 .. m + n : c[k] = IF k <= m THEN text[k] ELSE buf[k - m]
      BY <1>2, <1>3, <3>3, ConcatProperties
    <3>6. c[m + i] = buf[i]
      BY <3>4, <3>5
    <3> QED
      BY <3>1, <3>2, <3>4, <3>5, <3>6 DEF NoNewline
  <2>2. pc = "loop" => Len(buf) # CliBuf \/ Bash!Contains(buf, Bash!Newline)
    BY <1>1 DEF Bash!MoreToCome
  <2> QED
    BY <1>1, <1>2, <2>1, <2>2
<1>5. argv' = Bash!Words(typed)
    BY <1>1, <1>2, <1>3, <1>4, Nothing
<1>6. Bash!Words(typed)' = Bash!Words(typed)
  <2>1. ASSUME NEW s, NEW t, s = t PROVE Bash!Words(s) = Bash!Words(t)
    BY <2>1
  <2> QED
    BY <1>1
<1>7. NewlineLast(typed')
    BY <1>1, <1>2 DEF NewlineLast
<1> QED
    BY <1>1, <1>2, <1>4, <1>5, <1>6, <1>7 DEF BashInv

\* The next prompt, at which what the terminal still holds is to be read.
LEMMA PromptInv == ASSUME BashInv, pc # "ended", Bash!Prompt PROVE BashInv'
<1>1. /\ pc' = "read" /\ buf' = <<>> /\ text' = <<>> /\ typed' = tty
      /\ tty' = tty /\ typing' = typing
    BY DEF Bash!Prompt
<1>2. /\ tty \in Seq(Char) /\ buf \in Seq(Char) /\ text \in Seq(Char)
      /\ NewlineLast(typed) /\ (~typing => tty = <<>>)
    BY DEF BashInv
<1>3. NewlineLast(tty)
  <2>1. CASE pc = "run"
    <3>1. tty = <<>> /\ Len(<<>>) = 0
      BY <2>1 DEF BashInv
    <3> QED
      BY <3>1 DEF NewlineLast
  <2>2. CASE pc \in {"read", "loop", "parse"}
    <3>1. typed = (text \o buf) \o tty
      BY <2>2 DEF BashInv
    <3>2. text \o buf \in Seq(Char)
      BY <1>2, ConcatProperties
    <3> QED
      BY <1>2, <3>1, <3>2, NewlineEnds
  <2> QED
    BY <2>1, <2>2 DEF BashInv
<1>4. NewlineLast(typed')
    BY <1>1, <1>3 DEF NewlineLast
<1>5. typed' = (text' \o buf') \o tty'
    BY <1>1, <1>2, Nothing
<1>6. NoNewline(text')
  <2>1. Len(<<>>) = 0
    OBVIOUS
  <2> QED
    BY <1>1, <2>1 DEF NoNewline
<1>7. <<>> \in Seq(Char)
    OBVIOUS
<1> QED
    BY <1>1, <1>2, <1>4, <1>5, <1>6, <1>7 DEF BashInv

\* A shell ends.
LEMMA ShellEndsInv == ASSUME BashInv, pc # "ended", Bash!ShellEnds PROVE BashInv'
<1>1. CASE Bash!Prompt
    BY <1>1, PromptInv
<1>2. CASE pc' = "ended" /\ UNCHANGED <<tty, typing, buf, text, argv, shells, typed>>
    BY <1>2 DEF BashInv, NewlineLast
<1> QED
    BY <1>1, <1>2 DEF Bash!ShellEnds

\* Every step of the shell keeps its invariant.
LEMMA NextBash == BashInv /\ [Bash!Next]_(Bash!vars) => BashInv'
<1> SUFFICES ASSUME BashInv, [Bash!Next]_(Bash!vars) PROVE BashInv'
    OBVIOUS
<1>1. CASE \E l \in Bash!Lines : Bash!Type(l)
    BY <1>1, TypeInv
<1>2. CASE Bash!GiveUp
  <2>1. pc # "ended" /\ Bash!ShellEnds
    BY <1>2 DEF Bash!GiveUp
  <2> QED
    BY <2>1, ShellEndsInv
<1>3. CASE Bash!RunExit
  <2>1. pc # "ended" /\ Bash!ShellEnds
    BY <1>3 DEF Bash!RunExit
  <2> QED
    BY <2>1, ShellEndsInv
<1>4. CASE Bash!RunProgram
  <2>1. pc # "ended" /\ Bash!Prompt
    BY <1>4 DEF Bash!RunProgram
  <2> QED
    BY <2>1, PromptInv
<1>5. CASE Bash!RunFails
  <2>1. pc # "ended" /\ Bash!Prompt
    BY <1>5 DEF Bash!RunFails
  <2> QED
    BY <2>1, PromptInv
<1>6. CASE UNCHANGED Bash!vars
  <2>1. UNCHANGED <<pc, tty, typing, buf, text, argv, typed>>
    BY <1>6 DEF Bash!vars
  <2>2. Bash!Words(typed)' = Bash!Words(typed)
    BY <2>1
  <2> QED
    BY <2>1, <2>2 DEF BashInv, NoNewline, NewlineLast
<1> QED
    BY <1>1, <1>2, <1>3, <1>4, <1>5, <1>6, ReadFirstInv, ReadMoreInv, ParseLineInv
    DEF Bash!Next

\* The arguments are the words of what was typed.
LEMMA BashInvArgs == BashInv => ArgsAreWords
<1> SUFFICES ASSUME BashInv, pc = "run", typed # <<>>, Bash!Last(typed) = Bash!Newline
             PROVE  Bash!TakenApart(Bash!Front(typed), argv)
    BY DEF ArgsAreWords, Bash!ArgsAreWords
<1>1. typed \in Seq(Char) /\ argv = Bash!Words(typed)
    BY DEF BashInv
<1>2. PICK l \in Seq(Char) : l = typed
    BY <1>1
<1>3. PICK n \in Nat \ {0} : Len(l) = n
    BY <1>2, EmptySeq
<1>4. l[n] = Bash!Newline /\ Bash!Front(typed) = SubSeq(l, 1, n - 1)
    BY <1>2, <1>3 DEF Bash!Last, Bash!Front
<1>5. PICK before : before = SubSeq(l, 1, n - 1)
    OBVIOUS
<1>6. Bash!TakenApart(before, Bash!Words(l))
    BY <1>3, <1>4, <1>5, WordsOf
<1> QED
    BY <1>1, <1>2, <1>4, <1>5, <1>6

\* A step of the run is a step of the shell, or leaves it alone.
LEMMA ShellAlone ==
    /\ SeqInit => Bash!Init
    /\ [SeqNext]_seqVars => [Bash!Next]_(Bash!vars)
BY DEF SeqInit, SeqNext, AtTill, InShell, Delegate, seqVars, shell, Bash!vars

\* A line ended by Enter is taken apart into its words: for lines of any length over any
\* letters, whatever the size of the buffer, and however they come in pieces.
THEOREM LinesAreTakenApart == SeqSpec => []ArgsAreWords
BY InitBash, NextBash, BashInvArgs, ShellAlone, PTL DEF SeqSpec
============================================================================
