---------------------------- MODULE MonitorProofs ----------------------------
(***************************************************************************)
(* What the hello of Monitor.tla's children buys, for every number of      *)
(* them: no signal is early and none is sent twice to a child that lives;  *)
(* and the loop over the slots ends when every child has been answered.    *)
(***************************************************************************)
EXTENDS Monitor, FiniteSetTheorems, TLAPS

\* A child that has not said hello has no signal and no message; one that has been signalled
\* was heard, and has the signal either before or behind it; only a released one leaves.
ChildrenInOrder ==
    \A c \in Children :
        /\ ~At(c, "killed")
        /\ At(c, "exited") => got[c]
        /\ child[c] \in {"unborn", "install", "say"} => ~inPipe[c]
        /\ pending[c] \/ got[c] => Heard(c)
        /\ pending[c] => ~got[c]

\* The parent forks from the first to the last, goes on when there are all, and reaps them in
\* the same order.
ForkedInOrder ==
    /\ parent = "fork" => \A c \in Children : At(c, "unborn") <=> c >= i
    /\ parent \notin {"fork", "failed"} => \A c \in Children : ~At(c, "unborn")
    /\ parent = "reap" => i \in Children

\* Whom the parent has heard it has answered, but for the child it has just read from, which
\* is gone, or has no signal yet.
Answered ==
    /\ \A c \in Children : Heard(c) =>
          pending[c] \/ got[c] \/ (parent = "signal" /\ c = events[j])
    /\ parent = "signal" => Gone(events[j]) \/ (~pending[events[j]] /\ ~got[events[j]])

\* The slots of a batch hold different children; those handled were heard.
Batch ==
    parent \in {"read", "signal"} =>
        /\ j \in 1..Len(events)
        /\ \A s, t \in 1..Len(events) : events[s] = events[t] => s = t
        /\ \A s \in 1..(j - 1) : Heard(events[s])
        /\ parent = "signal" => Heard(events[j])

\* The last slot is only marked by a batch of everybody.
LastSlot ==
    notified[NChildren] \/ parent \in {"reap", "done"} => \A c \in Children : Heard(c)

IInv ==
    /\ TypeOK
    /\ ChildrenInOrder
    /\ ForkedInOrder
    /\ Answered
    /\ Batch
    /\ LastSlot

\* What epoll_wait fills in: one slot for each ready child, no more than there are children.
LEMMA Slots ==
    ASSUME NEW e \in SetToSeqs(ReadySet)
    PROVE  /\ e \in Seq(Children)
           /\ Len(e) = Cardinality(ReadySet) /\ Len(e) \in 0..NChildren
           /\ ReadySet # {} => Len(e) >= 1
           /\ \A s, t \in 1..Len(e) : e[s] = e[t] => s = t
  <1>1. IsFiniteSet(Children) /\ Cardinality(Children) = NChildren
    BY FS_Interval, MonitorAssumption DEF Children
  <1>2. ReadySet \in SUBSET Children
    BY DEF ReadySet
  <1>3. IsFiniteSet(ReadySet) /\ Cardinality(ReadySet) <= NChildren
    BY <1>1, <1>2, FS_Subset
  <1>4. Cardinality(ReadySet) \in Nat /\ (ReadySet # {} => Cardinality(ReadySet) # 0)
    BY <1>3, FS_CardinalityType, FS_EmptySet
  <1>5. /\ e \in [1..Cardinality(ReadySet) -> ReadySet]
        /\ \A s, t \in 1..Cardinality(ReadySet) : s # t => e[s] # e[t]
    BY DEF SetToSeqs
  <1>6. e \in Seq(ReadySet) /\ Len(e) = Cardinality(ReadySet)
    BY <1>4, <1>5
  <1>7. e \in Seq(Children)
    BY <1>2, <1>6
  <1>8. QED
    BY <1>3, <1>4, <1>5, <1>6, <1>7, MonitorAssumption

\* As many different children as there are children are all of them.
LEMMA FullBatch ==
    ASSUME NEW e \in Seq(Children), Len(e) = NChildren,
           \A s, t \in 1..Len(e) : e[s] = e[t] => s = t
    PROVE  \A c \in Children : \E s \in 1..Len(e) : e[s] = c
  <1>1. IsFiniteSet(Children)
    BY FS_Interval, MonitorAssumption DEF Children
  <1>2. e \in Injection(Children, Children)
    BY DEF Injection, IsInjective, Children
  <1>3. e \in Surjection(Children, Children)
    BY <1>1, <1>2, FS_Injection
  <1>4. QED
    BY <1>3 DEF Surjection, Children

\* Before the first fork there is nobody.
LEMMA InitIInv == Init => IInv
  <1> SUFFICES ASSUME Init PROVE IInv
    OBVIOUS
  <1>1. TypeOK
    BY MonitorAssumption DEF Init, TypeOK
  <1>2. ChildrenInOrder
    BY DEF Init, ChildrenInOrder, At
  <1>3. ForkedInOrder
    BY DEF Init, ForkedInOrder, At, Children
  <1>4. Answered /\ Batch
    BY DEF Init, Answered, Batch, Heard
  <1>5. LastSlot
    BY MonitorAssumption DEF Init, LastSlot
  <1>6. QED
    BY <1>1, <1>2, <1>3, <1>4, <1>5 DEF IInv

\* A new child has said and heard nothing.
LEMMA ForkIInv ==
    ASSUME IInv, Fork
    PROVE  IInv'
  <1> USE DEF IInv, TypeOK, Fork, parentVars, childVars
  <1>1. TypeOK'
    BY MonitorAssumption DEF Children, At, Goto
  <1>2. ChildrenInOrder'
    BY DEF ChildrenInOrder, ForkedInOrder, Answered, At, Goto, Gone, Heard
  <1>3. ForkedInOrder'
    BY DEF ForkedInOrder, At, Goto, Children
  <1>4. Answered'
    BY DEF ChildrenInOrder, Answered, Batch, At, Goto, Gone, Heard
  <1>5. Batch'
    BY DEF ChildrenInOrder, Batch, At, Goto, Gone, Heard, Ready
  <1>6. LastSlot'
    <2>1. i \in Children /\ At(i, "unborn")
      BY DEF ForkedInOrder, Children
    <2>2. ~Heard(i)
      BY <2>1 DEF Heard, At
    <2>3. QED
      BY <2>1, <2>2 DEF LastSlot
  <1>7. QED
    BY <1>1, <1>2, <1>3, <1>4, <1>5, <1>6

\* A batch is new: nothing of it was read.
LEMMA EpollWaitIInv ==
    ASSUME IInv, EpollWait
    PROVE  IInv'
  <1> USE DEF IInv, TypeOK, EpollWait, parentVars, childVars
  <1>0. /\ events' \in Seq(Children) /\ Len(events') \in 1..NChildren
        /\ \A s, t \in 1..Len(events') : events'[s] = events'[t] => s = t
    BY Slots, MonitorAssumption
  <1>1. TypeOK'
    BY <1>0, MonitorAssumption
  <1>2. ChildrenInOrder'
    BY DEF ChildrenInOrder, ForkedInOrder, Answered, At, Goto, Gone, Heard
  <1>3. ForkedInOrder'
    BY DEF ForkedInOrder, At, Goto, Children
  <1>4. Answered'
    BY DEF ChildrenInOrder, Answered, Batch, At, Goto, Gone, Heard
  <1>5. Batch'
    BY <1>0 DEF ChildrenInOrder, Batch, At, Goto, Gone, Heard, Ready
  <1>6. LastSlot'
    BY DEF LastSlot, Heard, At, Goto
  <1>7. QED
    BY <1>1, <1>2, <1>3, <1>4, <1>5, <1>6

\* The child read from is heard; if it had been signalled before, it is gone.
LEMMA ReadIInv ==
    ASSUME IInv, Read
    PROVE  IInv'
  <1> USE DEF IInv, TypeOK, Read, parentVars, childVars
  <1>1. TypeOK'
    BY MonitorAssumption DEF Children, At, Goto
  <1>2. ChildrenInOrder'
    BY DEF ChildrenInOrder, ForkedInOrder, Answered, At, Goto, Gone, Heard
  <1>3. ForkedInOrder'
    BY DEF ForkedInOrder, At, Goto, Children
  <1>4. Answered'
    <2>1. events[j] \in Children
      BY DEF Batch
    <2>2. Gone(events[j]) \/ (~pending[events[j]] /\ ~got[events[j]])
      BY <2>1 DEF ChildrenInOrder, Ready, Heard
    <2>3. ASSUME NEW c \in Children, Heard(c)', c # events[j] PROVE pending[c] \/ got[c]
      BY <2>1, <2>3 DEF Answered, Heard
    <2>4. QED
      BY <2>1, <2>2, <2>3 DEF Answered, Gone
  <1>5. Batch'
    BY DEF ChildrenInOrder, Batch, At, Goto, Gone, Heard, Ready
  <1>6. LastSlot'
    BY DEF LastSlot, Heard, At, Goto
  <1>7. QED
    BY <1>1, <1>2, <1>3, <1>4, <1>5, <1>6

\* The child in the slot is answered; the last of as many slots as children makes all of them heard.
LEMMA SignalIInv ==
    ASSUME IInv, Signal
    PROVE  IInv'
  <1> USE DEF IInv, TypeOK, Signal, parentVars, childVars
  <1>0. events[j] \in Children /\ j \in 1..NChildren /\ Heard(events[j])
    <2>1. j \in 1..Len(events) /\ Heard(events[j])
      BY DEF Batch
    <2>2. Len(events) \in Nat /\ Len(events) <= NChildren
      OBVIOUS
    <2>3. QED
      BY <2>1, <2>2, MonitorAssumption
  <1>1. TypeOK'
    <2>1. /\ pending' \in [Children -> BOOLEAN]
          /\ notified' \in [1..NChildren -> BOOLEAN]
      BY <1>0 DEF Gone
    <2>2. j' \in 1..NChildren + 1 /\ parent' \in {"read", "test"}
      BY <1>0, MonitorAssumption
    <2>3. QED
      BY <2>1, <2>2
  <1>2. ChildrenInOrder'
    <2>1. SUFFICES ASSUME NEW c \in Children, pending'[c]
                   PROVE  Heard(c) /\ ~got[c]
      BY DEF ChildrenInOrder, At, Heard
    <2>2. CASE c = events[j]
      BY <1>0, <2>1, <2>2 DEF Answered
    <2>3. CASE c # events[j]
      BY <1>0, <2>1, <2>3 DEF ChildrenInOrder
    <2>4. QED
      BY <2>2, <2>3
  <1>3. ForkedInOrder'
    BY DEF ForkedInOrder, At, Goto, Children
  <1>4. Answered'
    BY DEF ChildrenInOrder, Answered, Batch, At, Goto, Gone, Heard
  <1>5. Batch'
    BY DEF ChildrenInOrder, Batch, At, Goto, Gone, Heard, Ready
  <1>6. LastSlot'
    <2>1. SUFFICES ASSUME notified'[NChildren], ~notified[NChildren], NEW c \in Children
                   PROVE  Heard(c)
      BY DEF LastSlot, Heard
    <2>2. j = NChildren /\ Len(events) = NChildren
      BY <1>0, <2>1, MonitorAssumption DEF Batch
    <2>3. PICK s \in 1..Len(events) : events[s] = c
      BY <2>2, FullBatch DEF Batch
    <2>4. s \in 1..(j - 1) \/ s = j
      BY <2>2, MonitorAssumption
    <2>5. QED
      BY <1>0, <2>3, <2>4 DEF Batch
  <1>7. QED
    BY <1>1, <1>2, <1>3, <1>4, <1>5, <1>6

\* The loop ends when every slot was marked, the last one too.
LEMMA LoopTestIInv ==
    ASSUME IInv, LoopTest
    PROVE  IInv'
  <1> USE DEF IInv, TypeOK, LoopTest, parentVars, childVars
  <1>1. TypeOK'
    BY MonitorAssumption DEF Children, At, Goto
  <1>2. ChildrenInOrder'
    BY DEF ChildrenInOrder, ForkedInOrder, Answered, At, Goto, Gone, Heard
  <1>3. ForkedInOrder'
    BY MonitorAssumption DEF ForkedInOrder, At, Goto, Children
  <1>4. Answered'
    BY DEF ChildrenInOrder, Answered, Batch, At, Goto, Gone, Heard
  <1>5. Batch'
    BY DEF ChildrenInOrder, Batch, At, Goto, Gone, Heard, Ready
  <1>6. LastSlot'
    <2>1. NChildren \in 1..NChildren
      BY MonitorAssumption
    <2>2. QED
      BY <2>1 DEF LastSlot, Heard
  <1>7. QED
    BY <1>1, <1>2, <1>3, <1>4, <1>5, <1>6

\* Neither setting up nor reaping touches a child.
LEMMA RestOfParentIInv ==
    ASSUME IInv, SetUp \/ SetUpFails \/ Reap
    PROVE  IInv'
  <1> USE DEF IInv, TypeOK, SetUp, SetUpFails, Reap, parentVars, childVars
  <1>1. TypeOK'
    <2>1. CASE SetUp \/ SetUpFails
      BY <2>1
    <2>2. CASE Reap
      <3>1. i \in Children
        BY <2>2 DEF ForkedInOrder
      <3>2. QED
        BY <2>2, <3>1, MonitorAssumption DEF Children
    <2>3. QED
      BY <2>1, <2>2
  <1>2. ChildrenInOrder'
    BY DEF ChildrenInOrder, ForkedInOrder, Answered, At, Goto, Gone, Heard
  <1>3. ForkedInOrder'
    <2>1. ASSUME NEW c \in Children, parent = "fork", i = NChildren + 1 PROVE ~At(c, "unborn")
      BY <2>1, MonitorAssumption DEF ForkedInOrder, Children
    <2>2. parent' = "reap" => i' \in Children
      BY MonitorAssumption DEF ForkedInOrder, Children
    <2>3. QED
      BY <2>1, <2>2 DEF ForkedInOrder, At
  <1>4. Answered'
    BY DEF ChildrenInOrder, Answered, Batch, At, Goto, Gone, Heard
  <1>5. Batch'
    BY DEF ChildrenInOrder, Batch, At, Goto, Gone, Heard, Ready
  <1>6. LastSlot'
    BY DEF LastSlot, Heard, At, Goto
  <1>7. QED
    BY <1>1, <1>2, <1>3, <1>4, <1>5, <1>6

\* A child installs its handler while it has no signal.
LEMMA InstallIInv ==
    ASSUME IInv, NEW c \in Children, Install(c)
    PROVE  IInv'
  <1> USE DEF IInv, TypeOK, Install, parentVars, childVars
  <1>1. TypeOK'
    BY MonitorAssumption DEF Children, At, Goto
  <1>2. ChildrenInOrder'
    BY DEF ChildrenInOrder, ForkedInOrder, Answered, At, Goto, Gone, Heard
  <1>3. ForkedInOrder'
    BY DEF ForkedInOrder, At, Goto, Children
  <1>4. Answered'
    BY DEF ChildrenInOrder, Answered, Batch, At, Goto, Gone, Heard
  <1>5. Batch'
    BY DEF ChildrenInOrder, Batch, At, Goto, Gone, Heard, Ready
  <1>6. LastSlot'
    BY DEF LastSlot, Heard, At, Goto
  <1>7. QED
    BY <1>1, <1>2, <1>3, <1>4, <1>5, <1>6

\* A child says hello once.
LEMMA SayIInv ==
    ASSUME IInv, NEW c \in Children, Say(c)
    PROVE  IInv'
  <1> USE DEF IInv, TypeOK, Say, parentVars, childVars
  <1>1. TypeOK'
    BY MonitorAssumption DEF Children, At, Goto
  <1>2. ChildrenInOrder'
    BY DEF ChildrenInOrder, ForkedInOrder, Answered, At, Goto, Gone, Heard
  <1>3. ForkedInOrder'
    BY DEF ForkedInOrder, At, Goto, Children
  <1>4. Answered'
    BY DEF ChildrenInOrder, Answered, Batch, At, Goto, Gone, Heard
  <1>5. Batch'
    BY DEF ChildrenInOrder, Batch, At, Goto, Gone, Heard, Ready
  <1>6. LastSlot'
    BY DEF LastSlot, Heard, At, Goto
  <1>7. QED
    BY <1>1, <1>2, <1>3, <1>4, <1>5, <1>6

\* A child looks at its flag, and leaves if it was set.
LEMMA CheckIInv ==
    ASSUME IInv, NEW c \in Children, Check(c) \/ Pause(c)
    PROVE  IInv'
  <1> USE DEF IInv, TypeOK, Check, Pause, parentVars, childVars
  <1>1. TypeOK'
    BY MonitorAssumption DEF Children, At, Goto
  <1>2. ChildrenInOrder'
    BY DEF ChildrenInOrder, ForkedInOrder, Answered, At, Goto, Gone, Heard
  <1>3. ForkedInOrder'
    BY DEF ForkedInOrder, At, Goto, Children
  <1>4. Answered'
    BY DEF ChildrenInOrder, Answered, Batch, At, Goto, Gone, Heard
  <1>5. Batch'
    BY DEF ChildrenInOrder, Batch, At, Goto, Gone, Heard, Ready
  <1>6. LastSlot'
    BY DEF LastSlot, Heard, At, Goto
  <1>7. QED
    BY <1>1, <1>2, <1>3, <1>4, <1>5, <1>6

\* A signal meets a handler, and sets the flag once.
LEMMA DeliverIInv ==
    ASSUME IInv, NEW c \in Children, Deliver(c)
    PROVE  IInv'
  <1> USE DEF IInv, TypeOK, Deliver, parentVars, childVars
  <1>1. TypeOK'
    BY MonitorAssumption DEF Children, At, Goto
  <1>2. ChildrenInOrder'
    BY DEF ChildrenInOrder, ForkedInOrder, Answered, At, Goto, Gone, Heard
  <1>3. ForkedInOrder'
    BY DEF ForkedInOrder, At, Goto, Children
  <1>4. Answered'
    BY DEF ChildrenInOrder, Answered, Batch, At, Goto, Gone, Heard
  <1>5. Batch'
    BY DEF ChildrenInOrder, Batch, At, Goto, Gone, Heard, Ready
  <1>6. LastSlot'
    BY DEF LastSlot, Heard, At, Goto
  <1>7. QED
    BY <1>1, <1>2, <1>3, <1>4, <1>5, <1>6

\* Every step of parent and children keeps the invariant.
LEMMA NextIInv == IInv /\ [Next]_vars => IInv'
  <1> SUFFICES ASSUME IInv, [Next]_vars PROVE IInv'
    OBVIOUS
  <1>1. CASE Parent \/ SetUpFails
    BY <1>1, ForkIInv, EpollWaitIInv, ReadIInv, SignalIInv, LoopTestIInv, RestOfParentIInv DEF Parent
  <1>2. ASSUME NEW c \in Children, Child(c) PROVE IInv'
    BY <1>2, InstallIInv, SayIInv, CheckIInv, DeliverIInv DEF Child
  <1>3. CASE UNCHANGED vars
    BY <1>3 DEF vars, IInv, TypeOK, ChildrenInOrder, ForkedInOrder, Answered, Batch, LastSlot,
       At, Gone, Heard
  <1>4. QED
    BY <1>1, <1>2, <1>3 DEF Next, Over

LEMMA Invariant == Spec => []IInv
  BY InitIInv, NextIInv, PTL DEF Spec

\* No child is killed by the signal that is to release it, and none that lives gets it twice.
THEOREM Safely == Spec => []SignalledSafely
  <1>1. IInv => SignalledSafely
    BY DEF IInv, ChildrenInOrder, SignalledSafely, At, Heard
  <1>2. QED
    BY Invariant, <1>1, PTL

\* No child leaves unheard, and when the loop has ended every child was heard and answered.
THEOREM Informed == Spec => []EndsInformed
  <1>1. IInv => EndsInformed
    BY DEF IInv, ChildrenInOrder, Answered, LastSlot, EndsInformed, At, Gone
  <1>2. QED
    BY Invariant, <1>1, PTL
=============================================================================
