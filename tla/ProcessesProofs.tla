-------------------------- MODULE ProcessesProofs --------------------------
(***************************************************************************)
(* The programs of MCProcesses.tla, for every run of them: the traders'    *)
(* flag misses no price for any number of stocks, the two players read     *)
(* each other's records whole in every round, kill_me ends on its sequence *)
(* whatever signals come before it, and the toll logs every lane exactly   *)
(* that no read has cut, for any lanes, lines, buffers and FIFOs.          *)
(***************************************************************************)
EXTENDS MCProcesses, Sequences, SequenceTheorems, FiniteSetTheorems, WellFoundedInduction, TLAPS

(***************************************************************************)
(* The traders: what the flag announces.                                   *)
(***************************************************************************)
\* Every variable stays in its range.
TypeOK ==
    /\ updater \in {"none", "store", "flag"}
    /\ publisher \in {"fork", "test", "print", "clear", "ended"}
    /\ cur \in Stocks
    /\ updated \in BOOLEAN
    /\ unprinted \subseteq Stocks /\ late \subseteq Stocks

\* A stock that waits to be printed, other than the late ones, is announced by the flag, is
\* about to be, or is still ahead of the publication under way.
Announced ==
    \A s \in unprinted \ late :
        \/ publisher = "test" /\ (updated \/ updater = "flag")
        \/ publisher = "print" /\ cur <= s

TradersInv ==
    /\ TypeOK
    /\ publisher # "print" => cur = 1
    /\ publisher \in {"fork", "ended"} => updater = "none" /\ unprinted = {}
    /\ Announced

\* Nothing has been stored before the fork.
LEMMA TradersInit == Init => TradersInv
  <1> SUFFICES ASSUME Init PROVE TradersInv
    OBVIOUS
  <1>1. cur \in Stocks
    BY TradersAssumption DEF Init, Stocks
  <1>2. QED
    BY <1>1 DEF Init, TradersInv, TypeOK, Announced

\* A price stored is announced, ahead of the publication, or late.
LEMMA StoreInv ==
    ASSUME TradersInv, NEW s \in Stocks, Store(s)
    PROVE  TradersInv'
  <1> USE DEF TradersInv, TypeOK, Store
  <1>1. TypeOK' /\ (publisher' # "print" => cur' = 1)
    OBVIOUS
  <1>2. publisher' \notin {"fork", "ended"}
    OBVIOUS
  <1>3. ASSUME NEW t \in unprinted' \ late'
        PROVE  \/ publisher' = "test" /\ (updated' \/ updater' = "flag")
               \/ publisher' = "print" /\ cur' <= t
    <2>1. CASE t = s
      BY <1>3, <2>1 DEF Stocks
    <2>2. CASE t # s
      BY <1>3, <2>2 DEF Announced
    <2>3. QED
      BY <2>1, <2>2
  <1>4. QED
    BY <1>1, <1>2, <1>3 DEF Announced

\* A publication prints every stock that was ahead of it, the last one before the clear.
LEMMA PublishOneInv ==
    ASSUME TradersInv, PublishOne
    PROVE  TradersInv'
  <1> USE DEF TradersInv, TypeOK, PublishOne
  <1>1. cur' \in Stocks /\ (publisher' # "print" => cur' = 1)
    BY TradersAssumption DEF Stocks
  <1>2. TypeOK' /\ publisher' \notin {"fork", "ended"}
    BY <1>1
  <1>3. ASSUME NEW t \in unprinted' \ late'
        PROVE  publisher' = "print" /\ cur' <= t
    <2>1. t \in Stocks /\ t # cur /\ cur <= t
      BY <1>3 DEF Announced
    <2>2. cur < MaxStocks
      BY <2>1, TradersAssumption DEF Stocks
    <2>3. QED
      BY <2>1, <2>2 DEF Stocks
  <1>4. QED
    BY <1>1, <1>2, <1>3 DEF Announced

\* Every step of either process keeps the invariant.
LEMMA TradersStep == TradersInv /\ [Next]_vars => TradersInv'
  <1> SUFFICES ASSUME TradersInv, [Next]_vars PROVE TradersInv'
    OBVIOUS
  <1>1. ASSUME NEW s \in Stocks, Store(s) PROVE TradersInv'
    BY <1>1, StoreInv
  <1>2. CASE Flag
    BY <1>2 DEF Flag, TradersInv, TypeOK, Announced
  <1>3. CASE Fork
    BY <1>3 DEF Fork, TradersInv, TypeOK, Announced
  <1>4. CASE Poll
    <2>1. TradersInv' \/ updated
      BY <1>4 DEF Poll, TradersInv, TypeOK, Announced
    <2>2. CASE updated
      BY <1>4, <2>2 DEF Poll, TradersInv, TypeOK, Announced, Stocks
    <2>3. QED
      BY <2>1, <2>2
  <1>5. CASE PublishOne
    BY <1>5, PublishOneInv
  <1>6. CASE Clear
    BY <1>6 DEF Clear, TradersInv, TypeOK, Announced
  <1>7. CASE UNCHANGED vars
    BY <1>7 DEF vars, TradersInv, TypeOK, Announced
  <1>8. QED
    BY <1>1, <1>2, <1>3, <1>4, <1>5, <1>6, <1>7 DEF Next, Updater, Publisher

\* Whenever the parent polls in vain and the child is between two updates, no price is
\* unprinted but the late ones, for every number of stocks.
THEOREM NothingMissed == Spec => []UpToDateUnlessLate
  <1>1. TradersInv => UpToDateUnlessLate
    BY DEF TradersInv, Announced, UpToDateUnlessLate
  <1>2. QED
    BY TradersInit, TradersStep, <1>1, PTL DEF Spec

----------------------------------------------------------------------------
(***************************************************************************)
(* The game.  A read takes whole records only because of where the two     *)
(* players can be when it happens: Round lists what the pipes hold at each *)
(* pair of places.  The parent is at most one round ahead, with up to      *)
(* three records of its own unread.                                        *)
(***************************************************************************)
\* The three records of the game.
Greeting == Rps!Record("online", 0)
Invitation == Rps!Record("game", 0)
Hand(v) == Rps!Record("int", v)

\* Where the two players stand, and what is in their pipes.
Stand(p, c, pp, cc) ==
    /\ at["parent"] = p /\ at["child"] = c
    /\ bytes["parent"] = pp /\ bytes["child"] = cc

\* Player p has read what the other has chosen, and judged by it.
Judged(p) ==
    /\ selection_2[p] = selection[Rps!Other(p)]
    /\ verdict[p] = Rps!Verdict(selection[p], selection_2[p])

\* Up to the first round: greetings, one at a time.
Meeting ==
    \/ Stand("fork", "none", <<>>, <<>>) \/ Stand("ended", "none", <<>>, <<>>)
    \/ Stand("online", "online", <<>>, <<>>)
    \/ Stand("greeted", "online", Greeting, <<>>)
    \/ Stand("greeted", "greet", <<>>, <<>>)
    \/ Stand("greeted", "play", <<>>, Greeting)

\* The rounds: what the two pipes hold, and who has judged.
Round ==
    LET mine == Hand(selection["parent"])
        theirs == Hand(selection["child"])
    IN  \/ /\ Stand("play", "play", <<>>, <<>>)
           /\ verdict["parent"] # "none" => Judged("parent") /\ Judged("child")
        \/ Stand("choose", "play", Invitation, <<>>)
        \/ Stand("answer", "play", Invitation \o mine, <<>>)
        \/ Stand("choose", "choose", <<>>, <<>>)
        \/ Stand("answer", "choose", mine, <<>>)
        \/ Stand("choose", "answer", <<>>, theirs)
        \/ Stand("answer", "answer", mine, theirs)
        \/ Stand("answer", "play", <<>>, theirs) /\ Judged("child")
        \/ Stand("play", "answer", mine, <<>>) /\ Judged("parent")
        \/ \E v \in Rps!Hands :
              \/ Stand("choose", "answer", Hand(v) \o Invitation, <<>>)
              \/ Stand("answer", "answer", Hand(v) \o (Invitation \o mine), <<>>)

\* The inductive invariant of the game.
GameInv ==
    /\ selection \in [Rps!Players -> Rps!Hands]
    /\ \A f \in {at, bytes, selection_2, verdict} : DOMAIN f = Rps!Players
    /\ (Meeting /\ verdict["parent"] = "none") \/ Round

\* What a pipe is made of.
Bytes == [kind : {"online", "game", "int"}, value : Rps!Hands, at : 1..11]

\* A record is a sequence of bytes, of its size and not empty, and its first byte says so.
LEMMA RecordIsBytes ==
  ASSUME NEW kind \in {"online", "game", "int"}, NEW v \in Rps!Hands
  PROVE  LET r == Rps!Record(kind, v) IN
         /\ r \in Seq(Bytes) /\ Len(r) = Rps!Size(kind) /\ r # <<>>
         /\ r[1].at = 1 /\ r[1].value = v
  <1>1. Rps!Size(kind) \in 1..11
    BY DEF Rps!Size
  <1>2. \A k \in 1..Rps!Size(kind) : [kind |-> kind, value |-> v, at |-> k] \in Bytes
    BY <1>1 DEF Bytes
  <1> DEFINE r == [k \in 1..Rps!Size(kind) |-> [kind |-> kind, value |-> v, at |-> k]]
  <1>3. r \in Seq(Bytes) /\ Len(r) = Rps!Size(kind)
    BY <1>1, <1>2
  <1>4. r # <<>> /\ r[1].at = 1 /\ r[1].value = v
    BY <1>1, <1>3
  <1> QED
    BY <1>3, <1>4 DEF Rps!Record

\* The bound of a read: what it asks for, if there is as much.
LEMMA LeastOfTwo ==
  ASSUME NEW m \in Nat, NEW n \in Nat, m <= n
  PROVE  Rps!Min({m, n}) = m
  BY DEF Rps!Min

\* A read of one record's length takes that record, and leaves what was written behind it.
LEMMA ReadsTheRecord ==
  ASSUME NEW s \in Seq(Bytes), NEW t \in Seq(Bytes), s # <<>>
  PROVE  /\ SubSeq(s \o t, 1, Rps!Min({Len(s), Len(s \o t)})) = s
         /\ SubSeq(s \o t, Len(s) + 1, Len(s \o t)) = t
         /\ s \o t # <<>> /\ (s \o t)[1] = s[1]
  <1>1. /\ s \o t \in Seq(Bytes) /\ Len(s \o t) = Len(s) + Len(t)
        /\ Len(s) \in Nat \ {0} /\ Len(t) \in Nat
        /\ \A i \in 1..Len(s) + Len(t) : (s \o t)[i] = IF i <= Len(s) THEN s[i] ELSE t[i - Len(s)]
    BY ConcatProperties, EmptySeq, LenProperties
  <1>2. Rps!Min({Len(s), Len(s \o t)}) = Len(s)
    BY <1>1, LeastOfTwo
  <1>3. SubSeq(s \o t, 1, Len(s)) = s
    BY <1>1, SubSeqOfConcat1, SubSeqFull
  <1>4. SubSeq(s \o t, Len(s) + 1, Len(s \o t)) = t
    <2>1. CASE t = <<>>
      BY <1>1, <2>1, SubSeqEmpty
    <2>2. CASE t # <<>>
      <3>1. Len(t) > 0
        BY <2>2, EmptySeq, <1>1
      <3>2. SubSeq(s \o t, Len(s) + 1, Len(s) + Len(t))
              = SubSeq(t, Len(s) + 1 - Len(s), Len(s) + Len(t) - Len(s))
        BY <1>1, <3>1, SubSeqOfConcat2
      <3>3. Len(s) + 1 - Len(s) = 1 /\ Len(s) + Len(t) - Len(s) = Len(t)
        BY <1>1
      <3> QED
        BY <1>1, <3>2, <3>3, SubSeqFull
    <2> QED
      BY <2>1, <2>2
  <1>5. s \o t # <<>> /\ (s \o t)[1] = s[1]
    BY <1>1, EmptySeq
  <1> QED
    BY <1>2, <1>3, <1>4, <1>5

\* The records of the game, alone in a pipe or with others behind them.
LEMMA Reading ==
  ASSUME NEW kind \in {"online", "game", "int"}, NEW v \in Rps!Hands, NEW t \in Seq(Bytes)
  PROVE  /\ SubSeq(Rps!Record(kind, v) \o t, 1,
                   Rps!Min({Rps!Size(kind), Len(Rps!Record(kind, v) \o t)})) = Rps!Record(kind, v)
         /\ SubSeq(Rps!Record(kind, v) \o t, Rps!Size(kind) + 1,
                   Len(Rps!Record(kind, v) \o t)) = t
         /\ Rps!Record(kind, v) \o t # <<>>
         /\ (Rps!Record(kind, v) \o t)[1].at = 1 /\ (Rps!Record(kind, v) \o t)[1].value = v
         /\ Rps!Record(kind, v) \o <<>> = Rps!Record(kind, v)
  <1> DEFINE r == Rps!Record(kind, v)
  <1>1. /\ r \in Seq(Bytes) /\ Len(r) = Rps!Size(kind) /\ r # <<>>
        /\ r[1].at = 1 /\ r[1].value = v
    BY RecordIsBytes
  <1> HIDE DEF r
  <1>2. /\ SubSeq(r \o t, 1, Rps!Min({Len(r), Len(r \o t)})) = r
        /\ SubSeq(r \o t, Len(r) + 1, Len(r \o t)) = t
        /\ r \o t # <<>> /\ (r \o t)[1] = r[1]
    BY <1>1, ReadsTheRecord
  <1>3. r \o <<>> = r
    BY <1>1, ConcatEmptySeq
  <1> QED
    BY <1>1, <1>2, <1>3 DEF r

\* A read of the size of the record that is all there is.
LEMMA ReadingAll ==
  ASSUME NEW kind \in {"online", "game", "int"}, NEW v \in Rps!Hands
  PROVE  /\ SubSeq(Rps!Record(kind, v), 1, Rps!Min({Rps!Size(kind), Len(Rps!Record(kind, v))}))
               = Rps!Record(kind, v)
         /\ SubSeq(Rps!Record(kind, v), Rps!Size(kind) + 1, Len(Rps!Record(kind, v))) = <<>>
         /\ Rps!Record(kind, v) # <<>>
         /\ Rps!Record(kind, v)[1].at = 1 /\ Rps!Record(kind, v)[1].value = v
  <1> DEFINE r == Rps!Record(kind, v)
  <1>1. /\ SubSeq(r \o <<>>, 1, Rps!Min({Rps!Size(kind), Len(r \o <<>>)})) = r
        /\ SubSeq(r \o <<>>, Rps!Size(kind) + 1, Len(r \o <<>>)) = <<>>
        /\ r \o <<>> # <<>>
        /\ (r \o <<>>)[1].at = 1 /\ (r \o <<>>)[1].value = v
        /\ r \o <<>> = r
    <2>1. <<>> \in Seq(Bytes)
      OBVIOUS
    <2> QED
      BY <2>1, Reading, Zenon
  <1> HIDE DEF r
  <1>2. /\ SubSeq(r, 1, Rps!Min({Rps!Size(kind), Len(r)})) = r
        /\ SubSeq(r, Rps!Size(kind) + 1, Len(r)) = <<>>
        /\ r # <<>> /\ r[1].at = 1 /\ r[1].value = v
    BY <1>1
  <1> QED
    BY <1>2 DEF r

\* Nobody has been forked, and nothing written.
LEMMA GameInit == Rps!Init => GameInv
  BY DEF Rps!Init, GameInv, Rps!Players, Rps!Hands, Meeting, Stand

\* A write puts a record behind what is in the pipe.
LEMMA Writing ==
  ASSUME NEW v \in Rps!Hands
  PROVE  /\ <<>> \o Greeting = Greeting /\ <<>> \o Invitation = Invitation
         /\ <<>> \o Hand(v) = Hand(v)
         /\ Greeting \in Seq(Bytes) /\ Invitation \in Seq(Bytes) /\ Hand(v) \in Seq(Bytes)
         /\ \A w \in Rps!Hands :
               (Hand(w) \o Invitation) \o Hand(v) = Hand(w) \o (Invitation \o Hand(v))
  <1>1. /\ Greeting \in Seq(Bytes) /\ Invitation \in Seq(Bytes)
        /\ \A w \in Rps!Hands : Hand(w) \in Seq(Bytes)
    BY RecordIsBytes DEF Greeting, Invitation, Hand, Rps!Hands
  <1> QED
    BY <1>1, ConcatEmptySeq, ConcatAssociative

\* The fork, and the parent's greeting.
LEMMA ParentStartsInv == ASSUME GameInv, Rps!Fork \/ Rps!ParentOnline PROVE GameInv'
  <1>1. 0 \in Rps!Hands
    BY DEF Rps!Hands
  <1>2. CASE Rps!Fork
    BY <1>2 DEF Rps!Fork, GameInv, Meeting, Round, Stand, Judged, Rps!Players
  <1>3. CASE Rps!ParentOnline
    BY <1>1, <1>3, Writing DEF Rps!ParentOnline, GameInv, Meeting, Round, Stand, Judged, Rps!Goes,
                               Rps!Write, Greeting, Rps!Players
  <1> QED
    BY <1>2, <1>3

\* The parent reads the child's greeting, which is all there is.
LEMMA ParentGreetedInv == ASSUME GameInv, Rps!ParentGreeted PROVE GameInv'
  <1>0. 0 \in Rps!Hands /\ Rps!Size("online") = 7
    BY DEF Rps!Hands, Rps!Size
  <1>1. SubSeq(Greeting, 7 + 1, Len(Greeting)) = <<>> /\ Greeting # <<>>
    <2>1. SubSeq(Greeting, Rps!Size("online") + 1, Len(Greeting)) = <<>> /\ Greeting # <<>>
      BY <1>0, ReadingAll DEF Greeting
    <2> QED
      BY <1>0, <2>1
  <1>2. Stand("greeted", "play", <<>>, Greeting) /\ verdict["parent"] = "none"
    BY DEF Rps!ParentGreeted, GameInv, Meeting, Round, Stand, Rps!Goes, Rps!Read, Rps!Other
  <1>3. Stand("play", "play", <<>>, <<>>)'
    BY <1>0, <1>1, <1>2 DEF Rps!ParentGreeted, Stand, Rps!Goes, Rps!Read, Rps!Other, GameInv,
                            Rps!Players
  <1> QED
    BY <1>2, <1>3 DEF Rps!ParentGreeted, GameInv, Round, Judged, Rps!Goes, Rps!Read

\* The parent invites, with its last hand still unread at most.
LEMMA ParentInviteInv == ASSUME GameInv, Rps!ParentInvite PROVE GameInv'
  <1>1. 0 \in Rps!Hands
    BY DEF Rps!Hands
  <1> QED
   BY <1>1, Writing DEF Rps!ParentInvite, GameInv, Meeting, Round, Stand, Judged, Rps!Goes,
                        Rps!Write, Invitation, Rps!Players

\* What a player whose pipe begins with the other's hand reads, and what is left.
LEMMA ReadsHand ==
  ASSUME NEW p \in Rps!Players, NEW v \in Rps!Hands, NEW t \in Seq(Bytes),
         bytes[Rps!Other(p)] = Hand(v) \o t
  PROVE  /\ Rps!ReadInt(p) = v
         /\ SubSeq(bytes[Rps!Other(p)], Rps!Size("int") + 1, Len(bytes[Rps!Other(p)])) = t
  <1>1. /\ SubSeq(Hand(v) \o t, 1, Rps!Min({Rps!Size("int"), Len(Hand(v) \o t)})) = Hand(v)
        /\ SubSeq(Hand(v) \o t, Rps!Size("int") + 1, Len(Hand(v) \o t)) = t
        /\ (Hand(v) \o t)[1].value = v
    BY Reading DEF Hand
  <1> QED
    BY <1>1 DEF Rps!ReadInt, Rps!Got, Hand

\* The same with nothing behind the hand.
LEMMA ReadsOnlyHand ==
  ASSUME NEW p \in Rps!Players, NEW v \in Rps!Hands, bytes[Rps!Other(p)] = Hand(v)
  PROVE  /\ Rps!ReadInt(p) = v
         /\ SubSeq(bytes[Rps!Other(p)], Rps!Size("int") + 1, Len(bytes[Rps!Other(p)])) = <<>>
  <1>1. <<>> \in Seq(Bytes) /\ Hand(v) \o <<>> = Hand(v)
    BY Reading, EmptySeq DEF Hand
  <1> QED
    BY <1>1, ReadsHand

\* The child reads the parent's greeting, which is all there is.
LEMMA ChildOnlineInv == ASSUME GameInv, Rps!ChildOnline PROVE GameInv'
  <1>1. /\ SubSeq(Greeting, 1, Rps!Min({Rps!Size("online"), Len(Greeting)})) = Greeting
        /\ SubSeq(Greeting, Rps!Size("online") + 1, Len(Greeting)) = <<>>
        /\ Greeting # <<>>
    BY ReadingAll DEF Greeting, Rps!Hands
  <1>2. Stand("greeted", "online", Greeting, <<>>) /\ verdict["parent"] = "none"
    BY DEF Rps!ChildOnline, GameInv, Meeting, Round, Stand, Rps!Goes, Rps!Read, Rps!Other
  <1>3. Stand("greeted", "greet", <<>>, <<>>)'
    BY <1>1, <1>2 DEF Rps!ChildOnline, Stand, Rps!Goes, Rps!Read, Rps!Got, Rps!Other, GameInv,
                      Rps!Players, Greeting
  <1> QED
    BY <1>2, <1>3 DEF Rps!ChildOnline, GameInv, Meeting, Rps!Goes, Rps!Read

\* The child answers it.
LEMMA ChildGreetInv == ASSUME GameInv, Rps!ChildGreet PROVE GameInv'
  <1>1. 0 \in Rps!Hands
    BY DEF Rps!Hands
  <1> QED
   BY <1>1, Writing DEF Rps!ChildGreet, GameInv, Meeting, Round, Stand, Judged, Rps!Goes,
                        Rps!Write, Greeting, Rps!Players

\* The child reads an invitation, and leaves the hand behind it.
LEMMA ChildInvitedInv == ASSUME GameInv, Rps!ChildInvited PROVE GameInv'
  <1> DEFINE mine == Hand(selection["parent"])
  <1>1. 0 \in Rps!Hands /\ selection["parent"] \in Rps!Hands
    BY DEF Rps!Hands, GameInv, Rps!Players
  <1>2. mine \in Seq(Bytes)
    BY <1>1, Writing
  <1>3. /\ SubSeq(Invitation, 1, Rps!Min({Rps!Size("game"), Len(Invitation)})) = Invitation
        /\ SubSeq(Invitation, Rps!Size("game") + 1, Len(Invitation)) = <<>>
    BY <1>1, ReadingAll DEF Invitation
  <1>4. /\ SubSeq(Invitation \o mine, 1, Rps!Min({Rps!Size("game"), Len(Invitation \o mine)}))
             = Invitation
        /\ SubSeq(Invitation \o mine, Rps!Size("game") + 1, Len(Invitation \o mine)) = mine
    BY <1>1, <1>2, Reading DEF Invitation
  <1> HIDE DEF mine
  <1>5. \/ Stand("choose", "play", Invitation, <<>>)
        \/ Stand("answer", "play", Invitation \o mine, <<>>)
    BY DEF Rps!ChildInvited, GameInv, Meeting, Round, Stand, Rps!Goes, Rps!Read, Rps!Other, mine
  <1>6. UNCHANGED <<selection, selection_2, verdict>> /\ mine' = mine
    BY DEF Rps!ChildInvited, mine
  <1>7. \/ Stand("choose", "choose", <<>>, <<>>)'
        \/ Stand("answer", "choose", mine, <<>>)'
    <2>1. /\ bytes["parent"] # <<>>
          /\ bytes' = [bytes EXCEPT !["parent"] = SubSeq(@, Rps!Size("game") + 1, Len(@))]
          /\ at' = [at EXCEPT !["child"] =
                IF SubSeq(bytes["parent"], 1, Rps!Min({Rps!Size("game"), Len(bytes["parent"])}))
                      = Invitation
                THEN "choose" ELSE "play"]
      BY DEF Rps!ChildInvited, Rps!Goes, Rps!Read, Rps!Got, Rps!Other, Invitation
    <2>2. DOMAIN at = {"parent", "child"} /\ DOMAIN bytes = {"parent", "child"}
      BY DEF GameInv, Rps!Players
    <2>3. /\ at'["parent"] = at["parent"] /\ bytes'["child"] = bytes["child"]
          /\ bytes'["parent"] =
                SubSeq(bytes["parent"], Rps!Size("game") + 1, Len(bytes["parent"]))
          /\ at'["child"] =
                IF SubSeq(bytes["parent"], 1, Rps!Min({Rps!Size("game"), Len(bytes["parent"])}))
                      = Invitation
                THEN "choose" ELSE "play"
      BY <2>1, <2>2
    <2>4. CASE Stand("choose", "play", Invitation, <<>>)
      BY <1>3, <2>3, <2>4 DEF Stand
    <2>5. CASE Stand("answer", "play", Invitation \o mine, <<>>)
      BY <1>4, <1>6, <2>3, <2>5 DEF Stand
    <2> QED
      BY <1>5, <2>4, <2>5
  <1>8. DOMAIN at' = Rps!Players /\ DOMAIN bytes' = Rps!Players
    BY DEF Rps!ChildInvited, GameInv, Rps!Goes, Rps!Read
  <1> QED
    BY <1>6, <1>7, <1>8 DEF GameInv, Round, mine

\* A player chooses; what it writes is behind what the other has not read yet.
LEMMA ChooseInv == ASSUME GameInv, NEW p \in Rps!Players, Rps!Choose(p) PROVE GameInv'
  <1>1. PICK s \in Rps!Hands : selection' = [selection EXCEPT ![p] = s] /\ Rps!Write(p, "int", s)
    BY DEF Rps!Choose
  <1>2. CASE p = "parent"
    <2>1. /\ bytes' = [bytes EXCEPT !["parent"] = @ \o Hand(s)]
          /\ at["parent"] = "choose" /\ at' = [at EXCEPT !["parent"] = "answer"]
          /\ UNCHANGED <<selection_2, verdict>>
          /\ selection' = [selection EXCEPT !["parent"] = s]
      BY <1>1, <1>2 DEF Rps!Choose, Rps!Goes, Rps!Write, Hand
    <2>2. GameInv /\ Round
      BY <2>1 DEF GameInv, Meeting, Stand
    <2>3. \A f \in {at', bytes', selection_2', verdict'} : DOMAIN f = Rps!Players
      BY <2>1 DEF GameInv
    <2>4. /\ selection' \in [Rps!Players -> Rps!Hands]
          /\ Hand(selection'["parent"]) = Hand(s)
          /\ Hand(selection'["child"]) = Hand(selection["child"])
      BY <2>1 DEF GameInv, Rps!Players
    <2>5. /\ DOMAIN at = {"parent", "child"} /\ DOMAIN bytes = {"parent", "child"}
          /\ at'["parent"] = "answer" /\ at'["child"] = at["child"]
          /\ bytes'["parent"] = bytes["parent"] \o Hand(s) /\ bytes'["child"] = bytes["child"]
      BY <2>1 DEF GameInv, Rps!Players
    <2>6. \/ Stand("choose", "play", Invitation, <<>>)
          \/ Stand("choose", "choose", <<>>, <<>>)
          \/ Stand("choose", "answer", <<>>, Hand(selection["child"]))
          \/ \E v \in Rps!Hands : Stand("choose", "answer", Hand(v) \o Invitation, <<>>)
      BY <2>1, <2>2 DEF Round, Stand
    <2>7. ASSUME \E v \in Rps!Hands : Stand("choose", "answer", Hand(v) \o Invitation, <<>>)
          PROVE  Round'
      <3>1. PICK v \in Rps!Hands : Stand("choose", "answer", Hand(v) \o Invitation, <<>>)
        BY <2>7
      <3>2. Stand("answer", "answer", Hand(v) \o (Invitation \o Hand(s)), <<>>)'
        BY <2>5, <3>1, Writing DEF Stand
      <3> QED
        BY <2>4, <3>2 DEF Round
    <2>8. Round'
      BY <2>4, <2>5, <2>6, <2>7, Writing DEF Round, Stand
    <2> QED
      BY <2>3, <2>4, <2>8 DEF GameInv
  <1>3. CASE p = "child"
    <2>1. /\ bytes' = [bytes EXCEPT !["child"] = @ \o Hand(s)]
          /\ at["child"] = "choose" /\ at' = [at EXCEPT !["child"] = "answer"]
          /\ UNCHANGED <<selection_2, verdict>>
          /\ selection' = [selection EXCEPT !["child"] = s]
      BY <1>1, <1>3 DEF Rps!Choose, Rps!Goes, Rps!Write, Hand
    <2>2. GameInv /\ Round
      BY <2>1 DEF GameInv, Meeting, Stand
    <2>3. \A f \in {at', bytes', selection_2', verdict'} : DOMAIN f = Rps!Players
      BY <2>1 DEF GameInv
    <2>4. /\ selection' \in [Rps!Players -> Rps!Hands]
          /\ Hand(selection'["child"]) = Hand(s)
          /\ Hand(selection'["parent"]) = Hand(selection["parent"])
      BY <2>1 DEF GameInv, Rps!Players
    <2>5. /\ DOMAIN at = {"parent", "child"} /\ DOMAIN bytes = {"parent", "child"}
          /\ at'["child"] = "answer" /\ at'["parent"] = at["parent"]
          /\ bytes'["child"] = bytes["child"] \o Hand(s) /\ bytes'["parent"] = bytes["parent"]
      BY <2>1 DEF GameInv, Rps!Players
    <2>6. \/ Stand("choose", "choose", <<>>, <<>>)
          \/ Stand("answer", "choose", Hand(selection["parent"]), <<>>)
      BY <2>1, <2>2 DEF Round, Stand
    <2>8. Round'
      BY <2>4, <2>5, <2>6, Writing DEF Round, Stand
    <2> QED
      BY <2>3, <2>4, <2>8 DEF GameInv
  <1> QED
    BY <1>2, <1>3 DEF Rps!Players

\* The parent finds the child's hand of this round.
LEMMA ParentAnswerInv == ASSUME GameInv, Rps!Answer("parent") PROVE GameInv'
  <1> DEFINE mine == Hand(selection["parent"])
             theirs == Hand(selection["child"])
  <1>1. selection["child"] \in Rps!Hands /\ "parent" \in Rps!Players /\ <<>> \in Seq(Bytes)
    BY DEF GameInv, Rps!Players
  <1>2. bytes["child"] # <<>> /\ at["parent"] = "answer" /\ Round
    BY DEF Rps!Answer, Rps!Goes, Rps!Read, Rps!Other, GameInv, Meeting, Stand
  <1>3. \/ Stand("answer", "answer", mine, theirs)
        \/ Stand("answer", "play", <<>>, theirs) /\ Judged("child")
    BY <1>2 DEF Round, Stand
  <1>4. Rps!ReadInt("parent") = selection["child"]
        /\ SubSeq(bytes["child"], Rps!Size("int") + 1, Len(bytes["child"])) = <<>>
    <2>1. bytes[Rps!Other("parent")] = theirs /\ Rps!Other("parent") = "child"
      BY <1>3 DEF Stand, Rps!Other
    <2> HIDE DEF theirs
    <2> QED
      BY <1>1, <2>1, ReadsOnlyHand DEF theirs
  <1>5. /\ at' = [at EXCEPT !["parent"] = "play"] /\ selection' = selection
        /\ bytes' = [bytes EXCEPT !["child"] = <<>>]
        /\ selection_2' = [selection_2 EXCEPT !["parent"] = selection["child"]]
        /\ verdict' = [verdict EXCEPT !["parent"] =
                                      Rps!Verdict(selection["parent"], selection["child"])]
    BY <1>4 DEF Rps!Answer, Rps!Goes, Rps!Read, Rps!Other
  <1>6. \A f \in {at', bytes', selection_2', verdict'} : DOMAIN f = Rps!Players
    BY <1>5 DEF GameInv
  <1>7. /\ at'["parent"] = "play" /\ at'["child"] = at["child"]
        /\ bytes'["child"] = <<>> /\ bytes'["parent"] = bytes["parent"]
        /\ selection_2'["parent"] = selection["child"]
        /\ selection_2'["child"] = selection_2["child"]
        /\ verdict'["parent"] = Rps!Verdict(selection["parent"], selection["child"])
        /\ verdict'["child"] = verdict["child"]
    BY <1>5 DEF GameInv, Rps!Players
  <1>8. Round'
    <2>1. Judged("parent")' /\ (Judged("child") => Judged("child")')
      BY <1>5, <1>7 DEF Judged, Rps!Other
    <2> QED
      BY <1>3, <1>5, <1>7, <2>1 DEF Round, Stand
  <1> QED
    BY <1>5, <1>6, <1>8 DEF GameInv

\* The child finds the parent's hand of its own round, with the next one behind it at most.
LEMMA ChildAnswerInv == ASSUME GameInv, Rps!Answer("child") PROVE GameInv'
  <1> DEFINE mine == Hand(selection["parent"])
             theirs == Hand(selection["child"])
             got == Rps!ReadInt("child")
             rest == SubSeq(bytes["parent"], Rps!Size("int") + 1, Len(bytes["parent"]))
  <1>1. /\ selection["parent"] \in Rps!Hands /\ "child" \in Rps!Players
        /\ <<>> \in Seq(Bytes) /\ Invitation \in Seq(Bytes) /\ Invitation \o mine \in Seq(Bytes)
    BY Writing, ConcatProperties DEF GameInv, Rps!Players
  <1>2. bytes["parent"] # <<>> /\ at["child"] = "answer" /\ Round
    BY DEF Rps!Answer, Rps!Goes, Rps!Read, Rps!Other, GameInv, Meeting, Stand
  <1>3. \/ Stand("answer", "answer", mine, theirs)
        \/ Stand("play", "answer", mine, <<>>) /\ Judged("parent")
        \/ \E v \in Rps!Hands :
              \/ Stand("choose", "answer", Hand(v) \o Invitation, <<>>)
              \/ Stand("answer", "answer", Hand(v) \o (Invitation \o mine), <<>>)
    BY <1>2 DEF Round, Stand
  <1>4. /\ at' = [at EXCEPT !["child"] = "play"] /\ selection' = selection
        /\ bytes' = [bytes EXCEPT !["parent"] = rest]
        /\ selection_2' = [selection_2 EXCEPT !["child"] = got]
        /\ verdict' = [verdict EXCEPT !["child"] = Rps!Verdict(selection["child"], got)]
    BY DEF Rps!Answer, Rps!Goes, Rps!Read, Rps!Other
  <1> HIDE DEF got, rest
  <1>5. \A f \in {at', bytes', selection_2', verdict'} : DOMAIN f = Rps!Players
    BY <1>4 DEF GameInv
  <1>6. /\ at'["child"] = "play" /\ at'["parent"] = at["parent"]
        /\ bytes'["parent"] = rest /\ bytes'["child"] = bytes["child"]
        /\ selection_2'["child"] = got /\ selection_2'["parent"] = selection_2["parent"]
        /\ verdict'["child"] = Rps!Verdict(selection["child"], got)
        /\ verdict'["parent"] = verdict["parent"]
    BY <1>4 DEF GameInv, Rps!Players
  <1>7. /\ \A v \in Rps!Hands : \A t \in Seq(Bytes) :
              bytes["parent"] = Hand(v) \o t => got = v /\ rest = t
        /\ \A v \in Rps!Hands : bytes["parent"] = Hand(v) => got = v /\ rest = <<>>
    <2>1. ASSUME NEW v \in Rps!Hands, NEW t \in Seq(Bytes), bytes["parent"] = Hand(v) \o t
          PROVE  got = v /\ rest = t
      <3>1. "child" \in Rps!Players /\ Rps!Other("child") = "parent"
        BY DEF Rps!Other, Rps!Players
      <3>2. bytes[Rps!Other("child")] = Hand(v) \o t
        BY <2>1, <3>1
      <3>3. Rps!ReadInt("child") = v
            /\ SubSeq(bytes[Rps!Other("child")], Rps!Size("int") + 1,
                      Len(bytes[Rps!Other("child")])) = t
        BY <3>1, <3>2, ReadsHand
      <3> QED
        BY <3>1, <3>3 DEF got, rest
    <2>2. ASSUME NEW v \in Rps!Hands, bytes["parent"] = Hand(v)
          PROVE  got = v /\ rest = <<>>
      BY <1>1, <2>2, ReadsOnlyHand DEF Rps!Other, got, rest
    <2> QED
      BY <2>1, <2>2
  <1>8. Round'
    <2>1. CASE \/ Stand("answer", "answer", mine, theirs)
               \/ Stand("play", "answer", mine, <<>>) /\ Judged("parent")
      <3>1. got = selection["parent"] /\ rest = <<>>
        <4>1. bytes["parent"] = mine
          BY <2>1 DEF Stand
        <4> QED
          BY <1>1, <1>7, <4>1
      <3>2. Judged("child")' /\ (Judged("parent") => Judged("parent")')
        BY <1>4, <1>6, <3>1 DEF Judged, Rps!Other
      <3> QED
        BY <1>4, <1>6, <2>1, <3>1, <3>2 DEF Round, Stand
    <2>2. ASSUME NEW v \in Rps!Hands, Stand("choose", "answer", Hand(v) \o Invitation, <<>>)
          PROVE  Round'
      <3>1. rest = Invitation
        <4>1. bytes["parent"] = Hand(v) \o Invitation
          BY <2>2 DEF Stand
        <4> QED
          BY <1>1, <1>7, <4>1
      <3>2. Stand("choose", "play", Invitation, <<>>)'
        BY <1>6, <2>2, <3>1 DEF Stand
      <3> QED
        BY <3>2 DEF Round
    <2>3. ASSUME NEW v \in Rps!Hands,
                 Stand("answer", "answer", Hand(v) \o (Invitation \o mine), <<>>)
          PROVE  Round'
      <3>1. rest = Invitation \o mine
        <4>1. bytes["parent"] = Hand(v) \o (Invitation \o mine)
          BY <2>3 DEF Stand
        <4> QED
          BY <1>1, <1>7, <4>1
      <3>2. Stand("answer", "play", Invitation \o mine, <<>>)'
        BY <1>4, <1>6, <2>3, <3>1 DEF Stand
      <3> QED
        BY <3>2 DEF Round
    <2> QED
      BY <1>3, <2>1, <2>2, <2>3 DEF Stand
  <1> QED
    BY <1>4, <1>5, <1>8 DEF GameInv

\* Nine pairs of hands.
LEMMA Judgement ==
  ASSUME NEW m \in Rps!Hands, NEW t \in Rps!Hands
  PROVE  /\ Rps!Verdict(m, t) = "won" <=> <<m, t>> \in Rps!Beats
         /\ Rps!Verdict(m, t) = "draw" <=> m = t
  <1>1. m \in {0, 1, 2} /\ t \in {0, 1, 2}
    BY DEF Rps!Hands
  <1>2. <<m, t>> \in Rps!Beats <=> (m = 0 /\ t = 2) \/ (m = 1 /\ t = 0) \/ (m = 2 /\ t = 1)
    BY DEF Rps!Beats
  <1>3. {m, t} = {0, 2} <=> (m = 0 /\ t = 2) \/ (m = 2 /\ t = 0)
    BY <1>1
  <1> QED
    BY <1>1, <1>2, <1>3 DEF Rps!Verdict

\* Every step of the two players.
LEMMA GameStep == GameInv /\ [Rps!Next]_game => GameInv'
  <1>1. UNCHANGED game /\ GameInv => GameInv'
    BY DEF game, GameInv, Meeting, Round, Stand, Judged
  <1> QED
    BY <1>1, ParentStartsInv, ParentGreetedInv, ParentInviteInv, ChildOnlineInv, ChildGreetInv,
       ChildInvitedInv, ChooseInv,
       ParentAnswerInv, ChildAnswerInv DEF Rps!Next, Rps!Parent, Rps!Child, Rps!Players

\* What the pipes hold makes every verdict the game's.
LEMMA GameIsFair == GameInv => FairGame
  <1> SUFFICES ASSUME GameInv PROVE FairGame
    OBVIOUS
  <1>1. \A p \in Rps!Players : bytes[p] = <<>> \/ bytes[p][1].at = 1
    <2>1. 0 \in Rps!Hands /\ \A p \in Rps!Players : selection[p] \in Rps!Hands
      BY DEF GameInv, Rps!Hands
    <2>2. /\ Greeting[1].at = 1 /\ Invitation[1].at = 1
          /\ \A v \in Rps!Hands : Hand(v)[1].at = 1
      BY <2>1, RecordIsBytes DEF Greeting, Invitation, Hand
    <2>3. \A v \in Rps!Hands : Hand(v) \in Seq(Bytes) /\ Invitation \in Seq(Bytes)
                               /\ Invitation \o Hand(v) \in Seq(Bytes)
      BY Writing, ConcatProperties
    <2>4. \A v \in Rps!Hands : \A t \in Seq(Bytes) :
            (Hand(v) \o t)[1].at = 1 /\ (Invitation \o t)[1].at = 1
      BY <2>1, Reading DEF Invitation, Hand
    <2>5. ASSUME NEW p \in Rps!Players
          PROVE  \/ bytes[p] \in {<<>>, Greeting, Invitation}
                 \/ \E v \in Rps!Hands : bytes[p] \in {Hand(v), Invitation \o Hand(v)}
                 \/ \E v \in Rps!Hands : \E t \in Seq(Bytes) : bytes[p] = Hand(v) \o t
      BY <2>1, <2>3 DEF GameInv, Meeting, Round, Stand, Rps!Players
    <2> QED
      BY <2>2, <2>3, <2>4, <2>5
  <1>2. ASSUME at["parent"] = "play", at["child"] = "play", verdict["parent"] # "none",
               NEW p \in Rps!Players
        PROVE  LET pair == <<selection[p], selection[Rps!Other(p)]>>
               IN  /\ verdict[p] = "won" <=> pair \in Rps!Beats
                   /\ verdict[p] = "draw" <=> pair[1] = pair[2]
                   /\ selection_2[p] = pair[2]
    <2>1. Judged("parent") /\ Judged("child")
      BY <1>2 DEF GameInv, Meeting, Round, Stand
    <2>2. selection[p] \in Rps!Hands /\ selection[Rps!Other(p)] \in Rps!Hands
      BY DEF GameInv, Rps!Players, Rps!Other
    <2>3. /\ selection_2[p] = selection[Rps!Other(p)]
          /\ verdict[p] = Rps!Verdict(selection[p], selection_2[p])
      BY <2>1 DEF Judged, Rps!Players
    <2> QED
      BY <2>2, <2>3, Judgement
  <1> QED
    BY <1>1, <1>2 DEF FairGame, Rps!FairGame

\* However the two players' reads and writes interleave, no read takes part of a record or parts
\* of two, in any round, and when both have played their verdicts are the game's and agree.
THEOREM Fair == ProcSpec => []FairGame
  <1>1. ProcInit => GameInv
    BY GameInit DEF ProcInit
  <1>2. GameInv /\ [ProcNext]_allvars => GameInv'
    BY GameStep DEF ProcNext, Toll, Game, Trade, Kill, allvars, game
  <1> QED
    BY <1>1, <1>2, GameIsFair, PTL DEF ProcSpec

----------------------------------------------------------------------------
(***************************************************************************)
(* kill_me.  What the step is follows from the signals answered last, as   *)
(* long as no handler was interrupted; of the sequence pressed twice the   *)
(* first signals may complete one begun before, and then the rest counts   *)
(* from the start.                                                         *)
(***************************************************************************)
\* What a handler can be.
FrameSet == [sig : KillMe!Signals, pc : {"switch", "compare", "write", "assign"},
             case : 1..3, fits : BOOLEAN]

\* How many of the signals in `recent` have been answered, and the k-th last of these.
Answered == Len(recent) - Len(frames)
Ago(k) == recent[Answered - k]

\* What the last answered signals say of the step, and the step of them.
Steps ==
    /\ Answered >= 1 /\ Ago(0) = "INT" => step \in {1, 2}
    /\ Answered >= 2 /\ Ago(1) = "INT" /\ Ago(0) = "TSTP" => step \in {1, 3}
    /\ Answered >= 3 /\ Ago(2) = "INT" /\ Ago(1) = "TSTP" /\ Ago(0) = "QUIT" =>
          /\ step = 1
    /\ Answered >= 4 /\ Ago(3) = "INT" /\ Ago(2) = "TSTP" /\ Ago(1) = "QUIT" /\ Ago(0) = "INT" =>
          step = 2
    /\ Answered >= 5 /\ Ago(4) = "INT" /\ Ago(3) = "TSTP" /\ Ago(2) = "QUIT" /\ Ago(1) = "INT"
                     /\ Ago(0) = "TSTP" => step = 3
    /\ ~(Answered = 6 /\ Ago(5) = "INT" /\ Ago(4) = "TSTP" /\ Ago(3) = "QUIT" /\ Ago(2) = "INT"
                     /\ Ago(1) = "TSTP" /\ Ago(0) = "QUIT")
    /\ step = 2 => Answered >= 1 /\ Ago(0) = "INT"
    /\ step = 3 => Answered >= 2 /\ Ago(1) = "INT" /\ Ago(0) = "TSTP"

\* The one handler under way answers the last signal, and reads the step it was called for.
OneFrame ==
    /\ Len(frames) <= 1
    /\ Len(frames) = 1 =>
          /\ Len(recent) >= 1 /\ recent[Len(recent)] = frames[1].sig
          /\ frames[1].pc # "switch" => frames[1].case = step
          /\ frames[1].pc \in {"write", "assign"} =>
                (frames[1].fits <=> frames[1].sig = KillMe!SIGNALS[step])

\* No two handlers of the same signal are under way.
Frames ==
    /\ frames \in Seq(FrameSet) /\ Len(frames) <= 3
    /\ \A j, k \in 1..Len(frames) : j # k => frames[j].sig # frames[k].sig

\* The inductive invariant of kill_me.
KillInv ==
    /\ step \in 1..3 /\ said \in 0..3
    /\ exited \in BOOLEAN /\ nested \in BOOLEAN
    /\ pending \subseteq KillMe!Signals
    /\ recent \in Seq(KillMe!Signals) /\ Len(recent) <= 6
    /\ Frames
    /\ ~nested /\ ~exited => OneFrame /\ Steps
    /\ ~nested /\ exited =>
          /\ Len(recent) >= 3 /\ recent[Len(recent)] = "QUIT"
          /\ recent[Len(recent) - 1] = "TSTP" /\ recent[Len(recent) - 2] = "INT"

\* No signal has come.
LEMMA KillInit == KillMe!Init => KillInv
  <1> SUFFICES ASSUME KillMe!Init PROVE KillInv
    OBVIOUS
  <1>1. /\ frames = <<>> /\ Len(frames) = 0 /\ frames \in Seq(FrameSet)
        /\ recent = <<>> /\ Len(recent) = 0 /\ recent \in Seq(KillMe!Signals)
        /\ step = 1 /\ said = 0 /\ pending = {} /\ exited = FALSE /\ nested = FALSE
    BY DEF KillMe!Init, KillMe!First
  <1>2. Frames /\ OneFrame
    BY <1>1 DEF Frames, OneFrame
  <1>3. Steps
    BY <1>1 DEF Steps, Answered
  <1>4. step \in 1..3 /\ said \in 0..3
    BY DEF KillMe!Init, KillMe!First
  <1>7. exited \in BOOLEAN /\ nested \in BOOLEAN
    BY DEF KillMe!Init
  <1>5. Len(recent) <= 6
    BY <1>1
  <1>6. pending \subseteq KillMe!Signals
    BY <1>1
  <1> QED
    BY <1>1, <1>2, <1>3, <1>4, <1>5, <1>6, <1>7, Zenon DEF KillInv

\* The new signal is the last one remembered; of the others the oldest may be forgotten.
LEMMA Remembered ==
  ASSUME recent \in Seq(KillMe!Signals), Len(recent) <= 6, NEW s \in KillMe!Signals
  PROVE  /\ KillMe!Remember(s) \in Seq(KillMe!Signals)
         /\ Len(KillMe!Remember(s)) = IF Len(recent) = 6 THEN 6 ELSE Len(recent) + 1
         /\ KillMe!Remember(s)[Len(KillMe!Remember(s))] = s
         /\ \A k \in 0..Len(KillMe!Remember(s)) - 2 :
               KillMe!Remember(s)[Len(KillMe!Remember(s)) - 1 - k] = recent[Len(recent) - k]
  <1> DEFINE all == Append(recent, s)
  <1>0. PICK n \in Nat : n = Len(recent)
    BY LenProperties
  <1>1. /\ all \in Seq(KillMe!Signals) /\ Len(all) = Len(recent) + 1 /\ all # <<>>
        /\ Len(recent) \in Nat
        /\ \A j \in 1..Len(recent) : all[j] = recent[j]
        /\ all[Len(recent) + 1] = s
    BY AppendProperties, LenProperties
  <1>2. /\ Tail(all) \in Seq(KillMe!Signals) /\ Len(Tail(all)) = Len(recent)
        /\ \A j \in 1..Len(recent) : Tail(all)[j] = all[j + 1]
    BY <1>1, HeadTailProperties
  <1> HIDE DEF all
  <1>3. KillMe!Remember(s) = IF Len(all) > 6 THEN Tail(all) ELSE all
    BY DEF KillMe!Remember, all
  <1> DEFINE r == KillMe!Remember(s)
  <1> HIDE DEF r
  <1>4. CASE n = 6
    <2>1. r = Tail(all)
      BY <1>0, <1>1, <1>3, <1>4 DEF r
    <2>2. r \in Seq(KillMe!Signals) /\ Len(r) = 6 /\ \A j \in 1..6 : r[j] = all[j + 1]
      BY <1>0, <1>2, <1>4, <2>1
    <2>3. r[6] = s /\ \A k \in 0..4 : r[5 - k] = recent[6 - k]
      BY <1>0, <1>1, <1>4, <2>2
    <2> QED
      BY <1>0, <1>4, <2>2, <2>3 DEF r
  <1>5. CASE n < 6
    <2>1. r = all
      BY <1>0, <1>1, <1>3, <1>5 DEF r
    <2>2. \A k \in 0..Len(r) - 2 : r[Len(r) - 1 - k] = recent[Len(recent) - k]
      BY <1>1, <2>1
    <2> QED
      BY <1>0, <1>1, <1>5, <2>1, <2>2 DEF r
  <1> QED
    <2>1. n <= 6
      BY <1>0
    <2>2. n = 6 \/ n < 6
      BY <1>0, <2>1
    <2> QED
      BY <2>2, <1>4, <1>5

\* A handler starts only on top of handlers of other signals: there are three at most.
LEMMA DeliverFrames ==
  ASSUME Frames, NEW s \in KillMe!Signals, s \notin KillMe!Blocked, KillMe!Deliver(s)
  PROVE  Frames' /\ Len(frames') = Len(frames) + 1 /\ frames'[Len(frames')] = KillMe!Frame(s)
  <1>1. KillMe!Frame(s) \in FrameSet /\ KillMe!Frame(s).sig = s
    BY DEF KillMe!Frame, FrameSet, KillMe!First
  <1>2. /\ frames' \in Seq(FrameSet) /\ Len(frames') = Len(frames) + 1
        /\ Len(frames) \in Nat
        /\ \A j \in 1..Len(frames) : frames'[j] = frames[j]
        /\ frames'[Len(frames) + 1] = KillMe!Frame(s)
    BY <1>1, AppendProperties, LenProperties DEF KillMe!Deliver, Frames
  <1>3. \A j \in 1..Len(frames) : frames[j].sig # s /\ frames[j].sig \in KillMe!Signals
    <2>1. DOMAIN frames = 1..Len(frames) /\ \A j \in 1..Len(frames) : frames[j] \in FrameSet
      BY DEF Frames
    <2> QED
      BY <2>1 DEF KillMe!Blocked, FrameSet
  <1>4. Len(frames) < 3
    <2>0. PICK n \in Nat : n = Len(frames)
      BY <1>2
    <2>1. SUFFICES ASSUME n = 3 PROVE FALSE
      BY <2>0 DEF Frames
    <2>2. /\ frames[1].sig # s /\ frames[2].sig # s /\ frames[3].sig # s
          /\ frames[1].sig # frames[2].sig /\ frames[1].sig # frames[3].sig
          /\ frames[2].sig # frames[3].sig
          /\ frames[1].sig \in KillMe!Signals /\ frames[2].sig \in KillMe!Signals
          /\ frames[3].sig \in KillMe!Signals
      BY <1>3, <2>0, <2>1 DEF Frames
    <2> QED
      BY <2>2 DEF KillMe!Signals
  <1>5. \A j, k \in 1..Len(frames') : j # k => frames'[j].sig # frames'[k].sig
    BY <1>1, <1>2, <1>3 DEF Frames
  <1> QED
    BY <1>2, <1>4, <1>5 DEF Frames

\* A signal delivered to the idle program is remembered; one that interrupts ends the memory.
LEMMA DeliverInv ==
  ASSUME KillInv, NEW s \in KillMe!Signals, s \notin KillMe!Blocked, KillMe!Deliver(s),
         pending' \subseteq KillMe!Signals, ~exited, UNCHANGED <<step, said, exited>>
  PROVE  KillInv'
  <1>1. Frames' /\ Len(frames') = Len(frames) + 1 /\ frames'[Len(frames')] = KillMe!Frame(s)
    BY DeliverFrames DEF KillInv
  <1>2. frames # <<>> <=> Len(frames) # 0
    BY EmptySeq DEF KillInv, Frames
  <1>3. Len(frames) \in Nat /\ Len(recent) \in Nat
    BY LenProperties DEF KillInv, Frames
  <1>4. CASE nested \/ Len(frames) # 0
    <2>1. nested' = (nested \/ frames # <<>>) /\ recent' = <<>>
      BY <1>2, <1>4 DEF KillMe!Deliver
    <2>2. nested'
      BY <1>2, <1>4, <2>1
    <2>3. nested' \in BOOLEAN
      BY <2>2
    <2> QED
      BY <1>1, <2>1, <2>2 DEF KillInv
  <1>5. CASE ~nested /\ Len(frames) = 0
    <2>1. recent' = KillMe!Remember(s) /\ nested' = nested
      <3>1. frames = <<>>
        BY <1>2, <1>5
      <3>2. nested' = FALSE /\ nested = FALSE
        BY <1>5, <3>1 DEF KillMe!Deliver, KillInv
      <3> QED
        BY <1>5, <3>1, <3>2 DEF KillMe!Deliver
    <2>2. /\ recent' \in Seq(KillMe!Signals)
          /\ Len(recent') = IF Len(recent) = 6 THEN 6 ELSE Len(recent) + 1
          /\ recent'[Len(recent')] = s
          /\ \A k \in 0..Len(recent') - 2 :
                recent'[Len(recent') - 1 - k] = recent[Len(recent) - k]
      BY <2>1, Remembered DEF KillInv
    <2>3. Answered = Len(recent) /\ Answered' = Len(recent') - 1 /\ Len(recent) <= 6
      BY <1>1, <1>3, <1>5, <2>2 DEF Answered, KillInv
    <2>4. OneFrame'
      BY <1>1, <1>5, <2>2 DEF OneFrame, KillMe!Frame
    <2>20. Len(recent') = (IF Len(recent) = 6 THEN 6 ELSE Len(recent) + 1)
      BY <2>2
    <2>21. Len(recent) \in Nat /\ Len(recent) <= 6
      BY <1>3, <2>3
    <2>6. Answered \in Nat /\ Answered <= 6 /\ Answered' = IF Answered = 6 THEN 5 ELSE Answered
      BY <2>20, <2>21, <2>3
    <2>5. ASSUME NEW k \in 0..4, k < Answered' PROVE Ago(k)' = Ago(k)
      <3>1. /\ k \in 0..Len(recent') - 2
            /\ Answered' - k = Len(recent') - 1 - k /\ Answered - k = Len(recent) - k
        BY <2>20, <2>21, <2>3, <2>5
      <3>2. recent'[Len(recent') - 1 - k] = recent[Len(recent) - k]
        BY <2>2, <3>1
      <3> QED
        BY <3>1, <3>2 DEF Ago
    <2>7. /\ Answered' >= 1 => Ago(0)' = Ago(0)
          /\ Answered' >= 2 => Ago(1)' = Ago(1)
          /\ Answered' >= 3 => Ago(2)' = Ago(2)
          /\ Answered' >= 4 => Ago(3)' = Ago(3)
          /\ Answered' >= 5 => Ago(4)' = Ago(4)
      BY <2>5, <2>6
    <2>8. Steps
      BY <1>5 DEF KillInv
    <2> HIDE DEF Answered
    <2>9. Steps'
      BY <2>6, <2>7, <2>8 DEF Steps
    <2> QED
      <3>1. /\ recent' \in Seq(KillMe!Signals) /\ Len(recent') <= 6
        <4>1. PICK n \in Nat : n = Len(recent)
          BY <1>3
        <4>2. n <= 6 /\ Len(recent') = IF n = 6 THEN 6 ELSE n + 1
          BY <4>1, <2>20, <2>21
        <4>3. Len(recent') <= 6
          BY <4>2
        <4> QED
          BY <2>2, <4>3
      <3> QED
        BY <1>1, <2>1, <2>4, <2>9, <3>1, Zenon DEF KillInv
  <1> QED
    BY <1>4, <1>5 DEF KillInv

\* The running handler changes what it knows, and returns.
LEMMA TopFrame ==
  ASSUME Frames, frames # <<>>
  PROVE  /\ Len(frames) \in Nat /\ Len(frames) >= 1 /\ KillMe!Top \in FrameSet
         /\ \A f \in FrameSet : f.sig = KillMe!Top.sig /\ frames' = KillMe!SetTop(f) =>
               Frames' /\ Len(frames') = Len(frames) /\ frames'[Len(frames)] = f
         /\ frames' = KillMe!Pop => Frames' /\ Len(frames') = Len(frames) - 1
  <1>1. Len(frames) \in Nat /\ Len(frames) >= 1
    BY EmptySeq DEF Frames
  <1>2. Len(frames) \in 1..Len(frames)
    <2>1. PICK n \in Nat : n = Len(frames)
      BY <1>1
    <2> QED
      BY <1>1, <2>1
  <1>3. KillMe!Top \in FrameSet
    BY <1>2, ElementOfSeq DEF KillMe!Top, Frames
  <1>4. ASSUME NEW f \in FrameSet, f.sig = KillMe!Top.sig, frames' = KillMe!SetTop(f)
        PROVE  Frames' /\ Len(frames') = Len(frames) /\ frames'[Len(frames)] = f
    <2>1. /\ frames' \in Seq(FrameSet) /\ Len(frames') = Len(frames)
          /\ \A j \in 1..Len(frames) : frames'[j] = IF j = Len(frames) THEN f ELSE frames[j]
      BY <1>2, <1>4, ExceptSeq DEF KillMe!SetTop, Frames
    <2>2. \A j \in 1..Len(frames) : frames'[j].sig = frames[j].sig
      BY <1>4, <2>1 DEF KillMe!Top
    <2> QED
      BY <1>2, <2>1, <2>2 DEF Frames
  <1>5. ASSUME frames' = KillMe!Pop
        PROVE  Frames' /\ Len(frames') = Len(frames) - 1
    <2>1. PICK n \in Nat : n = Len(frames)
      BY <1>1
    <2>2. \A j \in 1..n - 1 : frames[j] \in FrameSet
      BY <2>1, ElementOfSeq DEF Frames
    <2>3. /\ frames' \in Seq(FrameSet) /\ Len(frames') = n - 1
          /\ \A j \in 1..n - 1 : frames'[j] = frames[j]
      BY <1>1, <1>5, <2>1, <2>2, SubSeqProperties DEF KillMe!Pop
    <2>4. Len(frames') <= 3
      BY <2>1, <2>3 DEF Frames
    <2>5. \A j, k \in 1..Len(frames') : j # k => frames'[j].sig # frames'[k].sig
      BY <2>1, <2>3 DEF Frames
    <2> QED
      BY <2>1, <2>3, <2>4, <2>5 DEF Frames
  <1> QED
    BY <1>1, <1>3, <1>4, <1>5

\* The three assignments to a frame's fields.
LEMMA FrameCase ==
  ASSUME NEW f \in FrameSet, NEW c \in 1..3
  PROVE  LET g == [f EXCEPT !.case = c, !.pc = "compare"] IN
         g \in FrameSet /\ g.sig = f.sig /\ g.pc = "compare" /\ g.case = c
  BY DEF FrameSet

\* The signal has been compared with the one the step waits for.
LEMMA FrameFits ==
  ASSUME NEW f \in FrameSet, NEW b \in BOOLEAN
  PROVE  LET g == [f EXCEPT !.fits = b, !.pc = "write"] IN
         g \in FrameSet /\ g.sig = f.sig /\ g.pc = "write" /\ g.case = f.case /\ g.fits = b
  BY DEF FrameSet

\* The frame's line has been written.
LEMMA FrameSaid ==
  ASSUME NEW f \in FrameSet
  PROVE  LET g == [f EXCEPT !.pc = "assign"] IN
         g \in FrameSet /\ g.sig = f.sig /\ g.pc = "assign" /\ g.case = f.case /\ g.fits = f.fits
  BY DEF FrameSet

\* An uninterrupted handler is the only one.
LEMMA OnlyFrame ==
  ASSUME Frames, OneFrame, frames # <<>>
  PROVE  Len(frames) = 1 /\ KillMe!Top = frames[1]
  <1>1. PICK n \in Nat : n = Len(frames)
    BY TopFrame
  <1>2. n >= 1 /\ n <= 1
    BY <1>1, TopFrame DEF OneFrame
  <1> QED
    BY <1>1, <1>2 DEF KillMe!Top

\* What the handler knows is still so after a step of it that leaves `step` alone.
LEMMA SetTopInv ==
  ASSUME KillInv, frames # <<>>, ~exited,
         NEW f \in FrameSet, f.sig = KillMe!Top.sig, frames' = KillMe!SetTop(f),
         f.pc # "switch" /\ ~nested => f.case = step,
         f.pc \in {"write", "assign"} /\ ~nested =>
            (f.fits <=> f.sig = KillMe!SIGNALS[step]),
         said' \in 0..3, UNCHANGED <<step, pending, exited, nested, recent>>
  PROVE  KillInv'
  <1>1. Frames' /\ Len(frames') = Len(frames) /\ frames'[Len(frames)] = f
    BY TopFrame DEF KillInv
  <1>2. ASSUME ~nested PROVE OneFrame' /\ Steps'
    <2>0. OneFrame /\ Steps
      BY <1>2 DEF KillInv
    <2>1. OneFrame /\ Steps /\ Len(frames) = 1
      BY <2>0, OnlyFrame DEF KillInv
    <2>2. Steps'
      BY <1>1, <2>1 DEF Steps, Answered, Ago
    <2>3. OneFrame'
      BY <1>1, <1>2, <2>1 DEF OneFrame, KillMe!Top
    <2> QED
      BY <2>2, <2>3
  <1> QED
    BY <1>1, <1>2 DEF KillInv

\* The first read of step.
LEMMA SwitchInv == ASSUME KillInv, KillMe!Switch PROVE KillInv'
  <1> DEFINE f == [KillMe!Top EXCEPT !.case = step, !.pc = "compare"]
  <1>1. Frames /\ frames # <<>> /\ ~exited /\ step \in 1..3
    BY SMTT(20) DEF KillMe!Switch, KillMe!At, KillInv
  <1>2. f \in FrameSet /\ f.sig = KillMe!Top.sig /\ f.pc = "compare" /\ f.case = step
    BY <1>1, TopFrame, FrameCase
  <1>3. /\ frames' = KillMe!SetTop(f) /\ said' \in 0..3
        /\ UNCHANGED <<step, pending, exited, nested, recent>>
    BY DEF KillMe!Switch, KillInv
  <1> HIDE DEF f
  <1> QED
    BY <1>1, <1>2, <1>3, SetTopInv

\* The second read, of the same step as long as nobody interrupts.
LEMMA CompareInv == ASSUME KillInv, KillMe!Compare PROVE KillInv'
  <1> DEFINE b == KillMe!Top.sig = KillMe!SIGNALS[step]
             f == [KillMe!Top EXCEPT !.fits = b, !.pc = "write"]
  <1>1. Frames /\ frames # <<>> /\ ~exited /\ KillMe!Top.pc = "compare"
    BY DEF KillMe!Compare, KillMe!At, KillInv
  <1>2. /\ f \in FrameSet /\ f.sig = KillMe!Top.sig /\ f.pc = "write"
        /\ f.case = KillMe!Top.case /\ f.fits = b
    <2>1. b \in BOOLEAN
      OBVIOUS
    <2> HIDE DEF b
    <2> QED
      BY <1>1, <2>1, TopFrame, FrameFits
  <1>3. /\ frames' = KillMe!SetTop(f) /\ said' \in 0..3
        /\ UNCHANGED <<step, pending, exited, nested, recent>>
    BY DEF KillMe!Compare, KillInv
  <1>4. ~nested => KillMe!Top.case = step
    BY <1>1, OnlyFrame DEF KillInv, OneFrame
  <1> HIDE DEF f
  <1> QED
    BY <1>1, <1>2, <1>3, <1>4, SetTopInv

\* The message.
LEMMA SayInv == ASSUME KillInv, KillMe!Say PROVE KillInv'
  <1> DEFINE f == [KillMe!Top EXCEPT !.pc = "assign"]
  <1>1. Frames /\ frames # <<>> /\ ~exited /\ KillMe!Top.pc = "write"
    BY DEF KillMe!Say, KillMe!At, KillInv
  <1>2. KillMe!Top \in FrameSet
    BY <1>1, TopFrame
  <1>3. /\ f \in FrameSet /\ f.sig = KillMe!Top.sig /\ f.pc = "assign"
        /\ f.case = KillMe!Top.case /\ f.fits = KillMe!Top.fits
    BY <1>2, FrameSaid
  <1>4. /\ frames' = KillMe!SetTop(f) /\ said' \in 0..3
        /\ UNCHANGED <<step, pending, exited, nested, recent>>
    BY <1>2 DEF KillMe!Say, FrameSet
  <1>5. ~nested => /\ KillMe!Top.case = step
                   /\ KillMe!Top.fits <=> KillMe!Top.sig = KillMe!SIGNALS[step]
    BY <1>1, OnlyFrame DEF KillInv, OneFrame
  <1> HIDE DEF f
  <1> QED
    BY <1>1, <1>3, <1>4, <1>5, SetTopInv

\* The handler's assignment: the step follows from the signals answered, this one included.
LEMMA AssignInv == ASSUME KillInv, KillMe!Assign PROVE KillInv'
  <1>1. /\ Frames /\ frames # <<>> /\ ~exited /\ KillMe!Top.pc = "assign"
        /\ KillMe!Top \in FrameSet /\ step \in 1..3
    BY TopFrame DEF KillMe!Assign, KillMe!At, KillInv
  <1>2. /\ frames' = KillMe!Pop /\ UNCHANGED <<pending, said, nested, recent>>
        /\ step' = IF ~KillMe!Top.fits THEN 1
                   ELSE IF KillMe!Top.case = 3 THEN step ELSE KillMe!Top.case + 1
        /\ exited' = (KillMe!Top.fits /\ KillMe!Top.case = 3)
    BY DEF KillMe!Assign, KillMe!First, KillMe!Third
  <1>3. Frames' /\ Len(frames') = Len(frames) - 1
    BY <1>1, <1>2, TopFrame
  <1>4. step' \in 1..3
    BY <1>1, <1>2 DEF FrameSet
  <1>5. exited' \in BOOLEAN
    BY <1>2
  <1>6. ASSUME ~nested
        PROVE  /\ ~exited' => OneFrame' /\ Steps'
               /\ exited' => /\ Len(recent) >= 3 /\ recent[Len(recent)] = "QUIT"
                             /\ recent[Len(recent) - 1] = "TSTP"
                             /\ recent[Len(recent) - 2] = "INT"
    <2>1. OneFrame /\ Steps
      BY <1>1, <1>6 DEF KillInv
    <2>2. Len(frames) = 1 /\ KillMe!Top = frames[1]
      BY <1>1, <2>1, OnlyFrame
    <2>3. PICK n \in Nat : n = Len(recent)
      BY LenProperties DEF KillInv
    <2>4. n <= 6 /\ n >= 1 /\ recent[n] = KillMe!Top.sig
      BY <2>1, <2>2, <2>3 DEF KillInv, OneFrame
    <2>5. KillMe!Top.case = step /\ (KillMe!Top.fits <=> recent[n] = KillMe!SIGNALS[step])
      BY <1>1, <2>1, <2>2, <2>4 DEF OneFrame
    <2>6. Answered = n - 1 /\ Answered' = n /\ Len(frames') = 0
      BY <1>2, <1>3, <2>2, <2>3 DEF Answered
    <2>7. /\ Ago(0) = recent[n - 1] /\ Ago(1) = recent[n - 2] /\ Ago(2) = recent[n - 3]
          /\ Ago(3) = recent[n - 4] /\ Ago(4) = recent[n - 5]
      BY <2>6 DEF Ago
    <2>8. /\ Ago(0)' = recent[n] /\ Ago(1)' = recent[n - 1] /\ Ago(2)' = recent[n - 2]
          /\ Ago(3)' = recent[n - 3] /\ Ago(4)' = recent[n - 4] /\ Ago(5)' = recent[n - 5]
      BY <1>2, <2>6 DEF Ago
    <2>9. /\ step = 1 => KillMe!SIGNALS[step] = "INT"
          /\ step = 2 => KillMe!SIGNALS[step] = "TSTP"
          /\ step = 3 => KillMe!SIGNALS[step] = "QUIT"
      BY DEF KillMe!SIGNALS
    <2>10. exited' <=> step = 3 /\ recent[n] = "QUIT"
      BY <1>1, <1>2, <2>5, <2>9
    <2>11. step' = IF recent[n] # KillMe!SIGNALS[step] THEN 1
                   ELSE IF step = 3 THEN step ELSE step + 1
      BY <1>2, <2>5
    <2>12. exited' => /\ n >= 3 /\ recent[n] = "QUIT"
                      /\ recent[n - 1] = "TSTP" /\ recent[n - 2] = "INT"
      BY <2>1, <2>4, <2>6, <2>7, <2>10 DEF Steps
    <2>13. ~exited' => Steps'
      <3> HIDE DEF Answered, Ago
      <3> QED
        BY <1>1, <2>1, <2>4, <2>6, <2>7, <2>8, <2>9, <2>10, <2>11 DEF Steps
    <2>14. OneFrame'
      BY <2>6 DEF OneFrame
    <2> QED
      BY <2>3, <2>12, <2>13, <2>14
  <1> QED
    BY <1>2, <1>3, <1>4, <1>5, <1>6, Zenon DEF KillInv

\* Every signal and every step of a handler.
LEMMA KillStep == KillInv /\ [KillMe!Next]_kill_me => KillInv'
  <1> SUFFICES ASSUME KillInv, [KillMe!Next]_kill_me PROVE KillInv'
    OBVIOUS
  <1>1. ASSUME NEW s \in KillMe!Signals, KillMe!Arrive(s) PROVE KillInv'
    <2>1. CASE s \in KillMe!Blocked
      BY <1>1, <2>1 DEF KillMe!Arrive, KillInv, Frames, OneFrame, Steps, Answered, Ago
    <2>2. CASE s \notin KillMe!Blocked
      BY <1>1, <2>2, DeliverInv DEF KillMe!Arrive, KillInv
    <2> QED
      BY <2>1, <2>2
  <1>2. ASSUME NEW s \in KillMe!Signals, KillMe!DeliverPending(s) PROVE KillInv'
    BY <1>2, DeliverInv DEF KillMe!DeliverPending, KillInv
  <1>3. CASE UNCHANGED kill_me
    BY <1>3 DEF kill_me, KillInv, Frames, OneFrame, Steps, Answered, Ago
  <1> QED
    BY <1>1, <1>2, <1>3, SwitchInv, CompareInv, SayInv, AssignInv
    DEF KillMe!Next, KillMe!Handler

\* What the last signals say of the step says when the program ends.
LEMMA KillEnds == KillInv => SequenceEnds
  <1> SUFFICES ASSUME KillInv PROVE SequenceEnds
    OBVIOUS
  <1>1. KillMe!TypeOK
    <2>1. \A j \in DOMAIN frames : frames[j] \in FrameSet
      BY ElementOfSeq, LenProperties DEF KillInv, Frames
    <2> QED
      BY <2>1 DEF KillInv, Frames, FrameSet, KillMe!TypeOK, KillMe!First, KillMe!Third
  <1>2. ASSUME exited, ~nested PROVE KillMe!LastThree(KillMe!SIGNALS)
    <2>1. PICK n \in Nat : n = Len(recent)
      BY LenProperties DEF KillInv
    <2>2. n >= 3 /\ recent[n] = "QUIT" /\ recent[n - 1] = "TSTP" /\ recent[n - 2] = "INT"
      BY <1>2, <2>1 DEF KillInv
    <2>3. \A j \in n - 2..n : recent[j] \in KillMe!Signals
      BY <2>1, <2>2, ElementOfSeq DEF KillInv
    <2> DEFINE r == SubSeq(recent, n - 2, n)
    <2>4. /\ r \in Seq(KillMe!Signals) /\ Len(r) = 3
          /\ \A j \in 1..3 : r[j] = recent[n - 2 + j - 1]
      BY <2>1, <2>2, <2>3, SubSeqProperties
    <2> HIDE DEF r
    <2>5. r[1] = "INT" /\ r[2] = "TSTP" /\ r[3] = "QUIT"
      BY <2>2, <2>4
    <2>6. KillMe!SIGNALS \in Seq(KillMe!Signals) /\ Len(KillMe!SIGNALS) = 3
      BY DEF KillMe!SIGNALS, KillMe!Signals
    <2>7. \A j \in 1..3 : r[j] = KillMe!SIGNALS[j]
      BY <2>5 DEF KillMe!SIGNALS
    <2>8. r = KillMe!SIGNALS
      BY <2>4, <2>6, <2>7, SeqEqual
    <2> QED
      BY <2>1, <2>2, <2>8 DEF KillMe!LastThree, r
  <1>3. ASSUME ~nested, frames = <<>>, KillMe!LastSix(KillMe!SIGNALS), ~exited PROVE FALSE
    <2>1. Len(frames) = 0 /\ Len(recent) = 6
      BY <1>3 DEF KillMe!LastSix
    <2>2. Answered = 6
      BY <2>1 DEF Answered
    <2>3. /\ recent[1] = "INT" /\ recent[2] = "TSTP" /\ recent[3] = "QUIT"
          /\ recent[4] = "INT" /\ recent[5] = "TSTP" /\ recent[6] = "QUIT"
      BY <1>3 DEF KillMe!LastSix, KillMe!SIGNALS
    <2>4. /\ Ago(5) = "INT" /\ Ago(4) = "TSTP" /\ Ago(3) = "QUIT"
          /\ Ago(2) = "INT" /\ Ago(1) = "TSTP" /\ Ago(0) = "QUIT"
      BY <2>2, <2>3 DEF Ago
    <2> QED
      BY <1>3, <2>2, <2>4 DEF KillInv, Steps
  <1> QED
    BY <1>1, <1>2, <1>3 DEF SequenceEnds, KillMe!SequenceEnds

\* While no handler is interrupted the program ends only on the sequence, and the sequence
\* pressed twice ends it whatever came before.  (At most three handlers are ever under way.)
THEOREM EndsOnItsSequence == ProcSpec => []SequenceEnds
  <1>1. ProcInit => KillInv
    BY KillInit DEF ProcInit
  <1>2. KillInv /\ [ProcNext]_allvars => KillInv'
    BY KillStep DEF ProcNext, Toll, Game, Trade, Kill, allvars, kill_me
  <1> QED
    BY <1>1, <1>2, KillEnds, PTL DEF ProcSpec

----------------------------------------------------------------------------
(***************************************************************************)
(* The toll.  A lane is exact because every read that ends with a line     *)
(* takes whole lines; that process_lines then takes each of them, and      *)
(* leaves nothing, is an induction over the cells it looks at.             *)
(***************************************************************************)
\* A set of numbers that is not empty has a first one.
LEMMA FirstNumber ==
    ASSUME NEW I, I \subseteq Nat, I # {}
    PROVE  \E m \in I : \A k \in I : m <= k
<1>1. PICK m \in I : \A k \in I : ~(<<k, m>> \in OpToRel(<, Nat))
    BY NatLessThanWellFounded, WFMin
<1>2. ASSUME NEW k \in I PROVE m <= k
  <2>1. k \in Nat /\ m \in Nat
    OBVIOUS
  <2>2. ~(<<k, m>> \in Nat \X Nat /\ k < m)
    BY <1>1, Zenon DEF OpToRel
  <2> QED
    BY <2>1, <2>2
<1> QED
    BY <1>2

\* What process_lines has come to behind each of the first n cells.
Seen == [start |-> 0, lines |-> <<>>]
SeenNext(b, k, seen) ==
    IF EToll!IsNewline(b[k])
    THEN [start |-> k, lines |-> Append(seen.lines, SubSeq(b, seen.start + 1, k - 1))]
    ELSE seen
Scans(b, n, U) == U = [k \in 0 .. n |-> IF k = 0 THEN Seen ELSE SeenNext(b, k, U[k - 1])]

\* There is such a function for every number of cells.
LEMMA ScansExist == ASSUME NEW b, NEW n \in Nat PROVE \E U : Scans(b, n, U)
<1> DEFINE I == {k \in Nat : ~ \E U : Scans(b, k, U)}
<1>1. ASSUME I # {} PROVE FALSE
  <2>1. PICK k \in I : \A j \in I : k <= j
    <3>1. I \subseteq Nat
      OBVIOUS
    <3> HIDE DEF I
    <3> QED
      BY <1>1, <3>1, FirstNumber
  <2>0. k \in Nat /\ ~(\E U : Scans(b, k, U)) /\ (k # 0 => \E U : Scans(b, k - 1, U))
    <3>1. k \in Nat /\ ~(\E U : Scans(b, k, U))
      BY <2>1, Zenon
    <3>2. ASSUME k # 0 PROVE k - 1 \in Nat /\ k - 1 \notin I
      <4> HIDE DEF I
      <4> QED
        BY <2>1, <3>1, <3>2
    <3> QED
      BY <3>1, <3>2, Zenon
  <2> HIDE DEF I
  <2>2. CASE k = 0
    <3>1. Scans(b, 0, [j \in 0 .. 0 |-> Seen])
      BY DEF Scans
    <3> QED
      BY <2>0, <2>2, <3>1
  <2>3. CASE k # 0
    <3>1. k - 1 \in Nat /\ k \in Nat
      BY <2>0, <2>3
    <3>2. PICK G : Scans(b, k - 1, G)
      BY <2>0, <2>3, Zenon
    <3> DEFINE last == SeenNext(b, k, G[k - 1])
               U == [j \in 0 .. k |-> IF j = k THEN last ELSE G[j]]
    <3>3. ASSUME NEW j \in 0 .. k
          PROVE  U[j] = IF j = 0 THEN Seen ELSE SeenNext(b, j, U[j - 1])
      <4>1. CASE j = k
        <5>1. U[j] = last /\ U[k - 1] = G[k - 1]
          BY <3>1, <4>1
        <5> QED
          BY <2>3, <4>1, <5>1
      <4>2. CASE j # k
        <5>1. j \in 0 .. (k - 1) /\ U[j] = G[j]
          BY <3>1, <4>2
        <5>2. j # 0 => U[j - 1] = G[j - 1]
          BY <3>1, <5>1
        <5>3. G[j] = IF j = 0 THEN Seen ELSE SeenNext(b, j, G[j - 1])
          BY <3>2, <5>1 DEF Scans
        <5> HIDE DEF U
        <5> QED
          BY <5>1, <5>2, <5>3, Zenon
      <4> QED
        BY <4>1, <4>2
    <3>4. Scans(b, k, U)
      BY <3>3 DEF Scans
    <3> QED
      BY <2>0, <3>4, Zenon
  <2> QED
    BY <2>2, <2>3
<1> QED
    BY <1>1

\* And Scan is the last of its values.
LEMMA ScanIsLast ==
    ASSUME NEW b, NEW n \in Nat
    PROVE  \E U : Scans(b, n, U) /\ EToll!Scan(b, n) = U[n]
<1> DEFINE U == CHOOSE U : Scans(b, n, U)
<1>1. Scans(b, n, U)
    BY ScansExist, Zenon
<1>2. EToll!Scan(b, n) = U[n]
    BY Zenon DEF EToll!Scan, Scans, Seen, SeenNext
<1> QED
    BY <1>1, <1>2

\* Whatever the buffer holds, the line being looked at begins inside of what was read.
LEMMA ScanStarts ==
    ASSUME NEW b, NEW n \in Nat
    PROVE  EToll!Scan(b, n).start \in 0 .. n
<1>1. PICK U : Scans(b, n, U) /\ EToll!Scan(b, n) = U[n]
    BY ScanIsLast
<1> DEFINE I == {k \in 0 .. n : U[k].start \notin 0 .. k}
<1>2. ASSUME I # {} PROVE FALSE
  <2>1. PICK k \in I : \A j \in I : k <= j
    <3>1. I \subseteq Nat
      OBVIOUS
    <3> HIDE DEF I
    <3> QED
      BY <1>2, <3>1, FirstNumber
  <2>2. U[k] = IF k = 0 THEN Seen ELSE SeenNext(b, k, U[k - 1])
    BY <1>1, <2>1 DEF Scans
  <2>3. k # 0
    BY <2>1, <2>2 DEF Seen
  <2>4. k - 1 \in 0 .. n /\ k - 1 \notin I
    BY <2>1, <2>3
  <2>5. U[k].start = k \/ U[k] = U[k - 1]
    BY <2>2, <2>3 DEF SeenNext
  <2> QED
    BY <2>1, <2>3, <2>4, <2>5
<1> QED
    BY <1>1, <1>2

\* The cells of a FIFO, and what lengths of lines do to places in it.
Cells == Nat \X Nat

\* The cells of q payments.  Its definition is needed in the lemma that follows only.
Width(q) == MsgLen * q

LEMMA Widths ==
    ASSUME EToll!ETollAssumption, NEW a \in Nat, NEW b \in Nat
    PROVE  /\ MsgLen \in Nat \ {0, 1}
           /\ Width(a) \in Nat /\ Width(0) = 0
           /\ a <= b => Width(a) <= Width(b)
           /\ Width(a + b) = Width(a) + Width(b)
           /\ Width(a + 1) = Width(a) + MsgLen
<1>1. MsgLen \in Nat \ {0, 1}
    BY DEF EToll!ETollAssumption
<1>2. Width(a) \in Nat /\ Width(0) = 0
    BY <1>1, Z3 DEF Width
<1>3. Width(a + b) = Width(a) + Width(b) /\ Width(a + 1) = Width(a) + MsgLen
    BY <1>1, Z3 DEF Width
<1>4. ASSUME a <= b PROVE Width(a) <= Width(b)
  <2>1. PICK d \in Nat : b = a + d
    BY <1>4
  <2>2. Width(d) \in Nat
    BY <1>1, Z3 DEF Width
  <2>3. Width(b) = Width(a) + Width(d)
    BY <1>1, <2>1, Z3 DEF Width
  <2> QED
    BY <1>2, <2>2, <2>3
<1> QED
    BY <1>1, <1>2, <1>3, <1>4

\* A place is in some payment, at some cell.
LEMMA PlaceInLine ==
    ASSUME EToll!ETollAssumption, NEW k \in Nat
    PROVE  \E q \in Nat : \E r \in 0 .. MsgLen - 1 : k = Width(q) + r
<1> DEFINE I == {j \in Nat : ~ \E q \in Nat : \E r \in 0 .. MsgLen - 1 : j = Width(q) + r}
<1>0. MsgLen \in Nat \ {0, 1} /\ Width(0) = 0
    BY Widths
<1>1. ASSUME I # {} PROVE FALSE
  <2>1. PICK j \in I : \A i \in I : j <= i
    <3>1. I \subseteq Nat
      OBVIOUS
    <3> HIDE DEF I
    <3> QED
      BY <1>1, <3>1, FirstNumber
  <2>2. CASE j = 0
    <3>1. 0 = Width(0) + 0 /\ 0 \in 0 .. MsgLen - 1
      BY <1>0
    <3> QED
      BY <2>1, <2>2, <3>1
  <2>3. CASE j # 0
    <3>1. j - 1 \in Nat /\ j - 1 \notin I
      BY <2>1, <2>3
    <3>2. PICK q \in Nat, r \in 0 .. MsgLen - 1 : j - 1 = Width(q) + r
      BY <3>1
    <3>3. Width(q) \in Nat /\ Width(q + 1) = Width(q) + MsgLen
      BY Widths
    <3>4. CASE r = MsgLen - 1
      <4>1. j = Width(q + 1) + 0
        BY <1>0, <3>1, <3>2, <3>3, <3>4
      <4>2. q + 1 \in Nat /\ 0 \in 0 .. MsgLen - 1
        BY <1>0
      <4> QED
        BY <2>1, <4>1, <4>2
    <3>5. CASE r # MsgLen - 1
      <4>1. j = Width(q) + (r + 1) /\ r + 1 \in 0 .. MsgLen - 1
        BY <1>0, <3>1, <3>2, <3>3, <3>5
      <4> QED
        BY <2>1, <4>1
    <3> QED
      BY <3>4, <3>5
  <2> QED
    BY <2>2, <2>3
<1> QED
    BY <1>1

\* The first n cells of a buffer are of Q payments at most, from first on.
Whole(b, n, Q, first) ==
    /\ n <= Width(Q)
    /\ \A i \in 0 .. Q - 1 : \A j \in 1 .. MsgLen :
          Width(i) + j <= n => b[Width(i) + j] = EToll!Cell(first + i, j)

\* Behind q of them, and r cells of the next, process_lines has taken q lines.
Taken(U, n, first) ==
    \A q \in Nat : \A r \in 0 .. MsgLen - 1 : Width(q) + r <= n =>
        /\ U[Width(q) + r].start = Width(q)
        /\ U[Width(q) + r].lines = [i \in 1 .. q |-> EToll!Line(first + i - 1)]

\* From a buffer that holds payments whole, from first on, process_lines takes their lines:
\* behind q of them, and r cells of the next, it has just these.
LEMMA ScanWhole ==
    ASSUME EToll!ETollAssumption, NEW b, b \in [1 .. BufSize -> Cells],
           NEW n \in 0 .. BufSize, NEW Q \in Nat, NEW first \in Nat, Whole(b, n, Q, first),
           NEW U, Scans(b, n, U)
    PROVE  Taken(U, n, first)
<1>0. /\ n <= Width(Q)
      /\ \A i \in 0 .. Q - 1 : \A j \in 1 .. MsgLen :
            Width(i) + j <= n => b[Width(i) + j] = EToll!Cell(first + i, j)
    BY DEF Whole
<1> DEFINE Lines(q) == [i \in 1 .. q |-> EToll!Line(first + i - 1)]
           Good(k) == \A q \in Nat : \A r \in 0 .. MsgLen - 1 : k = Width(q) + r =>
                         U[k].start = Width(q) /\ U[k].lines = Lines(q)
           I == {k \in 0 .. n : ~Good(k)}
<1>1. MsgLen \in Nat \ {0, 1} /\ n \in Nat /\ BufSize \in Nat
    BY DEF EToll!ETollAssumption
<1>2. ASSUME I # {} PROVE FALSE
  <2>1. PICK k \in I : \A j \in I : k <= j
    <3>1. I \subseteq Nat
      BY <1>1
    <3> HIDE DEF I
    <3> QED
      BY <1>2, <3>1, FirstNumber
  <2>0. k \in Nat /\ k <= n /\ n <= Width(Q)
    BY <1>0, <1>1, <2>1
  <2>2. k \in 0 .. n /\ ~Good(k)
    BY <2>1
  <2>3. PICK q \in Nat, r \in 0 .. MsgLen - 1 :
          k = Width(q) + r /\ ~(U[k].start = Width(q) /\ U[k].lines = Lines(q))
    BY <2>2
  <2>4. U[k] = IF k = 0 THEN Seen ELSE SeenNext(b, k, U[k - 1])
    BY <2>0, <2>2 DEF Scans
  <2>5. ASSUME k # 0 PROVE Good(k - 1)
    <3>1. k - 1 \in 0 .. n /\ k - 1 \notin I
      BY <1>1, <2>1, <2>2, <2>5
    <3> HIDE DEF Good
    <3> QED
      BY <3>1
  <2> HIDE DEF I
  <2>6. CASE r # 0
    <3>0. PICK x \in Nat : x = Width(q)
      BY Widths
    <3>1. k # 0 /\ k - 1 = x + (r - 1) /\ r - 1 \in 0 .. MsgLen - 1
      BY <1>1, <2>3, <2>6, <3>0
    <3>2. U[k - 1].start = Width(q) /\ U[k - 1].lines = Lines(q)
      BY <2>5, <3>0, <3>1
    <3>3. q < Q
      <4> SUFFICES ASSUME Q <= q PROVE FALSE
        BY <1>1
      <4>1. PICK y \in Nat : y = Width(Q)
        BY Widths
      <4>2. y <= x
        BY <1>1, <3>0, <4>1, Widths
      <4> QED
        BY <1>1, <2>0, <2>3, <2>6, <3>0, <4>1, <4>2
    <3>4. b[k] = EToll!Cell(first + q, r)
      <4>1. q \in 0 .. Q - 1 /\ r \in 1 .. MsgLen /\ Width(q) + r <= n
        BY <1>1, <2>0, <2>3, <2>6, <3>3
      <4> QED
        BY <1>0, <2>3, <4>1
    <3>5. ~EToll!IsNewline(b[k])
      BY <1>1, <2>3, <3>4 DEF EToll!IsNewline, EToll!Cell
    <3> QED
      BY <2>3, <2>4, <3>1, <3>2, <3>5 DEF SeenNext
  <2>7. CASE r = 0
    <3>1. CASE q = 0
      <4>1. k = 0 /\ Width(q) = 0
        BY <2>3, <2>7, <3>1, Widths
      <4>2. Lines(q) = <<>>
        BY <3>1
      <4>3. U[k].start = 0 /\ U[k].lines = <<>>
        BY <2>4, <4>1 DEF Seen
      <4> HIDE DEF Lines
      <4> QED
        BY <2>3, <4>1, <4>2, <4>3
    <3>2. CASE q # 0
      <4> DEFINE p == q - 1
      <4>1. p \in Nat /\ q = p + 1
        BY <3>2
      <4> HIDE DEF p
      <4>2. PICK x \in Nat : x = Width(p) /\ Width(q) = x + MsgLen
        BY <1>1, <4>1, Widths
      <4>3. k # 0 /\ k = x + MsgLen /\ k - 1 = x + (MsgLen - 1)
        BY <1>1, <2>3, <2>7, <4>2
      <4>4. U[k - 1].start = Width(p) /\ U[k - 1].lines = Lines(p)
        <5>1. MsgLen - 1 \in 0 .. MsgLen - 1 /\ k - 1 = Width(p) + (MsgLen - 1)
          BY <1>1, <4>2, <4>3
        <5> QED
          BY <2>5, <4>1, <4>3, <5>1
      <4>5. p < Q
        <5> SUFFICES ASSUME Q <= p PROVE FALSE
          BY <1>1, <4>1
        <5>1. PICK y \in Nat : y = Width(Q)
          BY Widths
        <5>2. y <= x
          BY <1>1, <4>1, <4>2, <5>1, Widths
        <5> QED
          BY <1>1, <2>0, <4>3, <5>1, <5>2
      <4>6. ASSUME NEW j \in 1 .. MsgLen PROVE b[Width(p) + j] = EToll!Cell(first + p, j)
        <5>1. x + j <= n /\ p \in 0 .. Q - 1
          BY <1>1, <2>0, <4>1, <4>3, <4>5
        <5> QED
          BY <1>0, <4>2, <5>1
      <4>7. EToll!IsNewline(b[k])
        <5>1. b[k] = EToll!Cell(first + p, MsgLen)
          BY <1>1, <4>2, <4>3, <4>6
        <5> QED
          BY <5>1 DEF EToll!IsNewline, EToll!Cell
      <4> DEFINE line == SubSeq(b, x + 1, k - 1)
      <4>8. line = EToll!Line(first + p)
        <5>1. b \in Seq(Cells) /\ Len(b) = BufSize
          BY <1>1
        <5>2. /\ Len(line) = MsgLen - 1 /\ line \in Seq(Cells)
              /\ \A i \in 1 .. Len(line) : line[i] = b[x + i]
          <6>1. x + 1 \in 1 .. Len(b) + 1 /\ k - 1 \in x .. Len(b)
            BY <1>1, <2>2, <4>3, <5>1
          <6>2. /\ line \in Seq(Cells) /\ Len(line) = k - 1 - (x + 1) + 1
                /\ \A i \in 1 .. k - 1 - (x + 1) + 1 : line[i] = b[x + 1 + i - 1]
            BY <1>1, <5>1, <6>1, SubSeqProperties
          <6>3. k - 1 - (x + 1) + 1 = MsgLen - 1
            BY <1>1, <4>3
          <6>4. \A i \in 1 .. MsgLen - 1 : x + 1 + i - 1 = x + i
            BY <1>1
          <6> QED
            BY <6>2, <6>3, <6>4
        <5>3. \A i \in 1 .. MsgLen - 1 : line[i] = EToll!Cell(first + p, i)
          <6> TAKE i \in 1 .. MsgLen - 1
          <6>1. line[i] = b[Width(p) + i]
            BY <4>2, <5>2
          <6>2. i \in 1 .. MsgLen
            BY <1>1
          <6> HIDE DEF line
          <6> QED
            BY <4>6, <6>1, <6>2
        <5>4. line = [i \in 1 .. MsgLen - 1 |-> line[i]]
          <6> HIDE DEF line
          <6> QED
            BY <5>2
        <5> HIDE DEF line
        <5> QED
          BY <5>3, <5>4 DEF EToll!Line
      <4>9. Append(Lines(p), EToll!Line(first + p)) = Lines(q)
        <5>1. \A i \in 1 .. p : Lines(p)[i] = Lines(q)[i]
          BY <4>1
        <5>2. Lines(q)[q] = EToll!Line(first + p)
          BY <4>1
        <5>3. Append(Lines(p), EToll!Line(first + p))
                = [i \in 1 .. p + 1 |-> IF i = p + 1 THEN EToll!Line(first + p) ELSE Lines(p)[i]]
          BY <4>1
        <5> QED
          BY <4>1, <5>1, <5>2, <5>3
      <4>10. U[k].start = k /\ U[k].lines = Append(U[k - 1].lines, line)
        <5>1. SubSeq(b, U[k - 1].start + 1, k - 1) = line
          BY <4>2, <4>4
        <5> HIDE DEF line
        <5> QED
          BY <2>4, <4>3, <4>7, <5>1 DEF SeenNext
      <4>11. U[k].lines = Lines(q)
        BY <4>4, <4>8, <4>9, <4>10
      <4>12. U[k].start = Width(q)
        BY <4>2, <4>3, <4>10
      <4> QED
        BY <2>3, <4>11, <4>12
    <3> QED
      BY <3>1, <3>2
  <2> QED
    BY <2>6, <2>7
<1>3. ASSUME NEW q \in Nat, NEW r \in 0 .. MsgLen - 1, Width(q) + r <= n
      PROVE  /\ U[Width(q) + r].start = Width(q)
             /\ U[Width(q) + r].lines = Lines(q)
  <2>1. Width(q) + r \in 0 .. n
    <3>1. Width(q) \in Nat
      BY Widths
    <3> QED
      BY <1>1, <1>3, <3>1
  <2>2. Good(Width(q) + r)
    BY <1>2, <2>1
  <2> QED
    BY <2>2
<1> QED
    BY <1>3 DEF Taken

\* The FIFO p holds the payments from m + 1 to s, cell by cell.
Packed(p, m, s) ==
    /\ Len(p) = Width(s - m)
    /\ \A i \in 0 .. s - m - 1 : \A k \in 1 .. MsgLen : p[Width(i) + k] = EToll!Cell(m + 1 + i, k)

Lines(m) == [c \in 1 .. m |-> EToll!Line(c)]

\* The inductive invariant of the toll: the lanes that no read has cut are exact.
Exact(l) == \E m \in 0 .. sent[l] : /\ logged[l] = Lines(m) /\ len[l] = 0
                                    /\ Packed(pipe[l], m, sent[l])
TollInv ==
    /\ EToll!TypeOK
    /\ pipe \in [Lanes -> Seq(Cells)]
    /\ buf \in [Lanes -> [1 .. BufSize -> Cells]]
    /\ logged = [l \in Lanes |-> logged[l]]
    /\ overrun => cut # {}
    /\ \A l \in Lanes : l \in cut \/ overrun \/ Exact(l)

\* A place behind the first q payments is not among them.
LEMMA PlaceWithin ==
    ASSUME EToll!ETollAssumption, NEW i \in Nat, NEW q \in Nat, i < q, NEW k \in 1 .. MsgLen
    PROVE  Width(i) + k \in 1 .. Width(q)
<1>1. /\ MsgLen \in Nat \ {0, 1} /\ Width(i) \in Nat /\ Width(q) \in Nat
      /\ Width(i + 1) = Width(i) + MsgLen
    BY Widths
<1>2. i + 1 \in Nat /\ i + 1 <= q
    OBVIOUS
<1>3. Width(i + 1) <= Width(q)
    BY <1>2, Widths
<1> QED
    BY <1>1, <1>3

\* A payment more.
LEMMA PackedMore ==
    ASSUME EToll!ETollAssumption, NEW p \in Seq(Cells), NEW s \in Nat, NEW m \in 0 .. s,
           Packed(p, m, s)
    PROVE  /\ p \o EToll!Message(s + 1) \in Seq(Cells)
           /\ Len(p \o EToll!Message(s + 1)) = Len(p) + MsgLen
           /\ Packed(p \o EToll!Message(s + 1), m, s + 1)
<1> DEFINE msg == EToll!Message(s + 1)
           n == s - m
<1>0. n \in Nat
    OBVIOUS
<1>1. MsgLen \in Nat \ {0, 1} /\ n \in Nat /\ Width(n) \in Nat /\ Width(n + 1) = Width(n) + MsgLen
  <2> HIDE DEF n
  <2> QED
    BY <1>0, Widths
<1>2. /\ msg \in Seq(Cells) /\ Len(msg) = MsgLen
      /\ \A k \in 1 .. MsgLen : msg[k] = EToll!Cell(s + 1, k)
    BY <1>1 DEF EToll!Message, EToll!Cell, Cells
<1> HIDE DEF msg
<1>3. p \o msg \in Seq(Cells) /\ Len(p \o msg) = Len(p) + MsgLen
    BY <1>1, <1>2
<1>4. Len(p) = Width(n) /\ (s + 1) - m = n + 1
    BY DEF Packed
<1>5. ASSUME NEW i \in 0 .. n, NEW k \in 1 .. MsgLen
      PROVE  (p \o msg)[Width(i) + k] = EToll!Cell(m + 1 + i, k)
  <2>1. CASE i = n
    <3>1. (p \o msg)[Width(n) + k] = msg[k]
      BY <1>1, <1>2, <1>4
    <3> QED
      BY <1>1, <1>2, <2>1, <3>1
  <2>2. CASE i # n
    <3>1. i \in 0 .. n - 1 /\ i \in Nat /\ i < n
      BY <1>1, <2>2
    <3>2. Width(i) + k \in 1 .. Len(p)
      BY <1>1, <1>4, <3>1, PlaceWithin
    <3>3. (p \o msg)[Width(i) + k] = p[Width(i) + k]
      BY <1>2, <3>2
    <3> QED
      BY <3>1, <3>3 DEF Packed
  <2> QED
    BY <2>1, <2>2
<1> HIDE DEF n
<1>6. Packed(p \o msg, m, s + 1)
  <2>1. (s + 1) - m - 1 = n
    BY <1>1, <1>4
  <2> DEFINE more == p \o msg
  <2>2. Len(more) = Width((s + 1) - m)
    BY <1>1, <1>3, <1>4
  <2>3. \A i \in 0 .. (s + 1) - m - 1 : \A k \in 1 .. MsgLen :
           more[Width(i) + k] = EToll!Cell(m + 1 + i, k)
    BY <1>5, <2>1
  <2> HIDE DEF more
  <2>4. Packed(more, m, s + 1)
    BY <2>2, <2>3, Zenon DEF Packed
  <2> QED
    BY <2>4 DEF more
<1> QED
    BY <1>3, <1>6 DEF msg

\* The payments behind the first q.
LEMMA PackedRest ==
    ASSUME EToll!ETollAssumption, NEW p \in Seq(Cells), NEW s \in Nat, NEW m \in 0 .. s,
           Packed(p, m, s), NEW q \in 0 .. s - m
    PROVE  Packed(SubSeq(p, Width(q) + 1, Len(p)), m + q, s)
<1> DEFINE w == Width(q)
           n == s - (m + q)
           rest == SubSeq(p, w + 1, Len(p))
<1>1. n \in Nat /\ s - m = q + n /\ q \in Nat
    OBVIOUS
<1>2. MsgLen \in Nat \ {0, 1} /\ w \in Nat /\ Width(n) \in Nat /\ Width(q + n) = w + Width(n)
    BY <1>1, Widths
<1>3. Len(p) = w + Width(n)
    BY <1>1, <1>2 DEF Packed
<1>4. Len(rest) = Width(n) /\ \A k \in 1 .. Width(n) : rest[k] = p[w + k]
  <2>1. w + 1 \in Int /\ Len(p) \in Int /\ \A k \in w + 1 .. Len(p) : p[k] \in Cells
    BY <1>2
  <2>2. /\ Len(rest) = IF w + 1 <= Len(p) THEN Len(p) - (w + 1) + 1 ELSE 0
        /\ \A k \in 1 .. Len(p) - (w + 1) + 1 : rest[k] = p[w + 1 + k - 1]
    BY <2>1, SubSeqProperties
  <2>3. Len(p) - (w + 1) + 1 = Width(n)
    BY <1>2, <1>3
  <2>4. \A k \in 1 .. Width(n) : w + 1 + k - 1 = w + k
    BY <1>2
  <2> HIDE DEF rest, w
  <2> QED
    BY <1>2, <1>3, <2>2, <2>3, <2>4
<1>5. ASSUME NEW i \in 0 .. n - 1, NEW k \in 1 .. MsgLen
      PROVE  rest[Width(i) + k] = EToll!Cell(m + q + 1 + i, k)
  <2>0. i \in Nat /\ i < n
    BY <1>1
  <2>1. i \in Nat /\ i < n /\ Width(i) \in Nat /\ Width(q + i) = w + Width(i)
    BY <1>1, <2>0, Widths
  <2>2. Width(i) + k \in 1 .. Width(n)
    BY <1>1, <2>1, PlaceWithin
  <2>3. rest[Width(i) + k] = p[Width(q + i) + k]
    <3>1. rest[Width(i) + k] = p[w + (Width(i) + k)]
      BY <1>4, <2>2
    <3>2. w + (Width(i) + k) = Width(q + i) + k
      BY <1>2, <2>1
    <3> QED
      BY <3>1, <3>2
  <2>4. q + i \in 0 .. s - m - 1 /\ m + 1 + (q + i) = m + q + 1 + i
    BY <1>1
  <2> HIDE DEF rest, w
  <2> QED
    BY <2>3, <2>4 DEF Packed
<1> HIDE DEF rest, w, n
<1> QED
    BY <1>4, <1>5 DEF Packed, rest, w, n

\* What a read brings.
LEMMA ReadCells ==
    ASSUME EToll!ETollAssumption, TollInv, NEW l \in Lanes,
           NEW n, n = EToll!Least(Len(pipe[l]), BufSize)
    PROVE  /\ n \in 0 .. BufSize /\ n <= Len(pipe[l])
           /\ EToll!Filled(l, n) \in [1 .. BufSize -> Cells]
           /\ \A k \in 1 .. n : EToll!Filled(l, n)[k] = pipe[l][k]
<1>1. BufSize \in Nat \ {0}
    BY DEF EToll!ETollAssumption
<1>2. pipe[l] \in Seq(Cells) /\ Len(pipe[l]) \in Nat
    BY DEF TollInv
<1>3. n \in 0 .. BufSize /\ n <= Len(pipe[l])
    BY <1>1, <1>2 DEF EToll!Least
<1>4. \A k \in 1 .. n : pipe[l][k] \in Cells
    BY <1>1, <1>2, <1>3
<1>5. \A k \in 1 .. BufSize : buf[l][k] \in Cells
    BY DEF TollInv
<1> QED
    BY <1>1, <1>3, <1>4, <1>5 DEF EToll!Filled

\* process_lines leaves a buffer and a rest inside of it, whatever it is given.
LEMMA MovedCells ==
    ASSUME EToll!ETollAssumption, NEW b \in [1 .. BufSize -> Cells], NEW n \in 0 .. BufSize
    PROVE  EToll!Remaining(b, n) \in 0 .. n /\ EToll!Moved(b, n) \in [1 .. BufSize -> Cells]
<1>1. BufSize \in Nat \ {0} /\ n \in Nat
    BY DEF EToll!ETollAssumption
<1>2. EToll!Scan(b, n).start \in 0 .. n
    BY <1>1, ScanStarts
<1>3. EToll!Remaining(b, n) \in 0 .. n
    BY <1>1, <1>2 DEF EToll!Remaining
<1>4. PICK r \in 0 .. n : r = EToll!Remaining(b, n)
    BY <1>3
<1> DEFINE nul == [k \in 1 .. BufSize |->
                      IF k <= n /\ EToll!IsNewline(b[k]) THEN EToll!NUL ELSE b[k]]
<1>5. nul \in [1 .. BufSize -> Cells]
    BY <1>1 DEF EToll!NUL, EToll!Cell, Cells
<1>6. EToll!Moved(b, n) = [k \in 1 .. BufSize |-> IF k <= r THEN nul[n - r + k] ELSE nul[k]]
    BY <1>4 DEF EToll!Moved
<1> HIDE DEF nul
<1>7. \A k \in 1 .. BufSize : k <= r => n - r + k \in 1 .. BufSize
    BY <1>1, <1>4
<1> QED
    BY <1>3, <1>5, <1>6, <1>7

\* The first n cells are whole payments, q of them from m + 1 on.
ManyLines(b, n, m, q) ==
    /\ n = Width(q)
    /\ EToll!LinesIn(b, n) = [i \in 1 .. q |-> EToll!Line(m + i)]
    /\ EToll!Remaining(b, n) = 0

\* A read from a lane that is exact, if it ends with a line, takes whole lines: they are the
\* next payments, and process_lines leaves nothing.
LEMMA ReadsWhole ==
    ASSUME EToll!ETollAssumption, TollInv, NEW l \in Lanes, NEW m \in 0 .. sent[l],
           Packed(pipe[l], m, sent[l]),
           NEW n, n = EToll!Least(Len(pipe[l]), BufSize),
           NEW b, b = EToll!Filled(l, n), n = 0 \/ EToll!IsNewline(b[n])
    PROVE  \E q \in 0 .. sent[l] - m : ManyLines(b, n, m, q)
<1> DEFINE Q == sent[l] - m
<1>1. MsgLen \in Nat \ {0, 1} /\ BufSize \in Nat \ {0}
    BY DEF EToll!ETollAssumption
<1>2. sent[l] \in Nat /\ m \in Nat /\ Q \in Nat
    BY DEF TollInv, EToll!TypeOK, EToll!ETollAssumption
<1>3. /\ n \in 0 .. BufSize /\ n <= Len(pipe[l]) /\ n \in Nat
      /\ b \in [1 .. BufSize -> Cells] /\ \A k \in 1 .. n : b[k] = pipe[l][k]
    BY <1>1, ReadCells
<1>4. Len(pipe[l]) = Width(Q)
    BY DEF Packed
<1>5. ASSUME NEW i \in 0 .. Q - 1, NEW j \in 1 .. MsgLen, Width(i) + j <= n
      PROVE  b[Width(i) + j] = EToll!Cell(m + 1 + i, j)
  <2>0. i \in Nat
    BY <1>2
  <2>1. i \in Nat /\ Width(i) \in Nat
    BY <2>0, Widths
  <2>2. Width(i) + j \in 1 .. n
    BY <1>1, <1>3, <1>5, <2>1
  <2> QED
    BY <1>3, <2>2 DEF Packed
<1> HIDE DEF Q
<1>6. PICK U : Scans(b, n, U) /\ EToll!Scan(b, n) = U[n]
    BY <1>3, ScanIsLast
<1>7. \A q \in Nat : \A r \in 0 .. MsgLen - 1 : Width(q) + r <= n =>
              /\ U[Width(q) + r].start = Width(q)
              /\ U[Width(q) + r].lines = [i \in 1 .. q |-> EToll!Line(m + 1 + i - 1)]
  <2>1. n <= Width(Q) /\ m + 1 \in Nat
    BY <1>2, <1>3, <1>4
  <2>2. \A i \in 0 .. Q - 1 : \A j \in 1 .. MsgLen :
           Width(i) + j <= n => b[Width(i) + j] = EToll!Cell(m + 1 + i, j)
    BY <1>5
  <2>3. Whole(b, n, Q, m + 1)
    BY <2>1, <2>2 DEF Whole
  <2>4. Taken(U, n, m + 1)
    BY <1>2, <1>3, <1>6, <2>1, <2>3, ScanWhole
  <2> QED
    BY <2>4 DEF Taken
<1>8. PICK q \in Nat, r \in 0 .. MsgLen - 1 : n = Width(q) + r
    BY <1>3, PlaceInLine
<1>9. Width(q) \in Nat /\ Width(Q) \in Nat
    BY <1>2, Widths
<1>10. q <= Q
  <2> SUFFICES ASSUME Q < q PROVE FALSE
    BY <1>2
  <2>1. Width(Q + 1) <= Width(q) /\ Width(Q + 1) = Width(Q) + MsgLen
    <3>1. Q + 1 \in Nat /\ Q + 1 <= q
      BY <1>2
    <3> QED
      BY <1>2, <3>1, Widths
  <2> QED
    BY <1>1, <1>3, <1>4, <1>8, <1>9, <2>1
<1>11. r = 0
  <2> SUFFICES ASSUME r # 0 PROVE FALSE
    OBVIOUS
  <2>1. q < Q
    <3> SUFFICES ASSUME q = Q PROVE FALSE
      BY <1>2, <1>10
    <3> QED
      BY <1>1, <1>3, <1>4, <1>8, <1>9
  <2>2. q \in 0 .. Q - 1 /\ r \in 1 .. MsgLen
    BY <1>1, <1>2, <2>1
  <2>3. b[n] = EToll!Cell(m + 1 + q, r)
    BY <1>3, <1>5, <1>8, <2>2
  <2>4. n # 0
    BY <1>8, <1>9, <2>2
  <2> QED
    BY <1>1, <2>3, <2>4 DEF EToll!IsNewline, EToll!Cell
<1>12. n = Width(q)
    BY <1>8, <1>9, <1>11
<1>13. /\ EToll!Scan(b, n).start = n
       /\ EToll!Scan(b, n).lines = [i \in 1 .. q |-> EToll!Line(m + 1 + i - 1)]
  <2>1. 0 \in 0 .. MsgLen - 1 /\ Width(q) + 0 = n
    BY <1>1, <1>8, <1>9, <1>11
  <2> QED
    BY <1>3, <1>6, <1>7, <1>12, <2>1
<1>14. \A i \in 1 .. q : m + 1 + i - 1 = m + i
    BY <1>2
<1>15. EToll!LinesIn(b, n) = [i \in 1 .. q |-> EToll!Line(m + i)]
    BY <1>13, <1>14 DEF EToll!LinesIn
<1>16. EToll!Remaining(b, n) = 0
    BY <1>3, <1>13 DEF EToll!Remaining
<1> QED
    BY <1>2, <1>10, <1>12, <1>15, <1>16 DEF Q, ManyLines

\* The next lines behind those logged.
LEMMA LinesMore ==
    ASSUME NEW m \in Nat, NEW q \in Nat
    PROVE  Lines(m) \o [i \in 1 .. q |-> EToll!Line(m + i)] = Lines(m + q)
<1> DEFINE s == Lines(m)
           t == [i \in 1 .. q |-> EToll!Line(m + i)]
           u == Lines(m + q)
<1>1. DOMAIN s = 1 .. m /\ Len(s) = m /\ DOMAIN t = 1 .. q /\ Len(t) = q /\ DOMAIN u = 1 .. m + q
    BY DEF Lines
<1>2. s \o t = [k \in 1 .. m + q |-> IF k <= m THEN s[k] ELSE t[k - m]]
    BY <1>1 DEF Lines
<1>3. ASSUME NEW k \in 1 .. m + q PROVE (s \o t)[k] = u[k]
  <2>1. CASE k <= m
    BY <1>2, <2>1 DEF Lines
  <2>2. CASE k > m
    <3>1. k - m \in 1 .. q /\ m + (k - m) = k
      BY <2>2
    <3>2. t[k - m] = EToll!Line(k)
      BY <3>1
    <3> QED
      BY <1>2, <2>2, <3>2 DEF Lines
  <2>3. k <= m \/ k > m
    OBVIOUS
  <2> HIDE DEF s, t, u
  <2> QED
    BY <2>1, <2>2, <2>3, Zenon
<1>4. u = [k \in 1 .. m + q |-> u[k]]
    BY DEF Lines
<1> QED
    BY <1>2, <1>3, <1>4

\* Nothing has been paid yet.
LEMMA InitToll == EToll!ETollAssumption /\ EToll!Init => TollInv
<1> SUFFICES ASSUME EToll!ETollAssumption, EToll!Init PROVE TollInv
    OBVIOUS
<1>1. BufSize \in Nat \ {0} /\ PipeCap \in Nat /\ MaxCars \in Nat
    BY DEF EToll!ETollAssumption
<1>2. Cardinality(Lanes) \in Nat
    BY FS_CardinalityType DEF EToll!ETollAssumption, EToll!IsFiniteSet, IsFiniteSet
<1>3. EToll!TypeOK
  <2>1. EToll!Cardinality(Lanes) \in Nat
    BY <1>2 DEF EToll!Cardinality, Cardinality
  <2>2. sent \in [Lanes -> 0 .. MaxCars] /\ len \in [Lanes -> 0 .. BufSize]
    BY <1>1 DEF EToll!Init
  <2>3. \A l \in Lanes : Len(pipe[l]) <= PipeCap /\ DOMAIN buf[l] = 1 .. BufSize
    BY <1>1 DEF EToll!Init
  <2>4. events \in Seq(Lanes) /\ Len(events) <= EToll!Cardinality(Lanes)
    BY <2>1 DEF EToll!Init
  <2>5. cut \subseteq Lanes /\ overrun \in BOOLEAN
    BY DEF EToll!Init
  <2> QED
    BY <2>2, <2>3, <2>4, <2>5 DEF EToll!TypeOK
<1>4. pipe \in [Lanes -> Seq(Cells)] /\ buf \in [Lanes -> [1 .. BufSize -> Cells]]
    BY DEF EToll!Init, EToll!NUL, EToll!Cell, Cells
<1>5. ASSUME NEW l \in Lanes PROVE Exact(l)
  <2>1. Lines(0) = <<>>
    BY DEF Lines
  <2>2. Width(0) = 0
    BY Widths
  <2>3. Packed(<<>>, 0, 0)
    BY <2>2 DEF Packed
  <2>4. sent[l] = 0 /\ logged[l] = <<>> /\ len[l] = 0 /\ pipe[l] = <<>>
    BY DEF EToll!Init
  <2> QED
    BY <2>1, <2>3, <2>4 DEF Exact
<1> QED
    BY <1>3, <1>4, <1>5 DEF TollInv, EToll!Init

\* A payment is put behind those that wait.
LEMMA PayInv ==
    ASSUME EToll!ETollAssumption, TollInv, NEW l \in Lanes, EToll!Pay(l)
    PROVE  TollInv'
<1>1. MsgLen \in Nat \ {0, 1} /\ PipeCap \in Nat /\ MaxCars \in Nat
    BY DEF EToll!ETollAssumption
<1>2. sent \in [Lanes -> 0 .. MaxCars] /\ sent[l] \in Nat /\ pipe[l] \in Seq(Cells)
    BY <1>1 DEF TollInv, EToll!TypeOK
<1> DEFINE msg == EToll!Message(sent[l] + 1)
<1>3. msg \in Seq(Cells) /\ Len(msg) = MsgLen
    BY <1>1, <1>2 DEF EToll!Message, EToll!Cell, Cells
<1> HIDE DEF msg
<1>4. /\ sent[l] < MaxCars /\ Len(pipe[l]) + MsgLen <= PipeCap
      /\ sent' = [sent EXCEPT ![l] = sent[l] + 1]
      /\ pipe' = [pipe EXCEPT ![l] = pipe[l] \o msg]
      /\ UNCHANGED <<buf, len, logged, events, cut, overrun>>
    BY DEF EToll!Pay, msg
<1>5. pipe[l] \o msg \in Seq(Cells) /\ Len(pipe[l] \o msg) = Len(pipe[l]) + MsgLen
  <2>1. PICK p \in Seq(Cells) : p = pipe[l]
    BY <1>2
  <2>2. p \o msg \in Seq(Cells) /\ Len(p \o msg) = Len(p) + MsgLen
    BY <1>1, <1>3
  <2> QED
    BY <2>1, <2>2
<1>6. sent' \in [Lanes -> 0 .. MaxCars] /\ pipe' \in [Lanes -> Seq(Cells)]
    BY <1>1, <1>2, <1>4, <1>5 DEF TollInv
<1>7. EToll!TypeOK'
  <2>1. \A k \in Lanes : Len(pipe'[k]) <= PipeCap
    BY <1>4, <1>5 DEF TollInv, EToll!TypeOK
  <2> QED
    BY <1>4, <1>6, <2>1 DEF TollInv, EToll!TypeOK
<1>8. ASSUME NEW k \in Lanes PROVE k \in cut' \/ overrun' \/ Exact(k)'
  <2> SUFFICES ASSUME k \notin cut, ~overrun PROVE Exact(k)'
    BY <1>4
  <2>1. PICK m \in 0 .. sent[k] :
            logged[k] = Lines(m) /\ len[k] = 0 /\ Packed(pipe[k], m, sent[k])
    BY DEF TollInv, Exact
  <2>2. CASE k = l
    <3>1. Packed(pipe[l] \o msg, m, sent[l] + 1)
      BY <1>2, <2>1, <2>2, PackedMore DEF msg
    <3>2. sent'[k] = sent[l] + 1 /\ pipe'[k] = pipe[l] \o msg /\ m \in 0 .. sent'[k]
      BY <1>2, <1>4, <2>1, <2>2 DEF TollInv
    <3> QED
      BY <1>4, <2>1, <2>2, <3>1, <3>2 DEF Exact
  <2>3. CASE k # l
    <3>1. sent'[k] = sent[k] /\ pipe'[k] = pipe[k]
      BY <1>2, <1>4, <2>3 DEF TollInv
    <3> QED
      BY <1>4, <2>1, <3>1 DEF Exact
  <2> QED
    BY <2>2, <2>3
<1> QED
    BY <1>4, <1>6, <1>7, <1>8 DEF TollInv

\* epoll_wait names each ready lane once.
LEMMA EpollInv == ASSUME EToll!ETollAssumption, TollInv, EToll!EpollWait PROVE TollInv'
<1> DEFINE ready == {l \in Lanes : pipe[l] # <<>>}
<1>1. /\ events' \in EToll!SetToSeqs(ready)
      /\ UNCHANGED <<sent, pipe, buf, len, logged, cut, overrun>>
    BY DEF EToll!EpollWait
<1>2. ready \subseteq Lanes /\ IsFiniteSet(Lanes)
    BY DEF EToll!ETollAssumption, EToll!IsFiniteSet, IsFiniteSet
<1> HIDE DEF ready
<1>3. Cardinality(ready) \in Nat /\ Cardinality(ready) <= Cardinality(Lanes)
    BY <1>2, FS_Subset, FS_CardinalityType
<1>4. events' \in [1 .. Cardinality(ready) -> ready]
    BY <1>1 DEF EToll!SetToSeqs, EToll!Cardinality, Cardinality
<1>5. events' \in Seq(Lanes) /\ Len(events') <= EToll!Cardinality(Lanes)
  <2>1. events' \in Seq(Lanes) /\ Len(events') <= Cardinality(Lanes)
    BY <1>2, <1>3, <1>4
  <2> QED
    BY <2>1 DEF EToll!Cardinality, Cardinality
<1>6. EToll!TypeOK'
    BY <1>1, <1>5 DEF TollInv, EToll!TypeOK
<1> QED
    BY <1>1, <1>6 DEF TollInv, Exact

\* One event: the lane read stays exact unless the read cuts it, and the others' lanes are
\* left alone; the buffer overflows only if some read has cut its lane before.
LEMMA HandleInv == ASSUME EToll!ETollAssumption, TollInv, EToll!Handle PROVE TollInv'
<1> DEFINE l == Head(events)
           n == EToll!Least(Len(pipe[l]), BufSize)
           b == EToll!Filled(l, n)
           total == len[l] + n
           rest == SubSeq(pipe[l], n + 1, Len(pipe[l]))
<1>1. /\ events # <<>> /\ ~overrun
      /\ pipe' = [pipe EXCEPT ![l] = rest]
      /\ cut' = IF n > 0 /\ ~EToll!IsNewline(b[n]) THEN cut \cup {l} ELSE cut
      /\ total > BufSize => overrun' = TRUE /\ UNCHANGED <<logged, buf, len>>
      /\ ~(total > BufSize) =>
            /\ logged' = [logged EXCEPT ![l] = logged[l] \o EToll!LinesIn(b, total)]
            /\ buf' = [buf EXCEPT ![l] = EToll!Moved(b, total)]
            /\ len' = [len EXCEPT ![l] = EToll!Remaining(b, total)]
            /\ overrun' = overrun
      /\ events' = Tail(events)
      /\ UNCHANGED sent
    BY Zenon DEF EToll!Handle
<1>2. l \in Lanes /\ Tail(events) \in Seq(Lanes) /\ Len(Tail(events)) <= Len(events)
    BY <1>1 DEF TollInv, EToll!TypeOK
<1>3. BufSize \in Nat \ {0} /\ PipeCap \in Nat /\ MaxCars \in Nat /\ MsgLen \in Nat \ {0, 1}
    BY DEF EToll!ETollAssumption
<1>4. len[l] \in 0 .. BufSize /\ pipe[l] \in Seq(Cells) /\ sent[l] \in Nat
    BY <1>2, <1>3 DEF TollInv, EToll!TypeOK
<1>5. n \in 0 .. BufSize /\ n <= Len(pipe[l]) /\ b \in [1 .. BufSize -> Cells]
    BY <1>2, ReadCells
<1> HIDE DEF l, n, b, rest
<1>6. rest \in Seq(Cells) /\ Len(rest) <= Len(pipe[l])
  <2>1. PICK p \in Seq(Cells) : p = pipe[l]
    BY <1>4
  <2>2. rest = SubSeq(p, n + 1, Len(p)) /\ n \in Nat
    BY <1>3, <1>5, <2>1 DEF rest
  <2>3. /\ SubSeq(p, n + 1, Len(p)) \in Seq(Cells)
        /\ Len(SubSeq(p, n + 1, Len(p))) = IF n + 1 <= Len(p) THEN Len(p) - (n + 1) + 1 ELSE 0
    BY <2>2, SubSeqProperties
  <2> QED
    BY <2>1, <2>2, <2>3
<1>7. total \in Nat
    BY <1>3, <1>4, <1>5
<1> HIDE DEF total
<1>8. ~(total > BufSize) =>
         /\ EToll!Remaining(b, total) \in 0 .. BufSize
         /\ EToll!Moved(b, total) \in [1 .. BufSize -> Cells]
  <2> SUFFICES ASSUME ~(total > BufSize)
               PROVE  EToll!Remaining(b, total) \in 0 .. BufSize
                      /\ EToll!Moved(b, total) \in [1 .. BufSize -> Cells]
    OBVIOUS
  <2>1. total \in 0 .. BufSize
    BY <1>3, <1>7
  <2>2. /\ EToll!Remaining(b, total) \in 0 .. total
        /\ EToll!Moved(b, total) \in [1 .. BufSize -> Cells]
    BY <1>5, <2>1, MovedCells
  <2> QED
    BY <1>3, <2>1, <2>2
<1>9. len' \in [Lanes -> 0 .. BufSize] /\ buf' \in [Lanes -> [1 .. BufSize -> Cells]]
    BY <1>1, <1>2, <1>8 DEF TollInv, EToll!TypeOK
<1>10. pipe' \in [Lanes -> Seq(Cells)] /\ \A k \in Lanes : Len(pipe'[k]) <= PipeCap
  <2>1. \A k \in Lanes : pipe'[k] = IF k = l THEN rest ELSE pipe[k]
    BY <1>1 DEF TollInv
  <2>2. \A k \in Lanes : Len(pipe[k]) \in Nat /\ Len(pipe[k]) <= PipeCap
    BY DEF TollInv, EToll!TypeOK
  <2>3. Len(rest) \in Nat /\ Len(rest) <= PipeCap
    BY <1>2, <1>3, <1>6, <2>2
  <2> QED
    BY <1>1, <1>6, <2>1, <2>2, <2>3 DEF TollInv
<1>11. logged' = [k \in Lanes |-> logged'[k]]
    BY <1>1 DEF TollInv
<1>12. cut' \subseteq Lanes /\ cut \subseteq cut' /\ overrun' \in BOOLEAN
    BY <1>1, <1>2 DEF TollInv, EToll!TypeOK
<1>13. EToll!TypeOK'
  <2>1. EToll!Cardinality(Lanes) \in Nat /\ Len(events) <= EToll!Cardinality(Lanes)
    <3>1. Cardinality(Lanes) \in Nat
      BY FS_CardinalityType DEF EToll!ETollAssumption, EToll!IsFiniteSet, IsFiniteSet
    <3> QED
      BY <3>1 DEF TollInv, EToll!TypeOK, EToll!Cardinality, Cardinality
  <2>2. events' \in Seq(Lanes) /\ Len(events') <= EToll!Cardinality(Lanes)
    BY <1>1, <1>2, <2>1 DEF TollInv, EToll!TypeOK
  <2>3. \A k \in Lanes : DOMAIN buf'[k] = 1 .. BufSize
    BY <1>9
  <2> QED
    BY <1>1, <1>9, <1>10, <1>12, <2>2, <2>3 DEF TollInv, EToll!TypeOK
<1>14. l \in cut \/ Exact(l)
    BY <1>1, <1>2 DEF TollInv
<1>15. overrun' => cut' # {}
  <2> SUFFICES ASSUME overrun', l \notin cut PROVE FALSE
    BY <1>12
  <2>1. total > BufSize
    BY <1>1
  <2>2. len[l] = 0
    BY <1>14 DEF Exact
  <2>3. total = n
    BY <1>5, <2>2, <1>3 DEF total
  <2> QED
    BY <1>3, <1>5, <2>1, <2>3
<1>16. ASSUME NEW k \in Lanes PROVE k \in cut' \/ overrun' \/ Exact(k)'
  <2> SUFFICES ASSUME k \notin cut', ~overrun' PROVE Exact(k)'
    OBVIOUS
  <2>1. k \notin cut /\ ~(total > BufSize)
    BY <1>1, <1>12
  <2>2. PICK m \in 0 .. sent[k] :
            logged[k] = Lines(m) /\ len[k] = 0 /\ Packed(pipe[k], m, sent[k])
    BY <1>1, <2>1 DEF TollInv, Exact
  <2>3. CASE k # l
    <3>1. logged'[k] = logged[k] /\ len'[k] = len[k] /\ pipe'[k] = pipe[k] /\ sent'[k] = sent[k]
      BY <1>1, <2>1, <2>3 DEF TollInv, EToll!TypeOK
    <3> QED
      BY <2>2, <3>1 DEF Exact
  <2>4. CASE k = l
    <3>1. n = 0 \/ EToll!IsNewline(b[n])
      BY <1>1, <1>3, <1>5, <2>4
    <3>2. total = n
      BY <1>3, <1>5, <2>2, <2>4 DEF total
    <3>3. PICK q \in 0 .. sent[l] - m : ManyLines(b, n, m, q)
      <4>1. PICK N, B : N = n /\ B = b
        OBVIOUS
      <4>2. m \in 0 .. sent[l] /\ Packed(pipe[l], m, sent[l])
        BY <2>2, <2>4
      <4>3. N = EToll!Least(Len(pipe[l]), BufSize) /\ B = EToll!Filled(l, N)
        BY <4>1 DEF n, b
      <4>4. N = 0 \/ EToll!IsNewline(B[N])
        BY <3>1, <4>1
      <4>5. \E q \in 0 .. sent[l] - m : ManyLines(B, N, m, q)
        BY <1>2, <4>2, <4>3, <4>4, ReadsWhole
      <4> QED
        BY <4>1, <4>5
    <3>4. Packed(rest, m + q, sent[l])
      BY <1>4, <2>2, <2>4, <3>3, PackedRest DEF rest, ManyLines
    <3>5. m \in Nat /\ q \in Nat /\ m + q \in 0 .. sent[l]
      BY <1>4, <2>2, <2>4
    <3>6. logged'[l] = Lines(m + q)
      <4>1. logged'[l] = logged[l] \o EToll!LinesIn(b, n)
        BY <1>1, <1>2, <2>1, <3>2 DEF TollInv
      <4> QED
        BY <2>2, <2>4, <3>3, <3>5, <4>1, LinesMore DEF ManyLines
    <3>7. len'[l] = 0 /\ pipe'[l] = rest /\ sent'[l] = sent[l]
      BY <1>1, <1>2, <2>1, <3>2, <3>3 DEF TollInv, EToll!TypeOK, ManyLines
    <3> QED
      BY <2>4, <3>4, <3>5, <3>6, <3>7 DEF Exact
  <2> QED
    BY <2>3, <2>4
<1> QED
    BY <1>9, <1>10, <1>11, <1>13, <1>15, <1>16 DEF TollInv

\* Every step of the toll keeps the invariant.
LEMMA TollStep ==
    EToll!ETollAssumption /\ TollInv /\ [EToll!Next]_toll => TollInv'
<1> SUFFICES ASSUME EToll!ETollAssumption, TollInv, [EToll!Next]_toll PROVE TollInv'
    OBVIOUS
<1>1. CASE UNCHANGED toll
    BY <1>1 DEF TollInv, EToll!TypeOK, Exact, toll
<1>2. CASE EToll!Quiet
    BY <1>2 DEF TollInv, EToll!TypeOK, Exact, EToll!Quiet, EToll!vars
<1> QED
    BY <1>1, <1>2, PayInv, EpollInv, HandleInv DEF EToll!Next, EToll!Booth

\* The invariant is what the property says.
LEMMA TollIsExact == EToll!ETollAssumption /\ TollInv => ExactUnlessCut
<1> SUFFICES ASSUME EToll!ETollAssumption, TollInv PROVE ExactUnlessCut
    OBVIOUS
<1>1. ASSUME NEW l \in Lanes, Exact(l)
      PROVE  /\ Len(logged[l]) <= sent[l]
             /\ logged[l] = [c \in 1 .. Len(logged[l]) |-> EToll!Line(c)]
             /\ len[l] = 0
             /\ EToll!Holds(l, Len(logged[l]) + 1)
  <2>1. sent[l] \in Nat
    BY DEF TollInv, EToll!TypeOK, EToll!ETollAssumption
  <2>2. PICK m \in 0 .. sent[l] :
            logged[l] = Lines(m) /\ len[l] = 0 /\ Packed(pipe[l], m, sent[l])
    BY <1>1 DEF Exact
  <2>3. Len(logged[l]) = m /\ m \in Nat
    BY <2>1, <2>2 DEF Lines
  <2>4. Len(pipe[l]) = MsgLen * (sent[l] - (m + 1) + 1)
    <3>1. sent[l] - (m + 1) + 1 = sent[l] - m
      BY <2>1, <2>3
    <3> QED
      BY <2>2, <3>1 DEF Packed, Width
  <2>5. ASSUME NEW c \in m + 1 .. sent[l], NEW k \in 1 .. MsgLen
        PROVE  pipe[l][MsgLen * (c - (m + 1)) + k] = EToll!Cell(c, k)
    <3>1. c - (m + 1) \in 0 .. sent[l] - m - 1 /\ m + 1 + (c - (m + 1)) = c
      BY <2>1, <2>3
    <3>2. pipe[l][Width(c - (m + 1)) + k] = EToll!Cell(c, k)
      BY <2>2, <3>1 DEF Packed
    <3> QED
      BY <3>2 DEF Width
  <2>6. EToll!Holds(l, m + 1)
    BY <2>4, <2>5 DEF EToll!Holds
  <2> QED
    BY <2>2, <2>3, <2>6 DEF Lines
<1> QED
    BY <1>1 DEF TollInv, ExactUnlessCut, EToll!ExactUnlessCut

\* Whatever the lanes send and however the booth's reads fall, a lane whose reads all ended
\* with a line has its payments in the log, in order, and the rest in its FIFO.
THEOREM UncutIsExact == ProcSpec => []ExactUnlessCut
<1>1. ProcInit => TollInv
    BY InitToll, MCProcessesAssumption DEF ProcInit
<1>2. TollInv /\ [ProcNext]_allvars => TollInv'
    BY TollStep, MCProcessesAssumption DEF ProcNext, Toll, Game, Trade, Kill, allvars, toll
<1>3. TollInv => ExactUnlessCut
    BY TollIsExact, MCProcessesAssumption
<1> QED
    BY <1>1, <1>2, <1>3, PTL DEF ProcSpec

----------------------------------------------------------------------------
\* Whichever program the run has chosen, the traders' part of it is a run of the traders.
LEMMA TradersRun == ProcSpec => Spec
  <1>1. ProcInit => Init
    BY DEF ProcInit
  <1>2. [ProcNext]_allvars => [Next]_vars
    BY DEF ProcNext, Toll, Game, Trade, Kill, allvars, vars
  <1> QED
    BY <1>1, <1>2, PTL DEF ProcSpec, Spec

\* Whichever of the programs runs, its property holds for ever: the game stays fair, every
\* order of a trader is up to date unless its news is on the way, the program of the
\* signals ends on its sequence only, and the toll's lanes are exact unless cut.
THEOREM AllSafe ==
    ProcSpec => [](FairGame /\ UpToDateUnlessLate /\ SequenceEnds /\ ExactUnlessCut)
  BY TradersRun, NothingMissed, Fair, EndsOnItsSequence, UncutIsExact, PTL
============================================================================
