--------------------------- MODULE ListOrderProofs ---------------------------
(***************************************************************************)
(* Facts that do not depend on one component: what a walk along a list     *)
(* visits, by induction over sets of natural numbers; what is in a channel *)
(* of packets; and that a channel keeps the order of the messages whose    *)
(* packets travel in it.                                                   *)
(***************************************************************************)
EXTENDS ListOrder, Sequences, FiniteSetTheorems, SequenceTheorems,
        WellFoundedInduction, TLAPS

(* Every non-empty set of naturals has a least element: the intervals      *)
(* 0 .. x-1 below its members are finite sets, and inclusion between finite *)
(* sets is well founded.                                                   *)
LEMMA LeastElement ==
  ASSUME NEW S \in SUBSET Nat, S # {}
  PROVE  \E x \in S : \A y \in S : x <= y
<1> DEFINE T == {0 .. (x - 1) : x \in S}
<1>1. T \subseteq FiniteSubsetsOf(Nat) /\ T # {}
  <2>1. SUFFICES ASSUME NEW x \in S
                 PROVE  0 .. (x - 1) \in FiniteSubsetsOf(Nat)
    OBVIOUS
  <2>2. IsFiniteSet(0 .. (x - 1))
    BY FS_Interval
  <2> QED
    BY <2>2 DEF FiniteSubsetsOf
<1>2. IsWellFoundedOn(StrictSubsetOrdering(Nat), FiniteSubsetsOf(Nat))
  BY FS_StrictSubsetOrderingWellFounded
<1>3. PICK t \in T : \A u \in T : ~ (<<u, t>> \in StrictSubsetOrdering(Nat))
  <2> HIDE DEF T
  <2> QED
    BY <1>1, <1>2, WFMin, Zenon
<1>4. PICK x \in S : t = 0 .. (x - 1)
  BY <1>3
<1>5. ASSUME NEW y \in S
      PROVE  x <= y
  <2>1. SUFFICES ASSUME y < x
                 PROVE  FALSE
    OBVIOUS
  <2>2. 0 .. (y - 1) \in T
    OBVIOUS
  <2>3. /\ (0 .. (y - 1)) \subseteq (0 .. (x - 1))
        /\ y \in 0 .. (x - 1)
        /\ y \notin 0 .. (y - 1)
    BY <2>1
  <2>4. (0 .. (y - 1)) \subseteq Nat /\ (0 .. (x - 1)) \subseteq Nat
    OBVIOUS
  <2>5. <<0 .. (y - 1), 0 .. (x - 1)>> \in StrictSubsetOrdering(Nat)
    BY <2>3, <2>4 DEF StrictSubsetOrdering
  <2> QED
    BY <2>2, <2>5, <1>3, <1>4
<1> QED
  BY <1>5

(* Induction over the naturals, for a set in place of a predicate.         *)
LEMMA SetInduction ==
  ASSUME NEW S, 0 \in S, \A n \in Nat : n \in S => n + 1 \in S
  PROVE  Nat \subseteq S
<1>1. SUFFICES ASSUME Nat \ S # {}
               PROVE  FALSE
  OBVIOUS
<1>2. PICK x \in Nat \ S : \A y \in Nat \ S : x <= y
  BY <1>1, LeastElement
<1>3. x - 1 \in Nat /\ x - 1 \in S
  BY <1>2
<1> QED
  BY <1>2, <1>3

(* The positions of a list are finitely many.                              *)
LEMMA PositionsFinite ==
  ASSUME NEW L \in Nat, NEW S \in SUBSET (1 .. L)
  PROVE  IsFiniteSet(S) /\ Cardinality(S) \in Nat
<1>1. IsFiniteSet(1 .. L)
  BY FS_Interval
<1>2. IsFiniteSet(S)
  BY <1>1, FS_Subset
<1> QED
  BY <1>2, FS_CardinalityType

(* The n-th position of a set of positions exists, for every n up to its   *)
(* size: the walk finds each of them.                                      *)
LEMMA RankIsOnto ==
  ASSUME NEW L \in Nat, NEW S \in SUBSET (1 .. L), NEW n \in 1 .. Cardinality(S)
  PROVE  \E i \in S : Rank(S, i) = n
<1> DEFINE Good == {l \in Nat : \A P \in SUBSET (1 .. l) :
                      \A k \in 1 .. Cardinality(P) : \E i \in P : Rank(P, i) = k}
<1>1. 0 \in Good
  <2>1. ASSUME NEW P \in SUBSET (1 .. 0)
        PROVE  Cardinality(P) = 0
    <3>1. P = {}
      OBVIOUS
    <3> QED
      BY <3>1, FS_EmptySet
  <2> QED
    BY <2>1
<1>2. ASSUME NEW l \in Nat, l \in Good
      PROVE  l + 1 \in Good
  <2>1. SUFFICES ASSUME NEW P \in SUBSET (1 .. (l + 1)),
                        NEW k \in 1 .. Cardinality(P)
                 PROVE  \E i \in P : Rank(P, i) = k
    OBVIOUS
  <2> DEFINE Q == P \ {l + 1}
  <2>2. IsFiniteSet(P) /\ Cardinality(P) \in Nat
    <3>1. l + 1 \in Nat
      OBVIOUS
    <3> QED
      BY <3>1, PositionsFinite, Zenon
  <2>3. Q \in SUBSET (1 .. l)
    BY <2>1
  <2>4. CASE k \in 1 .. Cardinality(Q)
    <3>1. PICK i \in Q : Rank(Q, i) = k
      BY <1>2, <2>3, <2>4
    <3>2. {j \in P : j <= i} = {j \in Q : j <= i}
      BY <2>3
    <3> QED
      BY <3>1, <3>2 DEF Rank
  <2>5. CASE k \notin 1 .. Cardinality(Q)
    <3>1. /\ IsFiniteSet(Q)
          /\ Cardinality(Q) = IF l + 1 \in P THEN Cardinality(P) - 1
                                             ELSE Cardinality(P)
      BY <2>2, FS_RemoveElement
    <3>2. l + 1 \in P /\ k = Cardinality(P)
      BY <2>2, <2>5, <3>1
    <3>3. \A j \in P : j <= l + 1
      BY <2>1
    <3>4. {j \in P : j <= l + 1} = P
      BY <3>3, Zenon
    <3> QED
      BY <3>2, <3>4 DEF Rank
  <2> QED
    BY <2>4, <2>5
<1>3. Nat \subseteq Good
  <2> HIDE DEF Good
  <2> QED
    BY <1>1, <1>2, SetInduction
<1> QED
  BY <1>3

(* InOrder(S) lists members of S only.                                     *)
LEMMA InOrderInSet ==
  ASSUME NEW L \in Nat, NEW S \in SUBSET (1 .. L), NEW n \in 1 .. Cardinality(S)
  PROVE  InOrder(S)[n] \in S
<1>1. \E i \in S : Rank(S, i) = n
  BY RankIsOnto
<1>2. InOrder(S)[n] = CHOOSE i \in S : Rank(S, i) = n
  BY DEF InOrder
<1> QED
  BY <1>1, <1>2

(* ... each of them once.                                                  *)
LEMMA InOrderDiffers ==
  ASSUME NEW L \in Nat, NEW S \in SUBSET (1 .. L),
         NEW n \in 1 .. Cardinality(S), NEW k \in 1 .. Cardinality(S),
         InOrder(S)[n] = InOrder(S)[k]
  PROVE  n = k
<1>1. ASSUME NEW l \in 1 .. Cardinality(S)
      PROVE  Rank(S, InOrder(S)[l]) = l
  <2>1. \E i \in S : Rank(S, i) = l
    BY RankIsOnto
  <2>2. InOrder(S)[l] = CHOOSE i \in S : Rank(S, i) = l
    BY DEF InOrder
  <2> QED
    BY <2>1, <2>2
<1> QED
  BY <1>1

(* ... and all of them.                                                    *)
LEMMA InOrderOnto ==
  ASSUME NEW L \in Nat, NEW S \in SUBSET (1 .. L), NEW i \in S
  PROVE  \E n \in 1 .. Cardinality(S) : InOrder(S)[n] = i
<1> DEFINE D == 1 .. Cardinality(S)
<1>1. IsFiniteSet(S) /\ Cardinality(S) \in Nat
  BY PositionsFinite
<1>2. Cardinality(D) = Cardinality(S)
  BY <1>1, FS_Interval
<1>3. InOrder(S) \in Injection(D, S)
  <2>1. InOrder(S) \in [D -> S]
    <3>1. InOrder(S) = [n \in D |-> InOrder(S)[n]]
      BY DEF InOrder
    <3> QED
      BY <3>1, InOrderInSet
  <2>2. ASSUME NEW n \in D, NEW k \in D, InOrder(S)[n] = InOrder(S)[k]
        PROVE  n = k
    BY <2>2, InOrderDiffers
  <2> HIDE DEF D
  <2> QED
    BY <2>1, <2>2 DEF Injection, IsInjective
<1>4. InOrder(S) \in Surjection(D, S)
  BY <1>1, <1>2, <1>3, FS_Injection
<1> QED
  BY <1>4 DEF Surjection

-----------------------------------------------------------------------------
(* Channels.                                                               *)

\* The packets travelling in a channel, whatever their order
Packets(wire) == {wire[i] : i \in DOMAIN wire}

(* Receiving takes the head of a channel off.                              *)
LEMMA TailElements ==
  ASSUME NEW S, NEW s \in Seq(S), s # <<>>
  PROVE  /\ Tail(s) \in Seq(S)
         /\ Head(s) \in S
         /\ Head(s) = s[1] /\ 1 \in DOMAIN s
         /\ \A i \in DOMAIN Tail(s) : \E j \in DOMAIN s : Tail(s)[i] = s[j]
<1>1. Len(s) \in Nat /\ Len(s) > 0 /\ DOMAIN s = 1 .. Len(s)
  BY EmptySeq, LenProperties
<1>2. Tail(s) \in Seq(S) /\ Head(s) = s[1] /\ Head(s) \in S
  BY <1>1
<1>3. ASSUME NEW i \in DOMAIN Tail(s)
      PROVE  Tail(s)[i] = s[i + 1] /\ i + 1 \in DOMAIN s
  BY <1>1
<1> QED
  BY <1>1, <1>2, <1>3

LEMMA PacketsOf ==
  ASSUME NEW wire, NEW i \in DOMAIN wire
  PROVE  wire[i] \in Packets(wire)
BY DEF Packets

LEMMA PacketsOfTail ==
  ASSUME NEW S, NEW s \in Seq(S), s # <<>>
  PROVE  /\ Tail(s) \in Seq(S)
         /\ Head(s) \in Packets(s)
         /\ Packets(Tail(s)) \subseteq Packets(s)
<1>1. /\ Tail(s) \in Seq(S) /\ Head(s) = s[1] /\ 1 \in DOMAIN s
      /\ \A i \in DOMAIN Tail(s) : \E j \in DOMAIN s : Tail(s)[i] = s[j]
  BY TailElements
<1> QED
  BY <1>1 DEF Packets

(* The head is older than every packet of the tail.                        *)
LEMMA TailIsLater ==
  ASSUME NEW S, NEW s \in Seq(S), s # <<>>, NEW q \in Packets(Tail(s))
  PROVE  \E j \in DOMAIN s : 1 < j /\ 1 \in DOMAIN s /\ s[j] = q /\ s[1] = Head(s)
<1>1. PICK i \in DOMAIN Tail(s) : q = Tail(s)[i]
  BY DEF Packets
<1>2. Len(s) \in Nat /\ Len(s) > 0 /\ DOMAIN s = 1 .. Len(s) /\ Head(s) = s[1]
  BY EmptySeq, LenProperties
<1>3. i \in Nat /\ i > 0 /\ Tail(s)[i] = s[i + 1] /\ i + 1 \in DOMAIN s
  BY <1>1, <1>2
<1>4. 1 < i + 1
  BY <1>3
<1> QED
  BY <1>1, <1>2, <1>3, <1>4

(* A packet at the end of a channel is younger than all the others.        *)
LEMMA Joined ==
  ASSUME NEW S, NEW s \in Seq(S), NEW t \in Seq(S)
  PROVE  /\ s \o t \in Seq(S)
         /\ Packets(s \o t) \subseteq Packets(s) \cup Packets(t)
         /\ \A i, j \in DOMAIN (s \o t) : i < j =>
              \/ i \in DOMAIN s /\ j \in DOMAIN s
                 /\ (s \o t)[i] = s[i] /\ (s \o t)[j] = s[j]
              \/ (s \o t)[i] \in Packets(s) /\ (s \o t)[j] \in Packets(t)
              \/ \E k, l \in DOMAIN t :
                   k < l /\ (s \o t)[i] = t[k] /\ (s \o t)[j] = t[l]
<1> DEFINE u == s \o t
<1>1. /\ Len(s) \in Nat /\ Len(t) \in Nat /\ u \in Seq(S)
      /\ DOMAIN s = 1 .. Len(s) /\ DOMAIN t = 1 .. Len(t)
      /\ DOMAIN u = 1 .. (Len(s) + Len(t))
  OBVIOUS
<1>2. ASSUME NEW i \in DOMAIN u
      PROVE  \/ i \in DOMAIN s /\ i <= Len(s) /\ u[i] = s[i]
             \/ i > Len(s) /\ i - Len(s) \in DOMAIN t /\ u[i] = t[i - Len(s)]
  <2>1. CASE i <= Len(s)
    BY <1>1, <2>1
  <2>2. CASE ~ (i <= Len(s))
    BY <1>1, <2>2
  <2> QED
    BY <2>1, <2>2
<1> HIDE DEF u
<1>3. Packets(u) \subseteq Packets(s) \cup Packets(t)
  BY <1>2 DEF Packets
<1>4. ASSUME NEW i \in DOMAIN u, NEW j \in DOMAIN u, i < j
      PROVE  \/ i \in DOMAIN s /\ j \in DOMAIN s /\ u[i] = s[i] /\ u[j] = s[j]
             \/ u[i] \in Packets(s) /\ u[j] \in Packets(t)
             \/ \E k, l \in DOMAIN t : k < l /\ u[i] = t[k] /\ u[j] = t[l]
  <2>1. CASE j <= Len(s)
    BY <1>1, <1>2, <1>4, <2>1
  <2>2. CASE ~ (j <= Len(s)) /\ i <= Len(s)
    <3>1. u[i] = s[i] /\ i \in DOMAIN s
      BY <1>1, <1>2, <2>2
    <3>2. u[j] = t[j - Len(s)] /\ j - Len(s) \in DOMAIN t
      BY <1>1, <1>2, <2>2
    <3> QED
      BY <3>1, <3>2, PacketsOf
  <2>3. CASE ~ (i <= Len(s)) /\ ~ (j <= Len(s))
    <3>1. u[i] = t[i - Len(s)] /\ i - Len(s) \in DOMAIN t
      BY <1>1, <1>2, <2>3
    <3>2. u[j] = t[j - Len(s)] /\ j - Len(s) \in DOMAIN t
      BY <1>1, <1>2, <2>3
    <3>3. i - Len(s) < j - Len(s)
      BY <1>1, <1>4
    <3> QED
      BY <3>1, <3>2, <3>3
  <2> QED
    BY <1>1, <2>1, <2>2, <2>3
<1> QED
  BY <1>1, <1>3, <1>4 DEF u

LEMMA OneElement ==
  ASSUME NEW S, NEW q \in S
  PROVE  <<q>> \in Seq(S) /\ Packets(<<q>>) = {q}
<1>1. <<q>> \in Seq(S) /\ DOMAIN <<q>> = {1} /\ <<q>>[1] = q
  OBVIOUS
<1> QED
  BY <1>1 DEF Packets

-----------------------------------------------------------------------------
(* The order of the messages in an exchange.  Each step of it is a stage,  *)
(* a kind of packet in one of the channels: messages enter in order, a     *)
(* packet never overtakes the first packet of an older message of the same *)
(* QoS, and so they leave in order.                                        *)

\* The older messages of the same QoS
Earlier(qos, k) == {i \in 1 .. (k - 1) : qos[i] = qos[k]}

On(wire, type, k) == \E n \in DOMAIN wire : wire[n].type = type /\ wire[n].mid = k

\* Before each packet of the stage there is one of every older message that has
\* not yet passed the stage.
Follows(wire, type, done, qos) ==
  \A n \in DOMAIN wire : wire[n].type = type =>
    \A i \in Earlier(qos, wire[n].mid) :
      \/ i \in done
      \/ \E m \in DOMAIN wire : m < n /\ wire[m].type = type /\ wire[m].mid = i

Stage(wire, type, entered, done, qos) ==
  /\ \A k \in entered : k \in done \/ On(wire, type, k)
  /\ Follows(wire, type, done, qos)
  /\ \A k \in done : Earlier(qos, k) \subseteq done

(* The head of the channel has overtaken no one.                           *)
LEMMA HeadFollows ==
  ASSUME NEW S, NEW s \in Seq(S), s # <<>>, NEW type, NEW done, NEW qos,
         Follows(s, type, done, qos), Head(s).type = type
  PROVE  Earlier(qos, Head(s).mid) \subseteq done
<1>1. 1 \in DOMAIN s /\ Head(s) = s[1] /\ \A m \in DOMAIN s : ~ (m < 1)
  BY EmptySeq, LenProperties
<1> QED
  BY <1>1 DEF Follows

LEMMA StageRead ==
  ASSUME NEW S, NEW s \in Seq(S), s # <<>>, NEW type, NEW qos,
         NEW in, NEW done, Stage(s, type, in, done, qos),
         NEW inAfter, inAfter \subseteq in, NEW doneAfter, done \subseteq doneAfter,
         \A k \in doneAfter : k \in done \/ (Head(s).type = type /\ Head(s).mid = k),
         Head(s).type = type => Head(s).mid \in doneAfter
  PROVE  Stage(Tail(s), type, inAfter, doneAfter, qos)
<1>1. /\ Len(s) \in Nat /\ DOMAIN s = 1 .. Len(s) /\ Head(s) = s[1] /\ 1 \in DOMAIN s
      /\ Len(s) > 0
  BY EmptySeq, LenProperties
<1>2. /\ DOMAIN Tail(s) = 1 .. (Len(s) - 1)
      /\ \A n \in DOMAIN Tail(s) : n + 1 \in DOMAIN s /\ Tail(s)[n] = s[n + 1]
  BY <1>1
<1>3. \A n \in DOMAIN s : n = 1 \/ (n - 1 \in DOMAIN Tail(s) /\ Tail(s)[n - 1] = s[n])
  BY <1>1, <1>2
<1>4. ASSUME NEW k \in inAfter
      PROVE  k \in doneAfter \/ On(Tail(s), type, k)
  <2>1. k \in done \/ On(s, type, k)
    BY DEF Stage
  <2>2. ASSUME NEW n \in DOMAIN s, s[n].type = type, s[n].mid = k
        PROVE  k \in doneAfter \/ On(Tail(s), type, k)
    BY <1>1, <1>3, <2>2 DEF On
  <2> QED
    BY <2>1, <2>2 DEF On
<1>5. ASSUME NEW n \in DOMAIN Tail(s), Tail(s)[n].type = type,
             NEW i \in Earlier(qos, Tail(s)[n].mid), i \notin doneAfter
      PROVE  \E m \in DOMAIN Tail(s) : m < n /\ Tail(s)[m].type = type /\ Tail(s)[m].mid = i
  <2>1. PICK m \in DOMAIN s : m < n + 1 /\ s[m].type = type /\ s[m].mid = i
    BY <1>2, <1>5 DEF Stage, Follows
  <2>2. m # 1
    BY <1>1, <1>5, <2>1
  <2>3. m - 1 \in DOMAIN Tail(s) /\ Tail(s)[m - 1] = s[m]
    BY <1>3, <2>1, <2>2
  <2>4. m - 1 < n
    BY <1>1, <1>2, <2>1
  <2> QED
    BY <2>1, <2>3, <2>4
<1>6. ASSUME NEW k \in doneAfter
      PROVE  Earlier(qos, k) \subseteq doneAfter
  <2>1. CASE k \in done
    BY <2>1 DEF Stage
  <2>2. CASE Head(s).type = type /\ Head(s).mid = k
    BY <2>2, HeadFollows DEF Stage
  <2> QED
    BY <2>1, <2>2
<1> QED
  BY <1>4, <1>5, <1>6 DEF Stage, Follows

LEMMA StageWrite ==
  ASSUME NEW S, NEW s \in Seq(S), NEW ps \in Seq(S), NEW type, NEW qos,
         NEW in, NEW done, Stage(s, type, in, done, qos),
         \A p \in Packets(ps) : p.type = type => Earlier(qos, p.mid) \subseteq in,
         NEW inAfter,
         \A k \in inAfter : k \in in \/ \E p \in Packets(ps) : p.type = type /\ p.mid = k
  PROVE  Stage(s \o ps, type, inAfter, done, qos)
<1> DEFINE u == s \o ps
<1>1. /\ Len(s) \in Nat /\ Len(ps) \in Nat /\ u \in Seq(S)
      /\ DOMAIN s = 1 .. Len(s) /\ DOMAIN ps = 1 .. Len(ps)
      /\ DOMAIN u = 1 .. (Len(s) + Len(ps))
  OBVIOUS
<1>2. /\ \A n \in DOMAIN s : n \in DOMAIN u /\ u[n] = s[n]
      /\ \A n \in DOMAIN ps : n + Len(s) \in DOMAIN u /\ u[n + Len(s)] = ps[n]
  BY <1>1
<1>3. ASSUME NEW n \in DOMAIN u
      PROVE  \/ n \in DOMAIN s /\ u[n] = s[n]
             \/ n > Len(s) /\ u[n] \in Packets(ps)
  <2>1. CASE n <= Len(s)
    BY <1>1, <2>1
  <2>2. CASE ~ (n <= Len(s))
    <3>1. n - Len(s) \in DOMAIN ps /\ u[n] = ps[n - Len(s)]
      BY <1>1, <2>2
    <3> QED
      BY <1>1, <2>2, <3>1, PacketsOf
  <2> QED
    BY <2>1, <2>2
<1> HIDE DEF u
<1>4. \A k : On(s, type, k) => On(u, type, k)
  BY <1>2 DEF On
<1>5. ASSUME NEW k \in inAfter
      PROVE  k \in done \/ On(u, type, k)
  <2>1. CASE k \in in
    BY <1>4, <2>1 DEF Stage
  <2>2. CASE \E p \in Packets(ps) : p.type = type /\ p.mid = k
    BY <1>2, <2>2 DEF On, Packets
  <2> QED
    BY <2>1, <2>2
<1>6. ASSUME NEW n \in DOMAIN u, u[n].type = type, NEW i \in Earlier(qos, u[n].mid), i \notin done
      PROVE  \E m \in DOMAIN u : m < n /\ u[m].type = type /\ u[m].mid = i
  <2>1. CASE n \in DOMAIN s /\ u[n] = s[n]
    <3>1. PICK m \in DOMAIN s : m < n /\ s[m].type = type /\ s[m].mid = i
      BY <1>6, <2>1 DEF Stage, Follows
    <3> QED
      BY <1>2, <3>1
  <2>2. CASE n > Len(s) /\ u[n] \in Packets(ps)
    <3>1. PICK m \in DOMAIN s : s[m].type = type /\ s[m].mid = i
      BY <1>6, <2>2 DEF Stage, On
    <3>2. m < n
      BY <1>1, <2>2, <3>1
    <3> QED
      BY <1>2, <3>1, <3>2
  <2> QED
    BY <1>3, <2>1, <2>2
<1>7. Stage(u, type, inAfter, done, qos)
  BY <1>5, <1>6 DEF Stage, Follows
<1> QED
  BY <1>7 DEF u

LEMMA StageSame ==
  ASSUME NEW wire, NEW type, NEW qos, NEW in, NEW done, Stage(wire, type, in, done, qos),
         NEW inAfter, inAfter \subseteq in
  PROVE  Stage(wire, type, inAfter, done, qos)
BY DEF Stage

(* publish() adds a message that is younger than all the others.           *)
LEMMA StageAccept ==
  ASSUME NEW wire, NEW type, NEW in, NEW done, NEW qos \in Seq(0 .. 2), NEW q \in 0 .. 2,
         Stage(wire, type, in, done, qos),
         \A p \in Packets(wire) : p.mid \in 1 .. Len(qos),
         \A k \in done : k \in 1 .. Len(qos)
  PROVE  Stage(wire, type, in, done, Append(qos, q))
<1>1. ASSUME NEW k \in 1 .. Len(qos)
      PROVE  Earlier(Append(qos, q), k) = Earlier(qos, k)
  <2>1. Len(qos) \in Nat /\ \A i \in 1 .. Len(qos) : Append(qos, q)[i] = qos[i]
    OBVIOUS
  <2>2. \A i \in 1 .. (k - 1) : i \in 1 .. Len(qos)
    BY <2>1
  <2> QED
    BY <2>1, <2>2 DEF Earlier
<1>2. \A n \in DOMAIN wire : wire[n].mid \in 1 .. Len(qos)
  BY PacketsOf
<1> QED
  BY <1>1, <1>2 DEF Stage, Follows
=============================================================================
