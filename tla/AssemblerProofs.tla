---------------------------- MODULE AssemblerProofs ----------------------------
(***************************************************************************)
(* The joining of AIS sentences, for any keys, any room for messages in    *)
(* hand and messages of any number of sentences.                           *)
(***************************************************************************)
EXTENDS AssemblerHistory, FiniteSetTheorems, SequenceTheorems, TLAPS

(* What Assembler::feed may be given. *)
Sentences == [key: Keys, count: Nat, number: Nat, fill: Nat, of: 0..MaxMessages]

(* Messages in hand, as they should be: each with its first sentences and no others,
   and only one that a sentence can belong to. *)
Sound(ps) ==
    /\ ps \in Seq(Partials) /\ Len(ps) <= PENDING
    /\ \A i, j \in DOMAIN ps : Same(ps[i], ps[j]) => i = j
    /\ \A i \in DOMAIN ps : InOrder(ps[i].payload, ps[i].key, ps[i].count) /\ Len(ps[i].payload) = ps[i].next - 1

-----------------------------------------------------------------------------
(* Of the first numbers, those below one of them; and of those but one. *)
LEMMA Below ==
    ASSUME NEW n \in Nat, NEW i \in 1..n
    PROVE  /\ Cardinality({j \in 1..n : j < i}) = i - 1
           /\ \A x \in (1..n) \ {i} :
                Cardinality({j \in (1..n) \ {x} : j < i}) = IF i < x THEN i - 1 ELSE i - 2
<1>1. {j \in 1..n : j < i} = 1..(i - 1)
  OBVIOUS
<1>2. IsFiniteSet(1..(i - 1)) /\ Cardinality(1..(i - 1)) = i - 1
  <2>1. i - 1 \in Int /\ (1 > i - 1 => i - 1 = 0)
    OBVIOUS
  <2> QED
    BY <2>1, FS_Interval
<1>3. ASSUME NEW x \in (1..n) \ {i}
      PROVE  Cardinality({j \in (1..n) \ {x} : j < i}) = IF i < x THEN i - 1 ELSE i - 2
  <2>1. {j \in (1..n) \ {x} : j < i} = (1..(i - 1)) \ {x}
    OBVIOUS
  <2>2. x \in 1..(i - 1) <=> ~(i < x)
    OBVIOUS
  <2>3. Cardinality((1..(i - 1)) \ {x}) = IF x \in 1..(i - 1) THEN i - 1 - 1 ELSE i - 1
    BY <1>2, FS_RemoveElement
  <2> QED
    BY <2>1, <2>2, <2>3
<1> QED
  BY <1>1, <1>2, <1>3

(* RemoveAt closes the gap. *)
LEMMA OneRemoved ==
    ASSUME NEW S, NEW ps \in Seq(S), NEW x \in DOMAIN ps
    PROVE  /\ RemoveAt(ps, x) \in Seq(S)
           /\ Len(RemoveAt(ps, x)) = Len(ps) - 1
           /\ \A j \in 1..(Len(ps) - 1) :
                RemoveAt(ps, x)[j] = IF j < x THEN ps[j] ELSE ps[j + 1]
<1> DEFINE a == SubSeq(ps, 1, x - 1)
           b == SubSeq(ps, x + 1, Len(ps))
<1>1. x \in 1..Len(ps) /\ Len(ps) \in Nat
  OBVIOUS
<1>2. a \in Seq(S) /\ Len(a) = x - 1 /\ \A j \in 1..(x - 1) : a[j] = ps[j]
  BY <1>1
<1>3. b \in Seq(S) /\ Len(b) = Len(ps) - x /\ \A j \in 1..(Len(ps) - x) : b[j] = ps[x + j]
  BY <1>1
<1> HIDE DEF a, b
<1>4. a \o b \in Seq(S) /\ Len(a \o b) = Len(a) + Len(b)
      /\ \A j \in 1..(Len(a) + Len(b)) : (a \o b)[j] = IF j <= Len(a) THEN a[j] ELSE b[j - Len(a)]
  BY <1>2, <1>3, ConcatProperties
<1>5. RemoveAt(ps, x) = a \o b
  BY DEF RemoveAt, a, b
<1>6. ASSUME NEW j \in 1..(Len(ps) - 1)
      PROVE  (a \o b)[j] = IF j < x THEN ps[j] ELSE ps[j + 1]
  <2>1. j \in Nat /\ Len(a) = x - 1 /\ Len(b) = Len(ps) - x /\ Len(a) + Len(b) = Len(ps) - 1
    BY <1>1, <1>2, <1>3
  <2>2. (a \o b)[j] = IF j <= x - 1 THEN a[j] ELSE b[j - (x - 1)]
    BY <2>1, <1>4
  <2>3. CASE j < x
    <3>1. j <= x - 1 /\ j \in 1..(x - 1)
      BY <1>1, <2>1, <2>3
    <3> QED
      BY <1>2, <2>2, <2>3, <3>1
  <2>4. CASE ~(j < x)
    <3>1. j - (x - 1) \in 1..(Len(ps) - x) /\ x + (j - (x - 1)) = j + 1 /\ ~(j <= x - 1)
      <4> DEFINE l == Len(ps)
      <4>1. l \in Nat /\ x \in Nat /\ x >= 1 /\ j \in Nat /\ j <= l - 1
        BY <1>1, <2>1
      <4> HIDE DEF l
      <4>2. j >= x
        BY <2>4, <4>1
      <4>3. j - (x - 1) \in 1..(l - x)
        BY <4>1, <4>2
      <4>4. x + (j - (x - 1)) = j + 1
        BY <4>1
      <4>5. ~(j <= x - 1)
        BY <4>1, <4>2
      <4> QED
        BY <4>3, <4>4, <4>5 DEF l
    <3>2. b[j - (x - 1)] = ps[x + (j - (x - 1))]
      BY <1>3, <3>1
    <3> QED
      BY <2>2, <2>4, <3>1, <3>2
  <2> QED
    BY <2>3, <2>4
<1>7. Len(a) + Len(b) = Len(ps) - 1
  BY <1>1, <1>2, <1>3
<1> QED
  BY <1>4, <1>5, <1>6, <1>7

(* Which of the first n numbers, less x, comes after m - 1 others. *)
LEMMA NthBut ==
    ASSUME NEW n \in Nat, NEW x \in 1..n, NEW m \in 1..(n - 1)
    PROVE  (CHOOSE i \in (1..n) \ {x} : Cardinality({j \in (1..n) \ {x} : j < i}) = m - 1)
              = IF m < x THEN m ELSE m + 1
<1> DEFINE others == (1..n) \ {x}
           Rank(i) == Cardinality({j \in others : j < i})
           v == IF m < x THEN m ELSE m + 1
<1>1. ASSUME NEW i \in others PROVE Rank(i) = IF i < x THEN i - 1 ELSE i - 2
  <2>1. i \in 1..n /\ x \in (1..n) \ {i}
    OBVIOUS
  <2> QED
    BY <2>1, Below
<1> HIDE DEF Rank
<1>2. v \in others /\ Rank(v) = m - 1
  <2>1. v \in others
    OBVIOUS
  <2>2. v < x => v - 1 = m - 1
    OBVIOUS
  <2>3. ~(v < x) => v - 2 = m - 1
    OBVIOUS
  <2> QED
    BY <1>1, <2>1, <2>2, <2>3
<1>3. ASSUME NEW i \in others, Rank(i) = m - 1 PROVE i = v
  <2>1. m - 1 = IF i < x THEN i - 1 ELSE i - 2
    BY <1>1, <1>3
  <2> QED
    BY <2>1
<1>4. (CHOOSE i \in others : Rank(i) = m - 1) = v
  <2> HIDE DEF others, v
  <2> QED
    BY <1>2, <1>3
<1> QED
  BY <1>4 DEF Rank

(* Which of the first n numbers comes after m - 1 others. *)
LEMMA NthOfAll ==
    ASSUME NEW n \in Nat, NEW m \in 1..n
    PROVE  (CHOOSE i \in 1..n : Cardinality({j \in 1..n : j < i}) = m - 1) = m
<1> DEFINE Rank(i) == Cardinality({j \in 1..n : j < i})
<1>1. ASSUME NEW i \in 1..n PROVE Rank(i) = i - 1
  BY Below
<1> HIDE DEF Rank
<1>2. ASSUME NEW i \in 1..n, Rank(i) = m - 1 PROVE i = m
  BY <1>1, <1>2
<1>3. (CHOOSE i \in 1..n : Rank(i) = m - 1) = m
  BY <1>1, <1>2
<1> QED
  BY <1>3 DEF Rank

(* Of messages in hand at most one is a sentence's: retain leaves them as they are, or
   takes out that one. *)
LEMMA WithoutOne ==
    ASSUME NEW ps, Sound(ps), NEW s
    PROVE  /\ (\A i \in DOMAIN ps : ~Same(ps[i], s)) => Without(ps, s) = ps
           /\ \A x \in DOMAIN ps : Same(ps[x], s) =>
                /\ Without(ps, s) = RemoveAt(ps, x)
                /\ \A i \in DOMAIN ps : Same(ps[i], s) => i = x
<1> DEFINE n == Len(ps)
           others == {i \in DOMAIN ps : ~Same(ps[i], s)}
<1>1. ps \in Seq(Partials) /\ n \in Nat /\ DOMAIN ps = 1..n
  BY DEF Sound
<1>2. Without(ps, s) =
         [m \in 1..Cardinality(others) |->
             ps[CHOOSE i \in others : Cardinality({j \in others : j < i}) = m - 1]]
  BY DEF Without
<1> HIDE DEF n
<1>3. ASSUME \A i \in DOMAIN ps : ~Same(ps[i], s) PROVE Without(ps, s) = ps
  <2>1. others = 1..n
    BY <1>1, <1>3
  <2>2. Cardinality(1..n) = n
    BY <1>1, FS_Interval
  <2> HIDE DEF others
  <2>3. Without(ps, s) = [m \in 1..n |-> ps[CHOOSE i \in 1..n : Cardinality({j \in 1..n : j < i}) = m - 1]]
    BY <1>2, <2>1, <2>2
  <2>4. Without(ps, s) = [m \in 1..n |-> ps[m]]
    BY <1>1, <2>3, NthOfAll
  <2> QED
    BY <1>1, <2>4
<1>4. ASSUME NEW x \in DOMAIN ps, Same(ps[x], s)
      PROVE  /\ Without(ps, s) = RemoveAt(ps, x)
             /\ \A i \in DOMAIN ps : Same(ps[i], s) => i = x
  <2>1. ASSUME NEW i \in DOMAIN ps, Same(ps[i], s) PROVE i = x
    <3>1. Same(ps[i], ps[x])
      BY <1>4, <2>1 DEF Same
    <3> QED
      BY <3>1 DEF Sound
  <2>2. others = (1..n) \ {x} /\ x \in 1..n
    BY <1>1, <1>4, <2>1
  <2>3. Cardinality((1..n) \ {x}) = n - 1
    <3>1. IsFiniteSet(1..n) /\ Cardinality(1..n) = n
      BY <1>1, FS_Interval
    <3> QED
      BY <2>2, <3>1, FS_RemoveElement
  <2> HIDE DEF others
  <2>4. Without(ps, s) =
           [m \in 1..(n - 1) |->
               ps[CHOOSE i \in (1..n) \ {x} : Cardinality({j \in (1..n) \ {x} : j < i}) = m - 1]]
    BY <1>2, <2>2, <2>3
  <2>5. Without(ps, s) = [m \in 1..(n - 1) |-> ps[IF m < x THEN m ELSE m + 1]]
    BY <1>1, <2>2, <2>4, NthBut
  <2>6. /\ RemoveAt(ps, x) \in Seq(Partials) /\ Len(RemoveAt(ps, x)) = n - 1
        /\ \A m \in 1..(n - 1) : RemoveAt(ps, x)[m] = IF m < x THEN ps[m] ELSE ps[m + 1]
    BY <1>1, OneRemoved DEF n
  <2>7. RemoveAt(ps, x) = [m \in 1..(n - 1) |-> ps[IF m < x THEN m ELSE m + 1]]
    <3>1. RemoveAt(ps, x) = [m \in 1..(n - 1) |-> RemoveAt(ps, x)[m]]
      BY <2>6
    <3>2. \A m \in 1..(n - 1) : RemoveAt(ps, x)[m] = ps[IF m < x THEN m ELSE m + 1]
      BY <2>6
    <3> QED
      BY <3>1, <3>2
  <2> QED
    BY <2>1, <2>5, <2>7
<1> QED
  BY <1>3, <1>4

-----------------------------------------------------------------------------
(* ws is what is left of the messages ps in hand without that at x (none, when ps has
   no place x): they keep their order, so that none has more behind it than it had. *)
LeavesOut(ps, ws, x) ==
    /\ Sound(ws) /\ Len(ws) <= Len(ps)
    /\ \A j \in DOMAIN ws : \E i \in DOMAIN ps \ {x} :
          ws[j] = ps[i] /\ Len(ws) - j <= Len(ps) - i
    /\ \A i \in DOMAIN ps \ {x} : \E j \in DOMAIN ws : ws[j] = ps[i]

(* Nothing left out. *)
LEMMA NoneLeftOut == ASSUME NEW ps, Sound(ps), NEW x, x \notin DOMAIN ps PROVE LeavesOut(ps, ps, x)
<1>1. Len(ps) \in Nat /\ DOMAIN ps = 1..Len(ps)
  BY DEF Sound
<1>2. ASSUME NEW j \in DOMAIN ps
      PROVE  \E i \in DOMAIN ps \ {x} : ps[j] = ps[i] /\ Len(ps) - j <= Len(ps) - i
  <2>1. j \in DOMAIN ps \ {x} /\ Len(ps) - j <= Len(ps) - j
    BY <1>1
  <2> QED
    BY <2>1
<1> QED
  BY <1>1, <1>2 DEF LeavesOut

(* One left out. *)
LEMMA OneLeftOut ==
    ASSUME NEW ps, Sound(ps), NEW x \in DOMAIN ps
    PROVE  LeavesOut(ps, RemoveAt(ps, x), x) /\ Len(RemoveAt(ps, x)) = Len(ps) - 1
<1> DEFINE ws == RemoveAt(ps, x)
           n == Len(ps)
           From(j) == IF j < x THEN j ELSE j + 1
<1>1. ps \in Seq(Partials) /\ n \in Nat /\ DOMAIN ps = 1..n /\ x \in 1..n /\ n <= PENDING
  BY DEF Sound
<1>2. ws \in Seq(Partials) /\ Len(ws) = n - 1 /\ \A j \in 1..(n - 1) : ws[j] = ps[From(j)]
  <2>1. /\ ws \in Seq(Partials) /\ Len(ws) = n - 1
        /\ \A j \in 1..(n - 1) : ws[j] = IF j < x THEN ps[j] ELSE ps[j + 1]
    BY <1>1, OneRemoved
  <2> QED
    BY <2>1
<1> HIDE DEF ws, n
<1>3. DOMAIN ws = 1..(n - 1)
  BY <1>1, <1>2
<1>4. ASSUME NEW j \in DOMAIN ws
      PROVE  From(j) \in DOMAIN ps \ {x} /\ ws[j] = ps[From(j)] /\ Len(ws) - j <= n - From(j)
  BY <1>1, <1>2, <1>3
<1>5. ASSUME NEW j \in DOMAIN ws, NEW l \in DOMAIN ws, From(j) = From(l) PROVE j = l
  BY <1>1, <1>3, <1>5
<1>6. ASSUME NEW i \in DOMAIN ps \ {x} PROVE \E j \in DOMAIN ws : From(j) = i
  <2> DEFINE j == IF i < x THEN i ELSE i - 1
  <2>1. j \in 1..(n - 1) /\ From(j) = i
    BY <1>1
  <2> QED
    BY <1>3, <2>1
<1> HIDE DEF From
<1>7. Sound(ws)
  <2>1. ASSUME NEW i \in DOMAIN ws, NEW j \in DOMAIN ws, Same(ws[i], ws[j]) PROVE i = j
    <3>1. From(i) = From(j)
      BY <1>4, <2>1 DEF Sound
    <3> QED
      BY <1>5, <3>1
  <2>2. ASSUME NEW i \in DOMAIN ws
        PROVE  InOrder(ws[i].payload, ws[i].key, ws[i].count) /\ Len(ws[i].payload) = ws[i].next - 1
    BY <1>4 DEF Sound
  <2>3. Len(ws) <= PENDING
    BY <1>1, <1>2, AssemblerAssumption
  <2> QED
    BY <1>2, <2>1, <2>2, <2>3 DEF Sound
<1>8. Len(ws) <= n /\ Len(ws) = n - 1
  BY <1>1, <1>2
<1> QED
  BY <1>4, <1>6, <1>7, <1>8 DEF LeavesOut, ws, n

(* What retain leaves of the messages in hand: all but the sentence's own. *)
LEMMA OwnLeftOut ==
    ASSUME NEW ps, Sound(ps), NEW s
    PROVE  \E x : /\ LeavesOut(ps, Without(ps, s), x)
                  /\ \A i \in DOMAIN ps : Same(ps[i], s) <=> i = x
<1>1. CASE \A i \in DOMAIN ps : ~Same(ps[i], s)
  <2>1. 0 \notin DOMAIN ps
    BY DEF Sound
  <2>2. Without(ps, s) = ps
    BY <1>1, WithoutOne
  <2> QED
    BY <1>1, <2>1, <2>2, NoneLeftOut
<1>2. CASE \E i \in DOMAIN ps : Same(ps[i], s)
  <2>1. PICK x \in DOMAIN ps : Same(ps[x], s)
    BY <1>2
  <2>2. /\ Without(ps, s) = RemoveAt(ps, x)
        /\ \A i \in DOMAIN ps : Same(ps[i], s) => i = x
    BY <2>1, WithoutOne
  <2>3. LeavesOut(ps, Without(ps, s), x)
    BY <2>2, OneLeftOut
  <2> QED
    BY <2>1, <2>2, <2>3
<1> QED
  BY <1>1, <1>2

(* None of them is the sentence's, and all of the others are there. *)
LEMMA RestIsOthers ==
    ASSUME NEW ps, Sound(ps), NEW s
    PROVE  /\ Sound(Without(ps, s)) /\ Len(Without(ps, s)) <= Len(ps)
           /\ \A j \in DOMAIN Without(ps, s) :
                /\ ~Same(Without(ps, s)[j], s)
                /\ \E i \in DOMAIN ps : /\ Without(ps, s)[j] = ps[i]
                                        /\ Len(Without(ps, s)) - j <= Len(ps) - i
           /\ \A i \in DOMAIN ps :
                ~Same(ps[i], s) => \E j \in DOMAIN Without(ps, s) : Without(ps, s)[j] = ps[i]
<1> DEFINE ws == Without(ps, s)
<1>1. PICK x : LeavesOut(ps, ws, x) /\ \A i \in DOMAIN ps : Same(ps[i], s) <=> i = x
  BY OwnLeftOut
<1> HIDE DEF ws
<1>2. ASSUME NEW j \in DOMAIN ws
      PROVE  ~Same(ws[j], s) /\ \E i \in DOMAIN ps : ws[j] = ps[i] /\ Len(ws) - j <= Len(ps) - i
  <2>1. PICK i \in DOMAIN ps \ {x} : ws[j] = ps[i] /\ Len(ws) - j <= Len(ps) - i
    BY <1>1 DEF LeavesOut
  <2> QED
    BY <1>1, <2>1
<1>3. ASSUME NEW i \in DOMAIN ps, ~Same(ps[i], s) PROVE \E j \in DOMAIN ws : ws[j] = ps[i]
  <2>1. i \in DOMAIN ps \ {x}
    BY <1>1, <1>3
  <2> QED
    BY <1>1, <2>1 DEF LeavesOut
<1>4. Sound(ws) /\ Len(ws) <= Len(ps)
  BY <1>1 DEF LeavesOut
<1> QED
  BY <1>2, <1>3, <1>4 DEF ws

-----------------------------------------------------------------------------
(* Room for one message more: the oldest goes when there is none. *)
Room(ps) == IF Len(ps) = PENDING THEN Tail(ps) ELSE ps

(* The oldest is the one taken out by Vec::remove(0). *)
LEMMA TailIsOneRemoved ==
    ASSUME NEW S, NEW ps \in Seq(S), ps # <<>>
    PROVE  Tail(ps) = RemoveAt(ps, 1)
<1> DEFINE n == Len(ps)
<1>1. n \in Nat /\ n >= 1 /\ 1 \in DOMAIN ps
  BY EmptySeq, LenProperties
<1>2. /\ Tail(ps) \in Seq(S) /\ Len(Tail(ps)) = n - 1
      /\ \A j \in 1..(n - 1) : Tail(ps)[j] = ps[j + 1]
  BY HeadTailProperties
<1>3. /\ RemoveAt(ps, 1) \in Seq(S) /\ Len(RemoveAt(ps, 1)) = n - 1
      /\ \A j \in 1..(n - 1) : RemoveAt(ps, 1)[j] = ps[j + 1]
  <2>1. /\ RemoveAt(ps, 1) \in Seq(S) /\ Len(RemoveAt(ps, 1)) = n - 1
        /\ \A j \in 1..(n - 1) : RemoveAt(ps, 1)[j] = IF j < 1 THEN ps[j] ELSE ps[j + 1]
    BY <1>1, OneRemoved
  <2> QED
    BY <2>1
<1> HIDE DEF n
<1>4. Tail(ps) = [j \in 1..(n - 1) |-> Tail(ps)[j]]
  <2> DEFINE t == Tail(ps)
  <2>1. t \in Seq(S) /\ Len(t) = n - 1
    BY <1>2
  <2> HIDE DEF t
  <2>2. t = [j \in 1..(n - 1) |-> t[j]]
    BY <2>1
  <2> QED
    BY <2>2 DEF t
<1>5. RemoveAt(ps, 1) = [j \in 1..(n - 1) |-> RemoveAt(ps, 1)[j]]
  BY <1>3
<1> QED
  BY <1>2, <1>3, <1>4, <1>5

(* There is room then, and nobody lost it but one with PENDING - 1 messages behind. *)
LEMMA RoomIsMade ==
    ASSUME NEW ps, Sound(ps)
    PROVE  /\ Sound(Room(ps)) /\ Len(Room(ps)) < PENDING
           /\ \A j \in DOMAIN Room(ps) : \E i \in DOMAIN ps :
                Room(ps)[j] = ps[i] /\ Len(Room(ps)) - j <= Len(ps) - i
           /\ \A i \in DOMAIN ps :
                Len(ps) - i < PENDING - 1 => \E j \in DOMAIN Room(ps) : Room(ps)[j] = ps[i]
<1>1. ps \in Seq(Partials) /\ Len(ps) \in Nat /\ Len(ps) <= PENDING /\ PENDING \in Nat \ {0}
  BY AssemblerAssumption DEF Sound
<1>2. CASE Len(ps) = PENDING
  <2>1. ps # <<>> /\ 1 \in DOMAIN ps
    BY <1>1, <1>2
  <2>2. Room(ps) = RemoveAt(ps, 1)
    BY <1>1, <1>2, <2>1, TailIsOneRemoved DEF Room
  <2>3. LeavesOut(ps, Room(ps), 1) /\ Len(Room(ps)) = Len(ps) - 1
    BY <2>1, <2>2, OneLeftOut
  <2>4. ASSUME NEW i \in DOMAIN ps, Len(ps) - i < PENDING - 1 PROVE i \in DOMAIN ps \ {1}
    BY <1>1, <1>2, <2>4
  <2>5. Len(Room(ps)) < PENDING
    BY <1>1, <2>3
  <2> HIDE DEF Room
  <2> QED
    BY <2>3, <2>4, <2>5 DEF LeavesOut
<1>3. CASE Len(ps) # PENDING
  <2>1. Room(ps) = ps /\ Len(ps) < PENDING
    BY <1>1, <1>3 DEF Room
  <2>2. 0 \notin DOMAIN ps
    BY <1>1
  <2>3. LeavesOut(ps, ps, 0)
    BY <2>2, NoneLeftOut
  <2>4. ASSUME NEW i \in DOMAIN ps PROVE i \in DOMAIN ps \ {0}
    BY <2>2
  <2> QED
    BY <2>1, <2>3, <2>4 DEF LeavesOut
<1> QED
  BY <1>2, <1>3

(* A message started is in hand behind the others. *)
LEMMA StartedIsSound ==
    ASSUME NEW ps, Sound(ps), Len(ps) < PENDING, NEW s \in Sentences,
           s.count \in 2..MaxCount, s.number = 1, \A i \in DOMAIN ps : ~Same(ps[i], s)
    PROVE  Sound(Append(ps, Partial(s))) /\ Partial(s) \in Partials
<1> DEFINE p == Partial(s)
           qs == Append(ps, p)
           n == Len(ps)
<1>1. ps \in Seq(Partials) /\ n \in Nat /\ DOMAIN ps = 1..n
  BY DEF Sound
<1>2. PieceOf(s) \in Pieces
  <2>1. s.key \in Keys /\ s.count \in 1..MaxCount /\ s.number \in 1..MaxCount /\ s.of \in 0..MaxMessages
    BY AssemblerAssumption DEF Sentences
  <2> QED
    BY <2>1 DEF PieceOf, Piece, Pieces
<1>3. /\ <<PieceOf(s)>> \in Seq(Pieces) /\ Len(<<PieceOf(s)>>) = 1
      /\ InOrder(<<PieceOf(s)>>, s.key, s.count)
  BY <1>2 DEF InOrder, PieceOf, Piece
<1>4. p \in Partials
  BY <1>3, AssemblerAssumption DEF Partial, Partials, Sentences
<1>5. p.key = s.key /\ p.count = s.count /\ p.next = 2 /\ p.payload = <<PieceOf(s)>>
  BY DEF Partial
<1> HIDE DEF p
<1>6. /\ qs \in Seq(Partials) /\ Len(qs) = n + 1 /\ DOMAIN qs = 1..(n + 1)
      /\ qs[n + 1] = p /\ \A i \in 1..n : qs[i] = ps[i]
  BY <1>1, <1>4
<1> HIDE DEF qs
<1>7. Len(qs) <= PENDING
  BY <1>1, <1>6, AssemblerAssumption
<1>8. ASSUME NEW i \in DOMAIN qs, NEW j \in DOMAIN qs, Same(qs[i], qs[j]) PROVE i = j
  <2>1. CASE i \in 1..n /\ j \in 1..n
    BY <1>1, <1>6, <1>8, <2>1 DEF Sound
  <2>2. CASE i = n + 1 /\ j \in 1..n
    BY <1>1, <1>5, <1>6, <1>8, <2>2 DEF Same
  <2>3. CASE i \in 1..n /\ j = n + 1
    BY <1>1, <1>5, <1>6, <1>8, <2>3 DEF Same
  <2>4. CASE i = n + 1 /\ j = n + 1
    BY <2>4
  <2>5. (i \in 1..n \/ i = n + 1) /\ (j \in 1..n \/ j = n + 1)
    BY <1>1, <1>6
  <2> QED
    BY <2>1, <2>2, <2>3, <2>4, <2>5
<1>9. ASSUME NEW i \in DOMAIN qs
      PROVE  InOrder(qs[i].payload, qs[i].key, qs[i].count) /\ Len(qs[i].payload) = qs[i].next - 1
  <2>1. CASE i \in 1..n
    BY <1>1, <1>6, <2>1 DEF Sound
  <2>2. CASE i = n + 1
    <3> DEFINE y == <<PieceOf(s)>>
    <3>1. /\ InOrder(y, s.key, s.count) /\ Len(y) = 1 /\ p.payload = y /\ p.next = 2
          /\ p.key = s.key /\ p.count = s.count
      BY <1>3, <1>5
    <3>2. qs[i] = p
      BY <1>6, <2>2
    <3>3. 2 - 1 = 1
      OBVIOUS
    <3> HIDE DEF y
    <3> QED
      BY <3>1, <3>2, <3>3, Zenon
  <2>3. i \in 1..n \/ i = n + 1
    BY <1>1, <1>6
  <2> QED
    BY <2>1, <2>2, <2>3
<1>10. Sound(qs)
  BY <1>6, <1>7, <1>8, <1>9 DEF Sound
<1> QED
  BY <1>4, <1>10 DEF qs, p

(* A payload joined on keeps it in order. *)
LEMMA JoinedInOrder ==
    ASSUME NEW payload \in Seq(Pieces), NEW key, NEW count, InOrder(payload, key, count),
           NEW e \in Pieces, e.number = Len(payload) + 1, e.key = key, e.count = count
    PROVE  /\ Append(payload, e) \in Seq(Pieces) /\ InOrder(Append(payload, e), key, count)
           /\ Len(Append(payload, e)) = Len(payload) + 1
  BY DEF InOrder

-----------------------------------------------------------------------------
(* A sentence that makes sense has its place in a message. *)
LEMMA Sensible ==
    ASSUME NEW s \in Sentences, ~Senseless(s)
    PROVE  s.count \in 1..MaxCount /\ s.number \in 1..s.count /\ PieceOf(s) \in Pieces
<1>1. s.count \in 1..MaxCount /\ s.number \in 1..s.count /\ MaxCount \in Nat
  BY AssemblerAssumption DEF Senseless, Sentences
<1>2. s.key \in Keys /\ s.number \in 1..MaxCount /\ s.of \in 0..MaxMessages
  BY <1>1 DEF Sentences
<1> QED
  BY <1>1, <1>2 DEF PieceOf, Piece, Pieces

(* The message in hand with the sentence it awaited joined on. *)
Longer(i, s) == [pending EXCEPT ![i].payload = Append(pending[i].payload, PieceOf(s)),
                                ![i].next = pending[i].next + 1]

(* Its payload goes on in order; and it is in hand still, among the others. *)
LEMMA JoinedIsSound ==
    ASSUME Sound(pending), NEW s \in Sentences, ~Senseless(s), NEW i \in Awaiting(s)
    PROVE  LET payload == Append(pending[i].payload, PieceOf(s))
           IN /\ payload \in Seq(Pieces) /\ InOrder(payload, s.key, s.count)
              /\ Len(payload) = s.number
              /\ s.number # s.count =>
                    /\ Sound(Longer(i, s)) /\ Len(Longer(i, s)) = Len(pending)
                    /\ Longer(i, s)[i].key = pending[i].key
                    /\ Longer(i, s)[i].count = pending[i].count
                    /\ Longer(i, s)[i].next = pending[i].next + 1
                    /\ Longer(i, s)[i].payload = payload
                    /\ \A j \in DOMAIN pending \ {i} : Longer(i, s)[j] = pending[j]
<1> DEFINE e == PieceOf(s)
           p == pending[i]
           payload == Append(p.payload, e)
           q == [p EXCEPT !.payload = payload, !.next = p.next + 1]
           qs == [pending EXCEPT ![i] = q]
           n == Len(pending)
<1>1. s.count \in 1..MaxCount /\ s.number \in 1..s.count /\ e \in Pieces
      /\ e.number = s.number /\ e.key = s.key /\ e.count = s.count
  BY Sensible DEF PieceOf, Piece
<1>2. i \in DOMAIN pending /\ Same(p, s) /\ p.next = s.number
  BY DEF Awaiting, Awaits
<1>3. pending \in Seq(Partials) /\ n \in Nat /\ n <= PENDING /\ DOMAIN pending = 1..n /\ p \in Partials
  BY <1>2 DEF Sound
<1>4. p.payload \in Seq(Pieces) /\ InOrder(p.payload, s.key, s.count)
      /\ Len(p.payload) = p.next - 1 /\ p.next \in Nat
  BY <1>2, <1>3, AssemblerAssumption DEF Sound, Partials, Same
<1> HIDE DEF e, p
<1>5. e.number = Len(p.payload) + 1
  BY <1>1, <1>2, <1>4
<1>6. /\ payload \in Seq(Pieces) /\ InOrder(payload, s.key, s.count)
      /\ Len(payload) = Len(p.payload) + 1 /\ Len(payload) = s.number
  BY <1>1, <1>2, <1>4, <1>5, JoinedInOrder
<1> HIDE DEF payload
<1>7. ASSUME s.number # s.count
      PROVE  Sound(qs)
  <2>1. p.count = s.count /\ p.key \in Keys
    BY <1>2, <1>3 DEF Same, Partials
  <2>2. p.next + 1 \in 2..MaxCount /\ p.count \in 2..MaxCount
    <3>1. p.next \in 2..MaxCount /\ p.count \in 2..MaxCount /\ MaxCount \in Nat
      BY <1>3, AssemblerAssumption DEF Partials
    <3>2. p.next # s.count /\ p.next \in 1..s.count /\ s.count \in 1..MaxCount
      BY <1>1, <1>2, <1>7
    <3> QED
      BY <3>1, <3>2
  <2>3. q \in Partials
    BY <1>3, <1>6, <2>1, <2>2 DEF Partials
  <2>4. q.key = p.key /\ q.count = p.count /\ q.next = p.next + 1 /\ q.payload = payload
    BY <1>3 DEF Partials
  <2> HIDE DEF q
  <2>5. /\ qs \in Seq(Partials) /\ Len(qs) = n /\ DOMAIN qs = 1..n
        /\ qs[i] = q /\ \A j \in DOMAIN pending \ {i} : qs[j] = pending[j]
    BY <1>2, <1>3, <2>3
  <2> HIDE DEF qs
  <2>6. ASSUME NEW j \in DOMAIN qs
        PROVE  qs[j].key = pending[j].key /\ qs[j].count = pending[j].count
    BY <1>2, <1>3, <2>4, <2>5 DEF p
  <2>7. ASSUME NEW j \in DOMAIN qs, NEW l \in DOMAIN qs, Same(qs[j], qs[l]) PROVE j = l
    <3>1. Same(pending[j], pending[l])
      BY <2>6, <2>7 DEF Same
    <3> QED
      BY <1>3, <2>5, <3>1 DEF Sound
  <2>8. ASSUME NEW j \in DOMAIN qs
        PROVE  InOrder(qs[j].payload, qs[j].key, qs[j].count) /\ Len(qs[j].payload) = qs[j].next - 1
    <3>1. CASE j = i
      <4>1. InOrder(payload, s.key, s.count) /\ Len(payload) = p.next + 1 - 1
        BY <1>4, <1>6
      <4>2. /\ qs[j].payload = payload /\ qs[j].next = p.next + 1
            /\ qs[j].key = s.key /\ qs[j].count = s.count
        BY <1>2, <2>4, <2>5, <3>1 DEF Same
      <4>3. InOrder(qs[j].payload, qs[j].key, qs[j].count)
        BY <4>1, <4>2
      <4> QED
        BY <1>4, <4>1, <4>2, <4>3
    <3>2. CASE j # i
      BY <1>3, <2>5, <3>2 DEF Sound
    <3> QED
      BY <3>1, <3>2
  <2> QED
    BY <1>3, <2>5, <2>7, <2>8 DEF Sound
<1>8. Longer(i, s) = qs
  BY <1>2, <1>3 DEF Longer, p, e, payload
<1>9. /\ Len(qs) = n /\ qs[i] = q /\ \A j \in DOMAIN pending \ {i} : qs[j] = pending[j]
      /\ q.key = p.key /\ q.count = p.count /\ q.next = p.next + 1 /\ q.payload = payload
  BY <1>2, <1>3 DEF Partials
<1> HIDE DEF qs, q
<1> QED
  BY <1>6, <1>7, <1>8, <1>9 DEF p, e, payload, q

(* What feed does to the messages in hand, whatever the sentence: it leaves them, takes
   out the sentence's own, starts that over behind the others, or joins the sentence to
   it, having it whole or in hand still. *)
LEMMA FeedCases ==
    ASSUME Sound(pending), NEW s \in Sentences, Feed(s)
    PROVE  \/ ~Kept(s) /\ pending' = pending /\ joined' \in {<<>>, <<PieceOf(s)>>}
                       /\ (joined' = <<>> \/ (s.count = 1 /\ ~Senseless(s)))
           \/ ~Kept(s) /\ pending' = Without(pending, s) /\ joined' = <<>>
           \/ Kept(s) /\ pending' = Append(Room(Without(pending, s)), Partial(s)) /\ joined' = <<>>
           \/ /\ ~Kept(s) /\ ~Senseless(s)
              /\ \E i \in Awaiting(s) :
                    \/ /\ s.number = s.count
                       /\ joined' = Append(pending[i].payload, PieceOf(s))
                       /\ pending' = Without(pending, s)
                    \/ /\ s.number # s.count
                       /\ joined' = <<>>
                       /\ pending' = Longer(i, s)
<1>1. CASE FeedSenseless(s) \/ FeedWhole(s)
  BY <1>1 DEF FeedSenseless, FeedWhole, Kept
<1>2. CASE FeedMisfilled(s)
  BY <1>2 DEF FeedMisfilled, Kept
<1>3. CASE FeedFirst(s)
  BY <1>3 DEF FeedFirst, Kept, Room, Sentences
<1>4. CASE FeedOutOfOrder(s)
  BY <1>4 DEF FeedOutOfOrder, Kept, Sentences
<1>5. CASE FeedNext(s)
  <2>1. ~Kept(s) /\ ~Senseless(s)
    BY <1>5 DEF FeedNext, Kept, Sentences
  <2>2. PICK i \in Awaiting(s) :
           \/ /\ s.number = s.count
              /\ joined' = Append(pending[i].payload, PieceOf(s))
              /\ pending' = RemoveAt(pending, i)
           \/ /\ s.number # s.count
              /\ joined' = <<>>
              /\ pending' = Longer(i, s)
    BY <1>5 DEF FeedNext, Longer
  <2>3. Without(pending, s) = RemoveAt(pending, i)
    BY WithoutOne DEF Awaiting, Awaits
  <2> QED
    BY <2>1, <2>2, <2>3
<1> QED
  BY <1>1, <1>2, <1>3, <1>4, <1>5 DEF Feed

(* A payload joined is of all the sentences of a message, in order. *)
JoinedWhole(payload) == payload # <<>> => InOrder(payload, payload[1].key, Len(payload))

(* Whatever is fed, the messages in hand stay sound, and what is joined is whole. *)
LEMMA FeedSound ==
    ASSUME Sound(pending), NEW s \in Sentences, Feed(s)
    PROVE  Sound(pending') /\ joined' \in Seq(Pieces) /\ JoinedWhole(joined')
<1>0. <<>> \in Seq(Pieces) /\ JoinedWhole(<<>>)
  BY DEF JoinedWhole
<1>1. ASSUME s.count = 1, ~Senseless(s)
      PROVE  <<PieceOf(s)>> \in Seq(Pieces) /\ JoinedWhole(<<PieceOf(s)>>)
  <2>1. PieceOf(s) \in Pieces /\ s.number = 1
    BY <1>1, Sensible
  <2>2. PieceOf(s).number = 1 /\ PieceOf(s).count = 1
    BY <1>1, <2>1 DEF PieceOf, Piece
  <2> QED
    BY <2>1, <2>2 DEF InOrder, JoinedWhole
<1>2. Sound(Without(pending, s)) /\ \A j \in DOMAIN Without(pending, s) : ~Same(Without(pending, s)[j], s)
  BY RestIsOthers
<1>3. ASSUME Kept(s)
      PROVE  Sound(Append(Room(Without(pending, s)), Partial(s)))
  <2> DEFINE ws == Without(pending, s)
  <2>1. /\ Sound(Room(ws)) /\ Len(Room(ws)) < PENDING
        /\ \A j \in DOMAIN Room(ws) : \E i \in DOMAIN ws : Room(ws)[j] = ws[i]
    BY <1>2, RoomIsMade
  <2>2. \A j \in DOMAIN Room(ws) : ~Same(Room(ws)[j], s)
    BY <1>2, <2>1
  <2>3. s.count \in 2..MaxCount /\ s.number = 1
    <3>1. s.count \in 1..MaxCount /\ s.count > 1 /\ s.number = 1
      BY <1>3, Sensible DEF Kept
    <3> QED
      BY <3>1
  <2> HIDE DEF ws
  <2>4. Sound(Append(Room(ws), Partial(s)))
    BY <2>1, <2>2, <2>3, StartedIsSound
  <2> QED
    BY <2>4 DEF ws
<1>4. CASE pending' = pending /\ joined' = <<>>
  BY <1>0, <1>4
<1>5. CASE pending' = pending /\ joined' = <<PieceOf(s)>> /\ s.count = 1 /\ ~Senseless(s)
  BY <1>1, <1>5
<1>6. CASE pending' = Without(pending, s) /\ joined' = <<>>
  BY <1>0, <1>2, <1>6
<1>7. CASE Kept(s) /\ pending' = Append(Room(Without(pending, s)), Partial(s)) /\ joined' = <<>>
  BY <1>0, <1>3, <1>7
<1>8. ASSUME ~Senseless(s), NEW i \in Awaiting(s), s.number = s.count,
             joined' = Append(pending[i].payload, PieceOf(s)),
             pending' = Without(pending, s)
      PROVE  Sound(pending') /\ joined' \in Seq(Pieces) /\ JoinedWhole(joined')
  <2> DEFINE payload == Append(pending[i].payload, PieceOf(s))
  <2>1. payload \in Seq(Pieces) /\ InOrder(payload, s.key, s.count) /\ Len(payload) = s.count
    BY <1>8, JoinedIsSound
  <2>2. joined' = payload
    BY <1>8
  <2> HIDE DEF payload
  <2>3. payload # <<>> => 1 \in DOMAIN payload
    BY <2>1
  <2>4. payload # <<>> => payload[1].key = s.key
    BY <2>1, <2>3 DEF InOrder
  <2>5. JoinedWhole(payload)
    BY <2>1, <2>4 DEF JoinedWhole
  <2> QED
    BY <1>2, <1>8, <2>1, <2>2, <2>5
<1>9. ASSUME ~Senseless(s), NEW i \in Awaiting(s), s.number # s.count,
             joined' = <<>>, pending' = Longer(i, s)
      PROVE  Sound(pending') /\ joined' \in Seq(Pieces) /\ JoinedWhole(joined')
  BY <1>0, <1>9, JoinedIsSound
<1> QED
  BY <1>4, <1>5, <1>6, <1>7, <1>8, <1>9, FeedCases

(* A sentence moves no message of another key but one step towards the oldest, when it
   starts one, and puts none out that has fewer than PENDING - 1 behind it. *)
LEMMA FeedOthers ==
    ASSUME Sound(pending), NEW s \in Sentences, Feed(s)
    PROVE  /\ \A j \in DOMAIN pending' : pending'[j].key # s.key =>
                \E i \in DOMAIN pending :
                    /\ pending'[j] = pending[i]
                    /\ Len(pending') - j <= Len(pending) - i + IF Kept(s) THEN 1 ELSE 0
           /\ \A i \in DOMAIN pending :
                /\ pending[i].key # s.key
                /\ Kept(s) => Len(pending) - i < PENDING - 1
                => \E j \in DOMAIN pending' : pending'[j] = pending[i]
<1> DEFINE ws == Without(pending, s)
           rs == Room(ws)
           Behind(a, i, b, j, more) == a[i] = b[j] /\ Len(a) - i <= Len(b) - j + more
<1>0. pending \in Seq(Partials) /\ Len(pending) \in Nat /\ DOMAIN pending = 1..Len(pending)
  BY DEF Sound
<1>1. /\ Sound(ws)
      /\ \A j \in DOMAIN ws : \E i \in DOMAIN pending : Behind(ws, j, pending, i, 0)
      /\ \A i \in DOMAIN pending :
            pending[i].key # s.key =>
                \E j \in DOMAIN ws : ws[j] = pending[i] /\ Len(ws) - j <= Len(pending) - i
  <2>1. /\ Sound(ws)
        /\ \A j \in DOMAIN ws : \E i \in DOMAIN pending :
              ws[j] = pending[i] /\ Len(ws) - j <= Len(pending) - i
        /\ \A i \in DOMAIN pending :
              ~Same(pending[i], s) => \E j \in DOMAIN ws : ws[j] = pending[i]
    BY RestIsOthers
  <2> HIDE DEF ws
  <2>2. ws \in Seq(Partials) /\ Len(ws) \in Nat /\ DOMAIN ws = 1..Len(ws)
    BY <2>1 DEF Sound
  <2>3. ASSUME NEW j \in DOMAIN ws PROVE \E i \in DOMAIN pending : Behind(ws, j, pending, i, 0)
    <3>1. PICK i \in DOMAIN pending : ws[j] = pending[i] /\ Len(ws) - j <= Len(pending) - i
      BY <2>1
    <3>2. Behind(ws, j, pending, i, 0)
      BY <1>0, <2>2, <3>1
    <3> QED
      BY <3>2
  <2>4. ASSUME NEW i \in DOMAIN pending, pending[i].key # s.key
        PROVE  \E j \in DOMAIN ws : ws[j] = pending[i] /\ Len(ws) - j <= Len(pending) - i
    <3>1. PICK j \in DOMAIN ws : ws[j] = pending[i]
      BY <2>1, <2>4 DEF Same
    <3>2. PICK l \in DOMAIN pending : ws[j] = pending[l] /\ Len(ws) - j <= Len(pending) - l
      BY <2>1
    <3>3. l = i
      <4>1. Same(pending[l], pending[i])
        BY <3>1, <3>2 DEF Same
      <4> QED
        BY <4>1 DEF Sound
    <3> QED
      BY <3>1, <3>2, <3>3
  <2> QED
    BY <2>1, <2>3, <2>4
<1> HIDE DEF ws
<1>2. ws \in Seq(Partials) /\ Len(ws) \in Nat /\ DOMAIN ws = 1..Len(ws)
  BY <1>1 DEF Sound
<1>3. /\ Sound(rs)
      /\ \A j \in DOMAIN rs : \E i \in DOMAIN ws : rs[j] = ws[i] /\ Len(rs) - j <= Len(ws) - i
      /\ \A i \in DOMAIN ws :
            Len(ws) - i < PENDING - 1 => \E j \in DOMAIN rs : rs[j] = ws[i]
  BY <1>1, RoomIsMade
<1> HIDE DEF rs
<1>4. rs \in Seq(Partials) /\ Len(rs) \in Nat /\ DOMAIN rs = 1..Len(rs)
  BY <1>3 DEF Sound
<1> SUFFICES
      /\ \A j \in DOMAIN pending' : pending'[j].key # s.key =>
            \E i \in DOMAIN pending : Behind(pending', j, pending, i, IF Kept(s) THEN 1 ELSE 0)
      /\ \A i \in DOMAIN pending :
            /\ pending[i].key # s.key
            /\ Kept(s) => Len(pending) - i < PENDING - 1
            => \E j \in DOMAIN pending' : pending'[j] = pending[i]
  OBVIOUS
<1>5. CASE ~Kept(s) /\ pending' = pending
  <2>1. ASSUME NEW j \in DOMAIN pending PROVE Behind(pending, j, pending, j, 0)
    BY <1>0
  <2> HIDE DEF Behind
  <2> QED
    BY <1>5, <2>1
<1>6. CASE ~Kept(s) /\ pending' = ws
  <2> HIDE DEF Behind
  <2> QED
    BY <1>1, <1>6
<1>7. CASE Kept(s) /\ pending' = Append(rs, Partial(s))
  <2>1. /\ Len(pending') = Len(rs) + 1 /\ DOMAIN pending' = 1..(Len(rs) + 1)
        /\ pending'[Len(rs) + 1] = Partial(s) /\ \A j \in 1..Len(rs) : pending'[j] = rs[j]
    BY <1>4, <1>7
  <2>2. Partial(s).key = s.key
    BY DEF Partial
  <2>3. ASSUME NEW j \in DOMAIN pending', pending'[j].key # s.key
        PROVE  \E i \in DOMAIN pending : Behind(pending', j, pending, i, 1)
    <3>1. j \in 1..Len(rs) /\ pending'[j] = rs[j]
      BY <1>4, <2>1, <2>2, <2>3
    <3>2. PICK i \in DOMAIN ws : rs[j] = ws[i] /\ Len(rs) - j <= Len(ws) - i
      BY <1>3, <1>4, <3>1
    <3>3. PICK l \in DOMAIN pending : ws[i] = pending[l] /\ Len(ws) - i <= Len(pending) - l + 0
      BY <1>1
    <3>4. Behind(pending', j, pending, l, 1)
      BY <1>0, <1>2, <1>4, <2>1, <3>1, <3>2, <3>3
    <3> QED
      BY <3>4
  <2>4. ASSUME NEW i \in DOMAIN pending, pending[i].key # s.key, Len(pending) - i < PENDING - 1
        PROVE  \E j \in DOMAIN pending' : pending'[j] = pending[i]
    <3>1. PICK l \in DOMAIN ws : ws[l] = pending[i] /\ Len(ws) - l <= Len(pending) - i
      BY <1>1, <2>4
    <3>2. Len(ws) - l < PENDING - 1
      BY <1>0, <1>2, <2>4, <3>1, AssemblerAssumption
    <3>3. PICK j \in DOMAIN rs : rs[j] = ws[l]
      BY <1>3, <3>2
    <3>4. j \in DOMAIN pending' /\ pending'[j] = rs[j]
      BY <1>4, <2>1
    <3> QED
      BY <3>1, <3>3, <3>4
  <2> HIDE DEF Behind
  <2> QED
    BY <1>7, <2>3, <2>4
<1>8. ASSUME ~Kept(s), ~Senseless(s), NEW x \in Awaiting(s), s.number # s.count,
             pending' = Longer(x, s)
      PROVE  /\ \A j \in DOMAIN pending' : pending'[j].key # s.key =>
                    \E i \in DOMAIN pending : Behind(pending', j, pending, i, 0)
             /\ \A i \in DOMAIN pending :
                    pending[i].key # s.key => \E j \in DOMAIN pending' : pending'[j] = pending[i]
  <2>1. x \in DOMAIN pending /\ pending[x].key = s.key
    BY DEF Awaiting, Awaits, Same
  <2>2. /\ Sound(pending') /\ Len(pending') = Len(pending) /\ pending'[x].key = s.key
        /\ \A j \in DOMAIN pending \ {x} : pending'[j] = pending[j]
    BY <1>8, <2>1, JoinedIsSound
  <2>3. DOMAIN pending' = DOMAIN pending
    BY <1>0, <2>2 DEF Sound
  <2>4. ASSUME NEW j \in DOMAIN pending', pending'[j].key # s.key
        PROVE  Behind(pending', j, pending, j, 0) /\ j \in DOMAIN pending
    BY <1>0, <2>2, <2>3, <2>4
  <2>5. ASSUME NEW i \in DOMAIN pending, pending[i].key # s.key
        PROVE  i \in DOMAIN pending' /\ pending'[i] = pending[i]
    BY <2>1, <2>2, <2>3, <2>5
  <2> HIDE DEF Behind
  <2> QED
    BY <2>4, <2>5
<1> HIDE DEF Behind
<1>9. CASE \E x \in Awaiting(s) :
             ~Kept(s) /\ ~Senseless(s) /\ s.number # s.count /\ pending' = Longer(x, s)
  BY <1>8, <1>9
<1>10. \/ ~Kept(s) /\ pending' = pending
       \/ ~Kept(s) /\ pending' = ws
       \/ Kept(s) /\ pending' = Append(rs, Partial(s))
       \/ \E x \in Awaiting(s) :
             ~Kept(s) /\ ~Senseless(s) /\ s.number # s.count /\ pending' = Longer(x, s)
  BY FeedCases DEF ws, rs
<1> QED
  BY <1>5, <1>6, <1>7, <1>9, <1>10

-----------------------------------------------------------------------------
(* A message being sent: some of its sentences are still to come. *)
Sending(m) == m.of \in 1..MaxMessages /\ m.count \in 1..MaxCount /\ m.next \in 1..m.count

(* What has been sent of it. *)
Beginning(k, m) == [j \in 1..(m.next - 1) |-> Piece(k, m.count, j, m.of)]

Mine(k) == {i \in DOMAIN pending : pending[i].key = k /\ pending[i].count = air[k].count}

(* The message being sent on key k, when all of it came so far, is in hand up to its
   last sentence, with no more messages behind it than were started since; unless so
   many were that it may have had to make room. *)
Follows(k) ==
    intact[k] /\ air[k] # Silence /\ air[k].next > 1 =>
        /\ \A i \in Mine(k) : /\ pending[i].next = air[k].next
                              /\ pending[i].payload = Beginning(k, air[k])
                              /\ Len(pending) - i <= since[k]
        /\ since[k] < PENDING => Mine(k) # {}

IInv ==
    /\ TypeOK
    /\ Sound(pending) /\ JoinedWhole(joined)
    /\ \A k \in Keys : air[k] = Silence \/ Sending(air[k])
    /\ \A k \in Keys : Follows(k)

(* What is sent on one key leaves the message on another where it is. *)
LEMMA OthersFollow ==
    ASSUME IInv, NEW s \in Sentences, Feed(s), Counted(s), NEW k \in Keys \ {s.key},
           air'[k] = air[k], intact'[k] = intact[k]
    PROVE  Follows(k)'
<1> DEFINE more == IF Kept(s) THEN 1 ELSE 0
<1>1. /\ Sound(pending) /\ since[k] \in 0..PENDING /\ Follows(k)
      /\ PENDING \in Nat
  BY AssemblerAssumption DEF IInv, TypeOK
<1>2. since'[k] = IF Kept(s) /\ since[k] < PENDING THEN since[k] + 1 ELSE since[k]
  BY DEF Counted
<1>3. /\ \A j \in DOMAIN pending' : pending'[j].key # s.key =>
            \E i \in DOMAIN pending :
                /\ pending'[j] = pending[i]
                /\ Len(pending') - j <= Len(pending) - i + more
      /\ \A i \in DOMAIN pending :
            /\ pending[i].key # s.key
            /\ Kept(s) => Len(pending) - i < PENDING - 1
            => \E j \in DOMAIN pending' : pending'[j] = pending[i]
  BY <1>1, FeedOthers
<1>4. /\ Len(pending) \in Nat /\ DOMAIN pending = 1..Len(pending) /\ Len(pending) <= PENDING
      /\ Len(pending') \in Nat /\ DOMAIN pending' = 1..Len(pending') /\ Len(pending') <= PENDING
  BY <1>1, FeedSound DEF Sound
<1> SUFFICES ASSUME intact[k], air[k] # Silence, air[k].next > 1
             PROVE  /\ \A j \in Mine(k)' : /\ pending'[j].next = air[k].next
                                           /\ pending'[j].payload = Beginning(k, air[k])
                                           /\ Len(pending') - j <= since'[k]
                    /\ since'[k] < PENDING => Mine(k)' # {}
  BY DEF Follows
<1>5. /\ \A i \in Mine(k) : /\ pending[i].next = air[k].next
                            /\ pending[i].payload = Beginning(k, air[k])
                            /\ Len(pending) - i <= since[k]
      /\ since[k] < PENDING => Mine(k) # {}
  BY <1>1 DEF Follows
<1>6. ASSUME NEW j \in Mine(k)'
      PROVE  /\ pending'[j].next = air[k].next
             /\ pending'[j].payload = Beginning(k, air[k])
             /\ Len(pending') - j <= since'[k]
  <2>1. j \in DOMAIN pending' /\ pending'[j].key = k /\ pending'[j].count = air[k].count
    BY DEF Mine
  <2>2. PICK i \in DOMAIN pending :
           pending'[j] = pending[i] /\ Len(pending') - j <= Len(pending) - i + more
    BY <1>3, <2>1
  <2>3. i \in Mine(k)
    BY <2>1, <2>2 DEF Mine
  <2>4. Len(pending) - i <= since[k]
    BY <1>5, <2>3
  <2>5. Len(pending') - j <= since[k] + more /\ Len(pending') - j <= PENDING
    BY <1>1, <1>4, <2>1, <2>2, <2>4
  <2>6. Len(pending') - j <= since'[k]
    BY <1>1, <1>2, <1>4, <2>1, <2>5
  <2> QED
    BY <1>5, <2>2, <2>3, <2>6
<1>7. ASSUME since'[k] < PENDING PROVE Mine(k)' # {}
  <2>1. since[k] < PENDING /\ (Kept(s) => since[k] < PENDING - 1)
    BY <1>1, <1>2, <1>7
  <2>2. PICK i \in DOMAIN pending : i \in Mine(k) /\ Len(pending) - i <= since[k]
    BY <1>5, <2>1 DEF Mine
  <2>3. Kept(s) => Len(pending) - i < PENDING - 1
    BY <1>1, <1>4, <2>1, <2>2
  <2>4. PICK j \in DOMAIN pending' : pending'[j] = pending[i]
    BY <1>3, <2>2, <2>3 DEF Mine
  <2>5. j \in Mine(k)'
    BY <2>2, <2>4 DEF Mine
  <2> QED
    BY <2>5
<1> QED
  BY <1>6, <1>7

(* The next sentence of a message of which all came so far: fed, it follows the others,
   or makes the message whole.  `since` is enough room for it to be in hand. *)
LEMMA OwnFollows ==
    ASSUME IInv, NEW k \in Keys, Arrive(k), intact[k]
    PROVE  /\ Follows(k)'
           /\ air[k].next = air[k].count =>
                LET whole == [i \in 1..air[k].count |-> Piece(k, air[k].count, i, air[k].of)]
                IN /\ joined' \in {<<>>, whole}
                   /\ since[k] < PENDING => joined' = whole
<1> DEFINE m == air[k]
           whole == [i \in 1..m.count |-> Piece(k, m.count, i, m.of)]
<1>1. /\ m # Silence /\ Sending(m) /\ Follows(k) /\ Sound(pending)
      /\ air' = [air EXCEPT ![k] = IF m.next = m.count THEN Silence ELSE [m EXCEPT !.next = m.next + 1]]
      /\ intact' = intact /\ since[k] \in 0..PENDING
      /\ m \in [of: 0..MaxMessages, count: 0..MaxCount, next: 1..MaxCount]
  BY DEF IInv, TypeOK, Arrive, Goes
<1>2. PICK fill \in IF m.next = m.count THEN {0, 5} ELSE {0} : Feed(OnAir(k, fill)) /\ Counted(OnAir(k, fill))
  BY DEF Arrive
<1> DEFINE s == OnAir(k, fill)
<1>3. /\ s \in Sentences /\ s.key = k /\ s.count = m.count /\ s.number = m.next /\ s.fill = fill
      /\ s.of = m.of /\ ~Senseless(s) /\ ~Misfilled(s)
  <2>1. /\ s.key = k /\ s.count = m.count /\ s.number = m.next /\ s.fill = fill /\ s.of = m.of
        /\ s = [key |-> k, count |-> m.count, number |-> m.next, fill |-> fill, of |-> m.of]
    BY DEF OnAir, Sentence
  <2>2. m.count \in 1..MaxCount /\ m.next \in 1..m.count /\ m.of \in 0..MaxMessages /\ MaxCount \in Nat
    BY <1>1, AssemblerAssumption DEF Sending
  <2>3. fill \in {0, 5} /\ (fill = 5 => m.next = m.count)
    OBVIOUS
  <2>4. s \in Sentences
    BY <2>1, <2>2, <2>3 DEF Sentences
  <2> HIDE DEF s, m
  <2>5. ~Senseless(s)
    BY <2>1, <2>2 DEF Senseless
  <2>6. ~Misfilled(s)
    BY <2>1, <2>2, <2>3 DEF Misfilled
  <2> QED
    BY <2>1, <2>4, <2>5, <2>6
<1>4. since'[k] = since[k]
  BY <1>2, <1>3 DEF Counted
<1> HIDE DEF s
<1>5. Feed(s) /\ PieceOf(s) = Piece(k, m.count, m.next, m.of)
  BY <1>2, <1>3 DEF s, PieceOf
<1>6. m.count \in Nat /\ m.next \in Nat /\ m.next >= 1 /\ m.next <= m.count
  BY <1>1, AssemblerAssumption DEF Sending
<1>7. IF m.next = m.count THEN air'[k] = Silence
      ELSE air'[k] # Silence /\ air'[k].of = m.of /\ air'[k].count = m.count /\ air'[k].next = m.next + 1
  <2>1. air \in [Keys -> [of: 0..MaxMessages, count: 0..MaxCount, next: 1..MaxCount]]
    BY DEF IInv, TypeOK
  <2>2. air'[k] = IF m.next = m.count THEN Silence ELSE [m EXCEPT !.next = m.next + 1]
    BY <1>1, <2>1
  <2>3. /\ [m EXCEPT !.next = m.next + 1].of = m.of /\ [m EXCEPT !.next = m.next + 1].count = m.count
        /\ [m EXCEPT !.next = m.next + 1].next = m.next + 1
    BY <1>1
  <2>4. m.next + 1 # 1
    BY <1>6
  <2> QED
    BY <2>2, <2>3, <2>4 DEF Silence
<1> HIDE DEF m
(* A message of one sentence. *)
<1>8. CASE m.count = 1
  <2>1. m.next = 1 /\ air'[k] = Silence
    BY <1>6, <1>7, <1>8
  <2>2. Follows(k)'
    BY <2>1 DEF Follows
  <2>3. joined' = <<PieceOf(s)>>
    BY <1>3, <1>5, <1>8
    DEF Feed, FeedSenseless, FeedWhole, FeedMisfilled, FeedFirst, FeedOutOfOrder, FeedNext
  <2>4. whole = <<Piece(k, m.count, 1, m.of)>>
    <3>1. whole = [i \in 1..1 |-> Piece(k, m.count, i, m.of)]
      BY <1>8
    <3> QED
      BY <3>1
  <2> QED
    BY <1>5, <2>1, <2>2, <2>3, <2>4 DEF m
(* The first of more: it is in hand behind all others. *)
<1>9. CASE m.count > 1 /\ m.next = 1
  <2>1. Kept(s) /\ m.next # m.count
    BY <1>3, <1>6, <1>9 DEF Kept
  <2> DEFINE ps == Room(Without(pending, s))
             n == Len(ps)
             p == Partial(s)
  <2>2. pending' = Append(ps, p)
    BY <1>1, <1>3, <1>5, <2>1, FeedCases
  <2>3. /\ ps \in Seq(Partials)
        /\ \A j \in DOMAIN ps : ~Same(ps[j], s)
    <3>1. /\ Sound(Without(pending, s))
          /\ \A j \in DOMAIN Without(pending, s) : ~Same(Without(pending, s)[j], s)
      BY <1>1, RestIsOthers
    <3>2. Sound(ps) /\ \A j \in DOMAIN ps : \E i \in DOMAIN Without(pending, s) : ps[j] = Without(pending, s)[i]
      BY <3>1, RoomIsMade
    <3> HIDE DEF ps
    <3> QED
      BY <3>1, <3>2 DEF Sound
  <2>4. p.key = k /\ p.count = m.count /\ p.next = 2 /\ p.payload = <<Piece(k, m.count, 1, m.of)>>
    BY <1>3, <1>5, <1>9 DEF Partial
  <2> HIDE DEF ps, p
  <2>5. /\ n \in Nat /\ Len(pending') = n + 1 /\ DOMAIN pending' = 1..(n + 1)
        /\ pending'[n + 1] = p /\ \A j \in 1..n : pending'[j] = ps[j]
    BY <2>2, <2>3
  <2>6. Mine(k)' = {n + 1}
    <3>1. air'[k].count = m.count
      BY <1>7, <2>1
    <3>2. n + 1 \in Mine(k)'
      BY <2>4, <2>5, <3>1 DEF Mine
    <3>3. ASSUME NEW j \in 1..n PROVE j \notin Mine(k)'
      <4>1. pending'[j] = ps[j] /\ ~Same(ps[j], s)
        BY <2>3, <2>5, <3>3
      <4> QED
        BY <1>3, <3>1, <4>1 DEF Mine, Same
    <3> QED
      BY <2>5, <3>2, <3>3 DEF Mine
  <2>7. air'[k].next = 2 /\ air'[k].of = m.of /\ air'[k].count = m.count
    BY <1>7, <1>9, <2>1
  <2>8. Beginning(k, air[k])' = <<Piece(k, m.count, 1, m.of)>>
    <3>1. Beginning(k, air[k])' = [j \in 1..1 |-> Piece(k, m.count, j, m.of)]
      BY <2>7 DEF Beginning
    <3> QED
      BY <3>1
  <2>9. Len(pending') - (n + 1) <= since'[k]
    BY <1>1, <1>4, <2>5
  <2>10. Follows(k)'
    BY <2>4, <2>5, <2>6, <2>7, <2>8, <2>9 DEF Follows
  <2> QED
    BY <2>1, <2>10 DEF m
(* One after that: it is joined to the message in hand, or that made room before. *)
<1>10. CASE m.next > 1
  <2>1. /\ \A i \in Mine(k) : /\ pending[i].next = m.next
                              /\ pending[i].payload = Beginning(k, m)
                              /\ Len(pending) - i <= since[k]
        /\ since[k] < PENDING => Mine(k) # {}
    BY <1>1, <1>10 DEF Follows, m
  <2>2. Mine(k) = Awaiting(s)
    BY <1>3, <2>1 DEF Mine, Awaiting, Awaits, Same, m
  <2>3. ~Kept(s) /\ s.count > 1
    BY <1>3, <1>6, <1>10 DEF Kept
  <2>4. Append(Beginning(k, m), Piece(k, m.count, m.next, m.of)) = [i \in 1..m.next |-> Piece(k, m.count, i, m.of)]
    <3> DEFINE Seen(i) == Piece(k, m.count, i, m.of)
               n == m.next - 1
               b == [i \in 1..n |-> Seen(i)]
    <3>1. n \in Nat /\ n + 1 = m.next
      BY <1>6
    <3> HIDE DEF Seen, n
    <3>2. b \in Seq({Seen(i) : i \in 1..n}) /\ Len(b) = n
      BY <3>1
    <3>3. Append(b, Seen(n + 1)) = [i \in 1..(n + 1) |-> Seen(i)]
      BY <3>1, <3>2
    <3>4. Beginning(k, m) = b
      BY DEF Beginning, Seen, n
    <3> QED
      BY <3>1, <3>3, <3>4 DEF Seen
  <2>5. CASE Awaiting(s) = {}
    <3>1. pending' = Without(pending, s) /\ joined' = <<>>
      BY <1>3, <1>5, <1>10, <2>3, <2>5
      DEF Feed, FeedSenseless, FeedWhole, FeedMisfilled, FeedFirst, FeedOutOfOrder, FeedNext
    <3>2. ~(since[k] < PENDING)
      BY <2>1, <2>2, <2>5
    <3>3. m.next # m.count => Mine(k)' = {}
      <4>1. /\ \A j \in DOMAIN Without(pending, s) : ~Same(Without(pending, s)[j], s)
        BY <1>1, RestIsOthers
      <4>2. m.next # m.count => air'[k].count = s.count
        BY <1>3, <1>7
      <4> QED
        BY <1>3, <3>1, <4>1, <4>2 DEF Mine, Same
    <3>4. Follows(k)'
      BY <1>4, <1>7, <3>2, <3>3 DEF Follows
    <3> QED
      BY <3>1, <3>2, <3>4 DEF m
  <2>6. CASE Awaiting(s) # {}
    <3>1. PICK i \in Awaiting(s) :
             \/ /\ s.number = s.count
                /\ joined' = Append(pending[i].payload, PieceOf(s))
             \/ /\ s.number # s.count
                /\ joined' = <<>>
                /\ pending' = Longer(i, s)
      <4>1. s.count # 1 /\ s.number # 1
        BY <1>3, <1>6, <1>10, <2>3
      <4>2. FeedNext(s)
        BY <1>3, <1>5, <2>6, <4>1
        DEF Feed, FeedSenseless, FeedWhole, FeedMisfilled, FeedFirst, FeedOutOfOrder
      <4> QED
        BY <4>2 DEF FeedNext, Longer
    <3>2. /\ i \in Mine(k) /\ i \in DOMAIN pending /\ pending[i].payload = Beginning(k, m)
          /\ pending[i].next = m.next /\ Len(pending) - i <= since[k]
          /\ pending[i].key = k /\ pending[i].count = m.count
      BY <2>1, <2>2 DEF Mine, m
    <3>3. CASE m.next = m.count
      <4>1. joined' = whole
        BY <1>3, <1>5, <2>4, <3>1, <3>2, <3>3
      <4>2. Follows(k)'
        BY <1>7, <3>3 DEF Follows
      <4> QED
        BY <4>1, <4>2 DEF m
    <3>4. CASE m.next # m.count
      <4>1. pending' = Longer(i, s)
        BY <1>3, <3>1, <3>4
      <4>2. /\ Sound(pending') /\ Len(pending') = Len(pending)
            /\ pending'[i].key = k /\ pending'[i].count = m.count
            /\ pending'[i].next = m.next + 1
            /\ pending'[i].payload = Append(Beginning(k, m), Piece(k, m.count, m.next, m.of))
            /\ \A j \in DOMAIN pending \ {i} : pending'[j] = pending[j]
        BY <1>1, <1>3, <1>5, <3>2, <3>4, <4>1, JoinedIsSound
      <4>3. DOMAIN pending' = DOMAIN pending
        BY <1>1, <4>2 DEF Sound
      <4>4. air'[k].count = m.count /\ air'[k].next = m.next + 1 /\ air'[k].of = m.of
        BY <1>7, <3>4
      <4>5. Mine(k)' = {i}
        <5>1. i \in Mine(k)'
          BY <3>2, <4>2, <4>3, <4>4 DEF Mine
        <5>2. ASSUME NEW j \in Mine(k)' PROVE j = i
          <6>1. Same(pending'[j], pending'[i]) /\ j \in DOMAIN pending' /\ i \in DOMAIN pending'
            BY <5>1 DEF Mine, Same
          <6> QED
            BY <4>2, <6>1 DEF Sound
        <5> QED
          BY <5>1, <5>2
      <4>6. Beginning(k, air[k])' = Append(Beginning(k, m), Piece(k, m.count, m.next, m.of))
        <5> DEFINE c == air'[k]
        <5>1. c.of = m.of /\ c.count = m.count /\ c.next - 1 = m.next
          BY <1>6, <4>4
        <5>2. Beginning(k, air[k])' = [j \in 1..(c.next - 1) |-> Piece(k, c.count, j, c.of)]
          BY DEF Beginning
        <5> HIDE DEF c
        <5>3. Beginning(k, air[k])' = [j \in 1..m.next |-> Piece(k, m.count, j, m.of)]
          BY <5>1, <5>2
        <5> QED
          BY <2>4, <5>3
      <4>7. Len(pending') - i <= since'[k]
        BY <1>4, <3>2, <4>2
      <4>8. Follows(k)'
        BY <4>2, <4>4, <4>5, <4>6, <4>7 DEF Follows
      <4> QED
        BY <3>4, <4>8 DEF m
    <3> QED
      BY <3>3, <3>4
  <2> QED
    BY <2>5, <2>6
<1> QED
  BY <1>6, <1>8, <1>9, <1>10

-----------------------------------------------------------------------------
(* Init: nothing is in hand, and nothing on the air. *)
LEMMA InitInv == Init => IInv
<1> SUFFICES ASSUME Init PROVE IInv
  OBVIOUS
<1>0. /\ PENDING \in Nat \ {0} /\ MaxCount \in Nat \ {0, 1} /\ MaxMessages \in Nat /\ MaxNoise \in Nat
  BY AssemblerAssumption
<1>1. TypeOK
  <2>1. <<>> \in Seq(Partials) /\ <<>> \in Seq(Pieces) /\ Len(<<>>) = 0
    OBVIOUS
  <2> QED
    BY <1>0, <2>1 DEF Init, TypeOK, Silence
<1>2. Sound(pending) /\ JoinedWhole(joined)
  <2>1. pending = <<>> /\ joined = <<>> /\ DOMAIN pending = {} /\ DOMAIN joined = {}
    BY DEF Init
  <2> QED
    BY <1>1, <2>1 DEF Sound, JoinedWhole, TypeOK
<1> QED
  BY <1>1, <1>2 DEF Init, IInv, Follows

(* A step that feeds the assembler nothing, and is about the message on one key only: it
   starts or loses sentences there. *)
LEMMA QuietKeepsInv ==
    ASSUME IInv, NEW k \in Keys, UNCHANGED pending, joined' = <<>>, TypeOK',
           \A h \in Keys \ {k} : air'[h] = air[h] /\ intact'[h] = intact[h] /\ since'[h] = since[h],
           air'[k] = Silence \/ Sending(air'[k]),
           ~intact'[k] \/ air'[k].next = 1
    PROVE  IInv'
<1>1. Sound(pending)' /\ JoinedWhole(joined)'
  BY DEF IInv, Sound, JoinedWhole
<1>2. ASSUME NEW h \in Keys PROVE air'[h] = Silence \/ Sending(air'[h])
  BY DEF IInv
<1>3. ASSUME NEW h \in Keys PROVE Follows(h)'
  <2>1. CASE h = k
    BY <2>1 DEF Follows
  <2>2. CASE h # k
    BY <2>2 DEF IInv, Follows, Mine
  <2> QED
    BY <2>1, <2>2
<1> QED
  BY <1>1, <1>2, <1>3 DEF IInv

(* The air once a sentence has gone. *)
LEMMA GoneOn ==
    ASSUME IInv, NEW k \in Keys, Goes(k)
    PROVE  /\ air' \in [Keys -> [of: 0..MaxMessages, count: 0..MaxCount, next: 1..MaxCount]]
           /\ \A h \in Keys \ {k} : air'[h] = air[h]
           /\ air'[k] = Silence \/ Sending(air'[k])
<1> DEFINE m == air[k]
           A == [of: 0..MaxMessages, count: 0..MaxCount, next: 1..MaxCount]
           n == [m EXCEPT !.next = m.next + 1]
<1>1. /\ air \in [Keys -> A] /\ m \in A /\ Sending(m) /\ MaxCount \in Nat \ {0, 1} /\ MaxMessages \in Nat
      /\ air' = [air EXCEPT ![k] = IF m.next = m.count THEN Silence ELSE n]
  BY AssemblerAssumption DEF IInv, TypeOK, Goes
<1>2. Silence \in A
  BY <1>1 DEF Silence
<1>3. m.next # m.count => n \in A /\ Sending(n)
  <2>1. n.of = m.of /\ n.count = m.count /\ n.next = m.next + 1
    BY <1>1
  <2>2. m.next # m.count => m.next + 1 \in 1..m.count /\ m.next + 1 \in 1..MaxCount
    BY <1>1 DEF Sending
  <2>3. m.next # m.count => n \in A
    BY <1>1, <2>2
  <2> HIDE DEF n
  <2> QED
    BY <1>1, <2>1, <2>2, <2>3 DEF Sending
<1> HIDE DEF n, A
<1>4. /\ air' \in [Keys -> A] /\ \A h \in Keys \ {k} : air'[h] = air[h]
      /\ air'[k] = IF m.next = m.count THEN Silence ELSE n
  BY <1>1, <1>2, <1>3
<1> QED
  BY <1>1, <1>3, <1>4 DEF A

(* Counting the messages started stops at PENDING. *)
LEMMA CountedInRange ==
    ASSUME IInv, NEW s, Counted(s)
    PROVE  since' \in [Keys -> 0..PENDING]
  BY AssemblerAssumption DEF IInv, TypeOK, Counted

(* A sentence fed, from a ship or not, with its own key's message as it should be. *)
LEMMA FedKeepsInv ==
    ASSUME IInv, NEW s \in Sentences, Feed(s), Counted(s),
           air' \in [Keys -> [of: 0..MaxMessages, count: 0..MaxCount, next: 1..MaxCount]],
           sent' = sent, noise' \in 0..MaxNoise, intact' \in [Keys -> BOOLEAN],
           \A h \in Keys \ {s.key} : air'[h] = air[h] /\ intact'[h] = intact[h],
           air'[s.key] = Silence \/ Sending(air'[s.key]),
           Follows(s.key)'
    PROVE  IInv'
<1>1. Sound(pending') /\ joined' \in Seq(Pieces) /\ JoinedWhole(joined')
  BY FeedSound DEF IInv
<1>2. TypeOK'
  BY <1>1, CountedInRange DEF IInv, TypeOK, Sound
<1>3. ASSUME NEW h \in Keys PROVE (air'[h] = Silence \/ Sending(air'[h])) /\ Follows(h)'
  <2>1. CASE h = s.key
    BY <2>1
  <2>2. CASE h # s.key
    BY <2>2, OthersFollow DEF IInv
  <2> QED
    BY <2>1, <2>2
<1> QED
  BY <1>1, <1>2, <1>3 DEF IInv, Sound

(* A sentence arrives. *)
LEMMA ArriveKeepsInv == ASSUME IInv, NEW k \in Keys, Arrive(k) PROVE IInv'
<1>1. PICK fill \in {0, 5} : Feed(OnAir(k, fill)) /\ Counted(OnAir(k, fill))
  BY DEF Arrive
<1>2. /\ air' \in [Keys -> [of: 0..MaxMessages, count: 0..MaxCount, next: 1..MaxCount]]
      /\ \A h \in Keys \ {k} : air'[h] = air[h]
      /\ air'[k] = Silence \/ Sending(air'[k])
  BY GoneOn DEF Arrive
<1>3. OnAir(k, fill) \in Sentences /\ OnAir(k, fill).key = k
  BY AssemblerAssumption DEF OnAir, Sentence, Sentences, IInv, TypeOK
<1>4. Follows(k)'
  <2>1. CASE intact[k]
    BY <2>1, OwnFollows
  <2>2. CASE ~intact[k]
    BY <2>2 DEF Arrive, Follows
  <2> QED
    BY <2>1, <2>2
<1>5. intact' \in [Keys -> BOOLEAN] /\ intact' = intact /\ sent' = sent /\ noise' \in 0..MaxNoise
  BY DEF Arrive, Goes, IInv, TypeOK
<1> QED
  BY <1>1, <1>2, <1>3, <1>4, <1>5, FedKeepsInv

(* The next step, one case for each action. *)
LEMMA NextInv == IInv /\ [Next]_vars => IInv'
<1> SUFFICES ASSUME IInv, [Next]_vars PROVE IInv'
  OBVIOUS
<1>0. /\ PENDING \in Nat \ {0} /\ MaxCount \in Nat \ {0, 1} /\ MaxMessages \in Nat /\ MaxNoise \in Nat
  BY AssemblerAssumption
<1>1. ASSUME NEW k \in Keys, Start(k) PROVE IInv'
  <2>1. PICK count \in 1..MaxCount : air' = [air EXCEPT ![k] = [of |-> sent', count |-> count, next |-> 1]]
    BY <1>1 DEF Start
  <2>2. sent \in 0..MaxMessages /\ sent < MaxMessages /\ sent' = sent + 1
    BY <1>1 DEF Start, IInv, TypeOK
  <2>3. sent' \in 1..MaxMessages
    BY <1>0, <2>2
  <2>4. air'[k] = [of |-> sent', count |-> count, next |-> 1]
    BY <2>1 DEF IInv, TypeOK
  <2>5. Sending(air'[k]) /\ air'[k].next = 1
    BY <1>0, <2>3, <2>4 DEF Sending
  <2>6. <<>> \in Seq(Pieces) /\ joined' = <<>> /\ UNCHANGED <<pending, noise>>
    BY <1>1 DEF Start
  <2>7. air' \in [Keys -> [of: 0..MaxMessages, count: 0..MaxCount, next: 1..MaxCount]]
    BY <1>0, <2>1, <2>3 DEF IInv, TypeOK
  <2>8. /\ intact' \in [Keys -> BOOLEAN] /\ since' \in [Keys -> 0..PENDING]
        /\ \A h \in Keys \ {k} : air'[h] = air[h] /\ intact'[h] = intact[h] /\ since'[h] = since[h]
    BY <1>0, <1>1, <2>1 DEF Start, IInv, TypeOK
  <2>9. TypeOK'
    BY <1>0, <2>3, <2>6, <2>7, <2>8 DEF IInv, TypeOK
  <2> QED
    BY <2>5, <2>6, <2>8, <2>9, QuietKeepsInv
<1>2. ASSUME NEW k \in Keys, Arrive(k) PROVE IInv'
  BY <1>2, ArriveKeepsInv
<1>3. ASSUME NEW k \in Keys, Lose(k) PROVE IInv'
  <2>1. /\ air' \in [Keys -> [of: 0..MaxMessages, count: 0..MaxCount, next: 1..MaxCount]]
        /\ \A h \in Keys \ {k} : air'[h] = air[h]
        /\ air'[k] = Silence \/ Sending(air'[k])
    BY <1>3, GoneOn DEF Lose
  <2>2. /\ intact' \in [Keys -> BOOLEAN] /\ ~intact'[k]
        /\ \A h \in Keys \ {k} : intact'[h] = intact[h]
    BY <1>3 DEF Lose, IInv, TypeOK
  <2>3. UNCHANGED <<pending, since, sent, noise>> /\ joined' = <<>> /\ <<>> \in Seq(Pieces)
    BY <1>3 DEF Lose, Goes
  <2>4. TypeOK'
    BY <2>1, <2>2, <2>3 DEF IInv, TypeOK
  <2> QED
    BY <2>1, <2>2, <2>3, <2>4, QuietKeepsInv
<1>4. ASSUME NEW k \in Keys, Noise(k) PROVE IInv'
  <2>1. PICK count \in 0..MaxCount + 1, number \in 0..MaxCount + 1, fill \in Fills :
           /\ Feed(Sentence(k, count, number, fill, 0))
           /\ Counted(Sentence(k, count, number, fill, 0))
    BY <1>4 DEF Noise
  <2>2. Sentence(k, count, number, fill, 0) \in Sentences /\ Sentence(k, count, number, fill, 0).key = k
    BY <1>0 DEF Sentence, Sentences, Fills
  <2>3. /\ noise' \in 0..MaxNoise /\ sent' = sent /\ air' = air
        /\ intact' \in [Keys -> BOOLEAN] /\ ~intact'[k]
        /\ \A h \in Keys \ {k} : intact'[h] = intact[h]
    BY <1>0, <1>4 DEF Noise, IInv, TypeOK
  <2>4. /\ air \in [Keys -> [of: 0..MaxMessages, count: 0..MaxCount, next: 1..MaxCount]]
        /\ air[k] = Silence \/ Sending(air[k])
    BY DEF IInv, TypeOK
  <2>5. Follows(k)'
    BY <2>3 DEF Follows
  <2> QED
    BY <2>1, <2>2, <2>3, <2>4, <2>5, FedKeepsInv
<1>5. CASE UNCHANGED vars
  BY <1>5 DEF vars, IInv, TypeOK, Follows, Mine
<1> QED
  BY <1>1, <1>2, <1>3, <1>4, <1>5 DEF Next

(* The messages in hand stay as they should be, and what has come whole so far is
   followed to its end. *)
THEOREM InvariantHolds == Spec => []IInv
  BY InitInv, NextInv, PTL DEF Spec

(* Type correctness; there is never more in hand than there is room for. *)
THEOREM TypeCorrect == Spec => []TypeOK
<1>1. IInv => TypeOK
  BY DEF IInv
<1> QED
  BY <1>1, InvariantHolds, PTL

(* What Assembler::feed decodes has its sentences from the first to the last, as many as
   each of them says there are, all of one id and channel; and none has two messages in
   hand to go to. *)
THEOREM NoHoles == Spec => []NeverWithAHole
<1>1. IInv => NeverWithAHole
  BY DEF IInv, Sound, JoinedWhole, NeverWithAHole
<1> QED
  BY <1>1, InvariantHolds, PTL

(* A message's last sentence goes only by arriving or by being lost. *)
LEMMA StepJoins ==
    IInv /\ [Next]_vars =>
        [\A k \in Keys :
            LET m == air[k]
                whole == [i \in 1..m.count |-> Piece(k, m.count, i, m.of)]
            IN m # Silence /\ m.next = m.count /\ air'[k] = Silence /\ intact'[k] =>
                  /\ joined' \in {<<>>, whole}
                  /\ since[k] < PENDING => joined' = whole]_vars
<1> SUFFICES ASSUME IInv, Next, NEW k \in Keys, air[k] # Silence, air[k].next = air[k].count,
                    air'[k] = Silence, intact'[k]
             PROVE  LET whole == [i \in 1..air[k].count |-> Piece(k, air[k].count, i, air[k].of)]
                    IN /\ joined' \in {<<>>, whole}
                       /\ since[k] < PENDING => joined' = whole
  OBVIOUS
<1>0. air \in [Keys -> [of: 0..MaxMessages, count: 0..MaxCount, next: 1..MaxCount]]
      /\ intact \in [Keys -> BOOLEAN]
  BY DEF IInv, TypeOK
<1>1. PICK h \in Keys : Start(h) \/ Arrive(h) \/ Lose(h) \/ Noise(h)
  BY DEF Next
<1>2. ~Start(h)
  <2>1. Start(h) => air[h] = Silence /\ \A j \in Keys \ {h} : air'[j] = air[j]
    BY <1>0 DEF Start
  <2>2. CASE h = k
    BY <2>1, <2>2
  <2>3. CASE h # k
    BY <2>1, <2>3
  <2> QED
    BY <2>2, <2>3
<1>3. ~Noise(h)
  BY DEF Noise
<1>4. h = k
  <2>1. Goes(h)
    BY <1>1, <1>2, <1>3 DEF Arrive, Lose
  <2>2. h # k => air'[k] = air[k]
    BY <2>1, GoneOn
  <2> QED
    BY <2>2
<1>5. ~Lose(k)
  BY <1>0 DEF Lose
<1>6. Arrive(k) /\ intact[k]
  BY <1>1, <1>2, <1>3, <1>4, <1>5 DEF Arrive
<1> QED
  BY <1>6, OwnFollows

(* A message that arrives whole is decoded as it was sent and as nothing else, with room
   for it, whatever other keys carry between its sentences. *)
THEOREM WholeIsJoined == Spec => ArrivedIsJoined
  BY InvariantHolds, StepJoins, PTL DEF Spec, ArrivedIsJoined

-----------------------------------------------------------------------------
(* The sentences in a payload, with one more and with one alone. *)
LEMMA OneMore ==
    ASSUME NEW S, NEW payload \in Seq(S), NEW x \in S
    PROVE  ToSet(Append(payload, x)) = ToSet(payload) \cup {x}
<1> DEFINE n == Len(payload)
           more == Append(payload, x)
<1>1. n \in Nat /\ DOMAIN payload = 1..n
  OBVIOUS
<1>2. DOMAIN more = 1..(n + 1) /\ more[n + 1] = x /\ \A i \in 1..n : more[i] = payload[i]
  OBVIOUS
<1> HIDE DEF n, more
<1>3. DOMAIN more = DOMAIN payload \cup {n + 1}
  BY <1>1, <1>2
<1> QED
  BY <1>1, <1>2, <1>3 DEF ToSet, more

LEMMA OneAlone == \A x : ToSet(<<x>>) = {x}
  BY DEF ToSet

(* What feed leaves in hand: messages that were there, and the sentence's own no longer
   unless that makes no sense; the sentence's, begun with it; or the sentence's, joined
   on to by it.  And so with what is joined. *)
Extended(payload, s) == \E q \in ToSet(pending) : Same(q, s) /\ payload = Append(q.payload, PieceOf(s))

LEMMA FedSet ==
    ASSUME Sound(pending), NEW s \in Sentences, Feed(s)
    PROVE  /\ \A p \in ToSet(pending') :
                \/ p \in ToSet(pending) /\ (Senseless(s) \/ ~Same(p, s))
                \/ Same(p, s) /\ s.number = 1 /\ p.payload = <<PieceOf(s)>>
                \/ Same(p, s) /\ Extended(p.payload, s)
           /\ \/ joined' = <<>>
              \/ s.number = 1 /\ joined' = <<PieceOf(s)>>
              \/ Extended(joined', s)
<1>0. pending \in Seq(Partials)
  BY DEF Sound
<1>1. CASE FeedSenseless(s)
  BY <1>1 DEF FeedSenseless
<1>2. CASE FeedWhole(s)
  <2>1. s.number = 1
    BY <1>2 DEF FeedWhole, Senseless, Sentences
  <2>2. ASSUME NEW p \in ToSet(pending) PROVE ~Same(p, s)
    <3>1. p \in Partials
      BY <1>0 DEF ToSet
    <3> QED
      BY <1>2, <3>1 DEF FeedWhole, Same, Partials
  <2> QED
    BY <1>2, <2>1, <2>2 DEF FeedWhole
<1>3. ASSUME NEW p \in ToSet(Without(pending, s))
      PROVE  p \in ToSet(pending) /\ ~Same(p, s)
  BY RestIsOthers DEF ToSet
<1>4. CASE FeedMisfilled(s) \/ FeedOutOfOrder(s)
  BY <1>3, <1>4 DEF FeedMisfilled, FeedOutOfOrder
<1>5. CASE FeedFirst(s)
  <2> DEFINE ws == Without(pending, s)
  <2>1. /\ pending' = Append(Room(ws), Partial(s)) /\ joined' = <<>> /\ s.number = 1
    BY <1>5 DEF FeedFirst, Room
  <2>2. Sound(ws)
    BY RestIsOthers
  <2> HIDE DEF ws
  <2>3. /\ Sound(Room(ws))
        /\ \A j \in DOMAIN Room(ws) : \E i \in DOMAIN ws : Room(ws)[j] = ws[i]
    BY <2>2, RoomIsMade
  <2>4. ASSUME NEW p \in ToSet(pending') PROVE p \in ToSet(ws) \/ p = Partial(s)
    <3>1. Room(ws) \in Seq(Partials)
      BY <2>3 DEF Sound
    <3>2. p \in ToSet(Room(ws)) \/ p = Partial(s)
      <4>1. Room(ws) \in Seq(Partials \cup {Partial(s)})
        BY <3>1
      <4> QED
        BY <2>1, <4>1, OneMore
    <3> QED
      BY <2>3, <3>2 DEF ToSet
  <2>5. Same(Partial(s), s) /\ Partial(s).payload = <<PieceOf(s)>>
    BY DEF Same, Partial
  <2> QED
    BY <1>3, <2>1, <2>4, <2>5 DEF ws
<1>6. CASE FeedNext(s)
  <2>1. ~Senseless(s)
    BY <1>6 DEF FeedNext
  <2>2. PICK i \in Awaiting(s) :
           \/ /\ joined' = Append(pending[i].payload, PieceOf(s))
              /\ pending' = RemoveAt(pending, i)
           \/ /\ joined' = <<>>
              /\ s.number # s.count
              /\ pending' = Longer(i, s)
    BY <1>6 DEF FeedNext, Longer
  <2>3. i \in DOMAIN pending /\ Same(pending[i], s)
    BY DEF Awaiting, Awaits
  <2>4. Extended(Append(pending[i].payload, PieceOf(s)), s)
    BY <2>3 DEF Extended, ToSet
  <2>5. CASE joined' = Append(pending[i].payload, PieceOf(s)) /\ pending' = RemoveAt(pending, i)
    <3>1. Without(pending, s) = RemoveAt(pending, i)
      BY <2>3, WithoutOne
    <3> QED
      BY <1>3, <2>4, <2>5, <3>1
  <2>6. CASE joined' = <<>> /\ s.number # s.count /\ pending' = Longer(i, s)
    <3>1. /\ Len(pending') = Len(pending) /\ Sound(pending')
          /\ pending'[i].key = pending[i].key /\ pending'[i].count = pending[i].count
          /\ pending'[i].payload = Append(pending[i].payload, PieceOf(s))
          /\ \A j \in DOMAIN pending \ {i} : pending'[j] = pending[j]
      BY <2>1, <2>2, <2>6, JoinedIsSound
    <3>2. DOMAIN pending' = DOMAIN pending
      BY <1>0, <3>1 DEF Sound
    <3>3. Same(pending'[i], s)
      BY <2>3, <3>1 DEF Same
    <3>4. ASSUME NEW j \in DOMAIN pending \ {i} PROVE ~Same(pending[j], s)
      BY <2>3, WithoutOne
    <3>5. ASSUME NEW p \in ToSet(pending')
          PROVE  (p \in ToSet(pending) /\ ~Same(p, s)) \/ p = pending'[i]
      BY <3>1, <3>2, <3>4 DEF ToSet
    <3> QED
      BY <2>4, <2>6, <3>1, <3>3, <3>5
  <2> QED
    BY <2>2, <2>5, <2>6
<1> QED
  BY <1>1, <1>2, <1>4, <1>5, <1>6 DEF Feed

-----------------------------------------------------------------------------
(* A sentence of the message being sent on key k is of that key and count. *)
OfItsKey(piece) ==
    \A k \in Keys : air[k] # Silence /\ piece.of = air[k].of =>
                       piece.key = k /\ piece.count = air[k].count

OfKnown(piece) == piece.of \in 0..sent /\ OfItsKey(piece)

(* The messages that p in hand is made of, and that being sent which p may go on with. *)
Concerns(p, piece) ==
    \/ \E other \in ToSet(p.payload) : other.of = piece.of
    \/ piece.of = air[p.key].of /\ air[p.key].count = p.count

OfMessages(payload) == \A piece \in ToSet(payload) : piece.of # 0

(* Of the messages that p in hand concerns, p has every sentence that came. *)
PassesNoneOver(p) ==
    OfMessages(p.payload) => \A piece \in came : Concerns(p, piece) => piece \in ToSet(p.payload)

(* Each message is sent on one key, with a number of its own; what came is known and
   past; and what is in hand passes nothing over. *)
HInv ==
    /\ IInv
    /\ \A k \in Keys : air[k].of \in 0..sent
    /\ \A h, k \in Keys : air[h] # Silence /\ air[h].of = air[k].of => h = k
    /\ \A piece \in came :
        /\ piece \in Pieces /\ OfKnown(piece) /\ piece.of # 0
        /\ \A k \in Keys : air[k] # Silence /\ piece.of = air[k].of => piece.number < air[k].next
    /\ \A p \in ToSet(pending) :
        /\ \A piece \in ToSet(p.payload) : OfKnown(piece)
        /\ PassesNoneOver(p)
    /\ JoinedOverLossOnly

LEMMA HInitInv == HInit => HInv
<1> SUFFICES ASSUME HInit PROVE HInv
  OBVIOUS
<1>1. IInv
  BY InitInv DEF HInit
<1>2. ToSet(pending) = {} /\ came = {} /\ sent = 0 /\ \A k \in Keys : air[k] = Silence
  BY DEF HInit, Init, ToSet
<1> QED
  BY <1>1, <1>2 DEF HInv, JoinedOverLossOnly, Silence

(* A step that feeds nothing, and is about the message on key k only. *)
LEMMA QuietPassesNoneOver ==
    ASSUME HInv, IInv', NEW k \in Keys, UNCHANGED pending, joined' = <<>>, came' \subseteq came,
           \A h \in Keys \ {k} : air'[h] = air[h],
           sent' \in Nat, sent' >= sent,
           \/ air'[k] = Silence
           \/ /\ air[k] # Silence /\ air'[k] # Silence
              /\ air'[k].of = air[k].of /\ air'[k].count = air[k].count
              /\ air'[k].next >= air[k].next
           \/ air'[k] # Silence /\ air'[k].of = sent + 1 /\ sent' = sent + 1
    PROVE  HInv'
<1>1. /\ sent \in Nat /\ sent' \in Nat /\ sent <= sent'
      /\ \A h \in Keys : air[h].of \in 0..sent /\ air[h].next \in Nat /\ air'[h].next \in Nat
  <2>1. /\ air \in [Keys -> [of: 0..MaxMessages, count: 0..MaxCount, next: 1..MaxCount]]
        /\ air' \in [Keys -> [of: 0..MaxMessages, count: 0..MaxCount, next: 1..MaxCount]]
        /\ sent \in 0..MaxMessages
    BY DEF HInv, IInv, TypeOK
  <2> QED
    BY <2>1, AssemblerAssumption DEF HInv
<1>2. air[k] # Silence => air[k].of # 0
  BY AssemblerAssumption DEF HInv, IInv, Sending
<1>3. Silence.of = 0
  BY DEF Silence
<1>4. ASSUME NEW piece, OfKnown(piece)
      PROVE  /\ OfKnown(piece)'
             /\ \A h \in Keys : air'[h] # Silence /\ piece.of = air'[h].of =>
                    air[h] # Silence /\ piece.of = air[h].of /\ air[h].next <= air'[h].next
             /\ \A h \in Keys : piece.of # 0 /\ piece.of = air'[h].of =>
                    piece.of = air[h].of /\ air[h].count = air'[h].count
  <2>1. piece.of \in 0..sent /\ piece.of # sent + 1
    BY <1>1, <1>4 DEF OfKnown
  <2>2. ASSUME NEW h \in Keys, air'[h] # Silence, piece.of = air'[h].of
        PROVE  /\ air[h] # Silence /\ piece.of = air[h].of /\ air[h].next <= air'[h].next
               /\ air[h].count = air'[h].count
    <3>1. CASE h = k
      BY <1>1, <2>1, <2>2, <3>1
    <3>2. CASE h # k
      BY <1>1, <2>2, <3>2
    <3> QED
      BY <3>1, <3>2
  <2>3. ASSUME NEW h \in Keys, piece.of # 0, piece.of = air'[h].of
        PROVE  piece.of = air[h].of /\ air[h].count = air'[h].count
    BY <1>3, <2>2, <2>3
  <2>4. OfItsKey(piece)'
    BY <1>4, <2>2 DEF OfKnown, OfItsKey
  <2>5. piece.of \in 0..sent'
    BY <1>1, <2>1
  <2> QED
    BY <2>2, <2>3, <2>4, <2>5 DEF OfKnown
<1>5. \A h \in Keys : air'[h].of \in 0..sent'
  <2>1. ASSUME NEW h \in Keys PROVE air'[h].of \in 0..sent'
    <3>1. CASE h # k
      BY <1>1, <3>1
    <3>2. CASE h = k
      BY <1>1, <1>3, <3>2
    <3> QED
      BY <3>1, <3>2
  <2> QED
    BY <2>1
<1>6. ASSUME NEW h \in Keys, NEW g \in Keys, air'[h] # Silence, air'[h].of = air'[g].of
      PROVE  h = g
  <2>1. air'[h].of # 0
    BY <1>6, AssemblerAssumption DEF HInv, IInv, Sending
  <2>2. air'[g] # Silence
    BY <1>3, <1>6, <2>1
  <2>3. CASE h # k /\ g # k
    BY <1>6, <2>3 DEF HInv
  <2>4. ASSUME NEW x \in Keys \ {k}, air'[x] # Silence, air'[k] # Silence, air'[x].of = air'[k].of
        PROVE  FALSE
    <3>1. air[x] # Silence /\ air[x].of \in 0..sent /\ air[x].of # sent + 1
      BY <1>1, <2>4
    <3>2. air[k] # Silence /\ air[k].of = air[x].of
      BY <2>4, <3>1
    <3> QED
      BY <3>1, <3>2 DEF HInv
  <2> QED
    BY <1>6, <2>2, <2>3, <2>4
<1>7. ASSUME NEW piece \in came'
      PROVE  /\ piece \in Pieces /\ OfKnown(piece)' /\ piece.of # 0
             /\ \A h \in Keys : air'[h] # Silence /\ piece.of = air'[h].of => piece.number < air'[h].next
  <2>1. piece \in Pieces /\ OfKnown(piece) /\ piece.of # 0
        /\ \A h \in Keys : air[h] # Silence /\ piece.of = air[h].of => piece.number < air[h].next
    BY DEF HInv
  <2>2. ASSUME NEW h \in Keys, air'[h] # Silence, piece.of = air'[h].of
        PROVE  piece.number < air'[h].next
    <3>1. air[h].next <= air'[h].next /\ piece.number < air[h].next
      BY <1>4, <2>1, <2>2
    <3>2. piece.number \in Int
      BY <2>1, AssemblerAssumption DEF Pieces
    <3> QED
      BY <1>1, <3>1, <3>2
  <2> QED
    BY <1>4, <2>1, <2>2
<1>8. ASSUME NEW p \in ToSet(pending') PROVE (\A piece \in ToSet(p.payload) : OfKnown(piece)') /\ PassesNoneOver(p)'
  <2>1. p \in ToSet(pending) /\ PassesNoneOver(p) /\ \A piece \in ToSet(p.payload) : OfKnown(piece)
    BY <1>8 DEF HInv
  <2>2. p.key \in Keys
    <3>1. p \in Partials
      BY <2>1 DEF HInv, IInv, Sound, ToSet
    <3> QED
      BY <3>1 DEF Partials
  <2>3. ASSUME NEW piece \in came', Concerns(p, piece)' PROVE Concerns(p, piece)
    <3>1. OfKnown(piece) /\ piece.of # 0
      BY DEF HInv
    <3> QED
      BY <1>4, <2>2, <2>3, <3>1 DEF Concerns
  <2>4. PassesNoneOver(p)'
    BY <2>1, <2>3 DEF PassesNoneOver
  <2> QED
    BY <1>4, <2>1, <2>4
<1>9. JoinedOverLossOnly'
  BY DEF JoinedOverLossOnly, ToSet
<1> QED
  BY <1>5, <1>6, <1>7, <1>8, <1>9 DEF HInv

(* What is joined passes nothing over, said as it is of what is in hand. *)
LEMMA NothingJoined == joined = <<>> => JoinedOverLossOnly
  BY DEF JoinedOverLossOnly, ToSet

(* The sentences of a payload that a sentence fed made longer. *)
LEMMA ExtendedSet ==
    ASSUME Sound(pending), NEW s \in Sentences, NEW payload, Extended(payload, s)
    PROVE  \E q \in ToSet(pending) : Same(q, s) /\ ToSet(payload) = ToSet(q.payload) \cup {PieceOf(s)}
<1>1. PICK q \in ToSet(pending) : Same(q, s) /\ payload = Append(q.payload, PieceOf(s))
  BY DEF Extended
<1>2. q.payload \in Seq(Pieces \cup {PieceOf(s)})
  <2>1. q \in Partials
    BY DEF Sound, ToSet
  <2>2. q.payload \in Seq(Pieces)
    BY <2>1 DEF Partials
  <2> QED
    BY <2>2
<1> QED
  BY <1>1, <1>2, OneMore

(* A sentence of no message: it may be joined to one, and passes nothing over. *)
LEMMA NoisePassesNoneOver ==
    ASSUME HInv, IInv', NEW k \in Keys, Noise(k), came' \subseteq came
    PROVE  HInv'
<1>1. PICK count \in 0..MaxCount + 1, number \in 0..MaxCount + 1, fill \in Fills :
         Feed(Sentence(k, count, number, fill, 0))
  BY DEF Noise
<1> DEFINE s == Sentence(k, count, number, fill, 0)
<1>2. s \in Sentences /\ PieceOf(s).of = 0 /\ UNCHANGED <<air, sent>>
  BY AssemblerAssumption DEF Sentence, Sentences, Fills, PieceOf, Piece, Noise
<1>3. Feed(s) /\ Sound(pending)
  BY <1>1 DEF HInv, IInv
<1> HIDE DEF s
<1>4. OfKnown(PieceOf(s))
  <2>1. \A h \in Keys : air[h] # Silence => air[h].of # 0
    BY AssemblerAssumption DEF HInv, IInv, Sending
  <2>2. sent \in Nat
    BY AssemblerAssumption DEF HInv, IInv, TypeOK
  <2> QED
    BY <1>2, <2>1, <2>2 DEF OfKnown, OfItsKey
<1>5. ASSUME NEW p \in ToSet(pending'), p \notin ToSet(pending)
      PROVE  PieceOf(s) \in ToSet(p.payload) /\ \A piece \in ToSet(p.payload) : OfKnown(piece)
  <2>1. p.payload = <<PieceOf(s)>> \/ Extended(p.payload, s)
    BY <1>2, <1>3, <1>5, FedSet
  <2>2. CASE p.payload = <<PieceOf(s)>>
    BY <1>4, <2>2, OneAlone
  <2>3. CASE Extended(p.payload, s)
    <3>1. PICK q \in ToSet(pending) : ToSet(p.payload) = ToSet(q.payload) \cup {PieceOf(s)}
      BY <1>2, <1>3, <2>3, ExtendedSet
    <3> QED
      BY <1>4, <3>1 DEF HInv
  <2> QED
    BY <2>1, <2>2, <2>3
<1>6. ASSUME NEW piece, OfKnown(piece) PROVE OfKnown(piece)'
  BY <1>2, <1>6 DEF OfKnown, OfItsKey
<1>7. ASSUME NEW p \in ToSet(pending')
      PROVE  (\A piece \in ToSet(p.payload) : OfKnown(piece)') /\ PassesNoneOver(p)'
  <2>1. CASE p \in ToSet(pending)
    <3>1. PassesNoneOver(p) /\ \A piece \in ToSet(p.payload) : OfKnown(piece)
      BY <2>1 DEF HInv
    <3>2. PassesNoneOver(p)'
      BY <1>2, <3>1 DEF PassesNoneOver, Concerns
    <3> QED
      BY <1>6, <3>1, <3>2
  <2>2. CASE p \notin ToSet(pending)
    <3>1. ~OfMessages(p.payload)
      BY <1>2, <1>5, <2>2 DEF OfMessages
    <3>2. PassesNoneOver(p)'
      BY <3>1 DEF PassesNoneOver
    <3> QED
      BY <1>5, <1>6, <2>2, <3>2
  <2> QED
    BY <2>1, <2>2
<1>8. JoinedOverLossOnly'
  <2>1. joined' = <<>> \/ joined' = <<PieceOf(s)>> \/ Extended(joined', s)
    BY <1>2, <1>3, FedSet
  <2>2. CASE joined' = <<>>
    BY <2>2, NothingJoined DEF JoinedOverLossOnly, ToSet
  <2>3. CASE PieceOf(s) \in ToSet(joined')
    BY <1>2, <2>3 DEF JoinedOverLossOnly
  <2> QED
    BY <1>2, <1>3, <2>1, <2>2, <2>3, OneAlone, ExtendedSet
<1>9. \A piece \in came' : piece \in Pieces /\ OfKnown(piece)' /\ piece.of # 0
  BY <1>6 DEF HInv
<1>10. \A piece \in came' : \A h \in Keys :
          air'[h] # Silence /\ piece.of = air'[h].of => piece.number < air'[h].next
  BY <1>2 DEF HInv
<1>11. /\ \A h \in Keys : air'[h].of \in 0..sent'
       /\ \A g, h \in Keys : air'[g] # Silence /\ air'[g].of = air'[h].of => g = h
  BY <1>2 DEF HInv
<1> QED
  BY <1>7, <1>8, <1>9, <1>10, <1>11 DEF HInv

(* A sentence of the message being sent on key k arrives. *)
LEMMA ArrivePassesNoneOver ==
    ASSUME HInv, IInv', NEW k \in Keys, Arrive(k), came' \subseteq came \cup {PieceOf(OnAir(k, 0))}
    PROVE  HInv'
<1> DEFINE m == air[k]
<1>1. PICK fill \in {0, 5} : Feed(OnAir(k, fill))
  BY DEF Arrive
<1> DEFINE s == OnAir(k, fill)
           x == PieceOf(OnAir(k, 0))
<1>2. /\ air \in [Keys -> [of: 0..MaxMessages, count: 0..MaxCount, next: 1..MaxCount]]
      /\ sent \in Nat /\ Sound(pending) /\ sent' = sent
      /\ air[k] # Silence /\ Sending(air[k]) /\ MaxCount \in Nat
  BY AssemblerAssumption DEF HInv, IInv, TypeOK, Arrive, Goes
<1>3. /\ m.of \in 1..sent /\ m.count \in 1..MaxCount /\ m.next \in 1..m.count
      /\ x.key = k /\ x.count = m.count /\ x.number = m.next /\ x.of = m.of
      /\ s.key = k /\ s.count = m.count /\ s.number = m.next /\ PieceOf(s) = x
  BY <1>2 DEF HInv, Sending, OnAir, Sentence, PieceOf, Piece
<1>4. /\ \A h \in Keys \ {k} : air'[h] = air[h]
      /\ air'[k] = IF m.next = m.count THEN Silence ELSE [m EXCEPT !.next = m.next + 1]
  BY <1>2 DEF Arrive, Goes
<1>5. s \in Sentences /\ ~Senseless(s) /\ x \in Pieces
  BY <1>2, <1>3, AssemblerAssumption DEF OnAir, Sentence, Sentences, Senseless, PieceOf, Piece, Pieces, Sending
<1>6. Feed(s)
  BY <1>1
<1>7. air'[k] = Silence \/ (air'[k].of = m.of /\ air'[k].count = m.count /\ air'[k].next = m.next + 1)
  BY <1>2, <1>4
<1>8. Silence.of = 0
  BY DEF Silence
<1> HIDE DEF s, x, m
<1>9. ASSUME NEW h \in Keys, NEW g \in Keys, air[h] # Silence, air[h].of = air[g].of PROVE h = g
  BY <1>9 DEF HInv
<1>10. ASSUME NEW h \in Keys, air[h].of = m.of PROVE h = k
  BY <1>2, <1>9, <1>10 DEF m
<1>11. OfKnown(x)
  <2>1. x.of \in 0..sent
    BY <1>2, <1>3
  <2> QED
    BY <1>3, <1>10, <2>1 DEF OfKnown, OfItsKey, m
<1>12. ASSUME NEW piece, OfKnown(piece) PROVE OfKnown(piece)'
  <2>1. ASSUME NEW h \in Keys, air'[h] # Silence, piece.of = air'[h].of
        PROVE  piece.key = h /\ piece.count = air'[h].count
    <3>1. air[h] # Silence /\ air[h].of = air'[h].of /\ air[h].count = air'[h].count
      BY <1>2, <1>4, <1>7, <2>1 DEF m
    <3> QED
      BY <1>12, <2>1, <3>1 DEF OfKnown, OfItsKey
  <2> QED
    BY <1>2, <1>12, <2>1 DEF OfKnown, OfItsKey
<1>13. ASSUME NEW piece \in came'
       PROVE  /\ piece \in Pieces /\ OfKnown(piece)' /\ piece.of # 0
              /\ \A h \in Keys : air'[h] # Silence /\ piece.of = air'[h].of => piece.number < air'[h].next
  <2>1. CASE piece = x
    <3>1. ASSUME NEW h \in Keys, air'[h] # Silence, x.of = air'[h].of PROVE x.number < air'[h].next
      <4>1. h = k
        BY <1>3, <1>4, <1>10, <3>1
      <4> QED
        BY <1>3, <1>7, <3>1, <4>1
    <3>2. x.of # 0
      BY <1>2, <1>3
    <3> QED
      BY <1>5, <1>11, <1>12, <2>1, <3>1, <3>2
  <2>2. CASE piece \in came
    <3>1. /\ piece \in Pieces /\ OfKnown(piece) /\ piece.of # 0
          /\ \A h \in Keys : air[h] # Silence /\ piece.of = air[h].of => piece.number < air[h].next
      BY <2>2 DEF HInv
    <3>2. piece.number \in Int
      BY <3>1, <1>2 DEF Pieces
    <3>3. ASSUME NEW h \in Keys, air'[h] # Silence, piece.of = air'[h].of PROVE piece.number < air'[h].next
      <4>1. CASE h = k
        <5>1. piece.number < m.next
          BY <1>2, <1>7, <3>1, <3>3, <4>1 DEF m
        <5> QED
          BY <1>2, <1>3, <1>7, <3>2, <3>3, <4>1, <5>1
      <4>2. CASE h # k
        BY <1>4, <3>1, <3>3, <4>2
      <4> QED
        BY <4>1, <4>2
    <3> QED
      BY <1>12, <3>1, <3>3
  <2> QED
    BY <1>13, <2>1, <2>2 DEF x
<1>14. ASSUME NEW q \in ToSet(pending), Same(q, s), OfMessages(q.payload), NEW piece \in came',
              piece.of = m.of \/ \E other \in ToSet(q.payload) : other.of = piece.of
       PROVE  piece \in ToSet(q.payload) \cup {x}
  <2>1. CASE piece = x
    BY <2>1
  <2>2. CASE piece \in came
    <3>1. q.key = k /\ q.count = m.count
      BY <1>3, <1>14 DEF Same
    <3>2. Concerns(q, piece)
      BY <1>14, <3>1 DEF Concerns, m
    <3> QED
      BY <1>14, <2>2, <3>2 DEF HInv, PassesNoneOver
  <2> QED
    BY <2>1, <2>2 DEF x
<1>15. ASSUME NEW piece \in came', s.number = 1, piece.of = m.of PROVE piece = x
  <2>1. ASSUME piece \in came PROVE FALSE
    <3>1. piece \in Pieces /\ piece.number < m.next
      BY <1>2, <1>15, <2>1 DEF HInv, m
    <3>2. piece.number \in 1..MaxCount
      BY <3>1 DEF Pieces
    <3> QED
      BY <1>2, <1>3, <1>15, <3>1, <3>2
  <2> QED
    BY <2>1 DEF x
<1>16. ASSUME NEW piece \in came', piece.of = air'[k].of PROVE piece.of = m.of
  BY <1>7, <1>8, <1>13, <1>16
<1>17. ASSUME NEW p \in ToSet(pending), ~Same(p, s), OfMessages(p.payload),
              NEW piece \in came', Concerns(p, piece)'
       PROVE  piece \in ToSet(p.payload)
  <2>1. p.key \in Keys /\ \A other \in ToSet(p.payload) : other.key = p.key /\ other.count = p.count
    <3>1. p \in Partials
      BY <1>2 DEF Sound, ToSet
    <3>2. InOrder(p.payload, p.key, p.count)
      BY <1>2 DEF Sound, ToSet
    <3> QED
      BY <3>1, <3>2 DEF InOrder, ToSet, Partials
  <2>2. p.key # k \/ p.count # m.count
    BY <1>3, <1>17 DEF Same
  <2>3. ASSUME NEW other \in ToSet(p.payload) PROVE other.of # m.of
    <3>1. OfKnown(other)
      BY <1>17 DEF HInv
    <3> QED
      BY <1>2, <2>1, <2>2, <3>1 DEF OfKnown, OfItsKey, m
  <2>4. ASSUME piece.of = air'[p.key].of, air'[p.key].count = p.count
        PROVE  p.key # k /\ air'[p.key] = air[p.key] /\ piece.of # m.of
    <3>1. p.key # k
      <4>1. air'[k] = Silence => piece.of = 0 \/ p.key # k
        BY <1>8, <2>4
      <4>2. piece.of # 0
        BY <1>13
      <4> QED
        BY <1>7, <2>2, <2>4, <4>1, <4>2
    <3>2. air'[p.key] = air[p.key]
      BY <1>4, <2>1, <3>1
    <3> QED
      BY <1>10, <2>1, <2>4, <3>1, <3>2
  <2>5. (\E other \in ToSet(p.payload) : other.of = piece.of)
           \/ (piece.of = air'[p.key].of /\ air'[p.key].count = p.count)
    BY <1>17 DEF Concerns
  <2>6. piece.of # m.of
    BY <2>3, <2>4, <2>5
  <2>7. piece \in came
    BY <1>3, <2>6 DEF x
  <2>8. Concerns(p, piece)
    BY <2>4, <2>5 DEF Concerns
  <2> QED
    BY <1>17, <2>7, <2>8 DEF HInv, PassesNoneOver
<1>18. ASSUME NEW p \in ToSet(pending')
       PROVE  (\A piece \in ToSet(p.payload) : OfKnown(piece)') /\ PassesNoneOver(p)'
  <2>1. CASE p \in ToSet(pending) /\ ~Same(p, s)
    <3>1. \A piece \in ToSet(p.payload) : OfKnown(piece)
      BY <2>1 DEF HInv
    <3>2. PassesNoneOver(p)'
      BY <1>17, <2>1 DEF PassesNoneOver
    <3> QED
      BY <1>12, <3>1, <3>2
  <2>2. CASE Same(p, s) /\ s.number = 1 /\ p.payload = <<x>>
    <3>1. ToSet(p.payload) = {x} /\ p.key = k
      BY <1>3, <2>2, OneAlone DEF Same
    <3>2. ASSUME NEW piece \in came', Concerns(p, piece)' PROVE piece = x
      BY <1>3, <1>15, <1>16, <2>2, <3>1, <3>2 DEF Concerns
    <3>3. PassesNoneOver(p)'
      BY <3>1, <3>2 DEF PassesNoneOver
    <3> QED
      BY <1>11, <1>12, <3>1, <3>3
  <2>3. CASE Same(p, s) /\ Extended(p.payload, s)
    <3>1. PICK q \in ToSet(pending) : Same(q, s) /\ ToSet(p.payload) = ToSet(q.payload) \cup {x}
      BY <1>2, <1>3, <1>5, <2>3, ExtendedSet
    <3>2. p.key = k
      BY <1>3, <2>3 DEF Same
    <3>3. ASSUME OfMessages(p.payload), NEW piece \in came', Concerns(p, piece)'
          PROVE  piece \in ToSet(p.payload)
      <4>1. OfMessages(q.payload)
        BY <3>1, <3>3 DEF OfMessages
      <4>2. piece.of = m.of \/ \E other \in ToSet(q.payload) : other.of = piece.of
        BY <1>3, <1>16, <3>1, <3>2, <3>3 DEF Concerns
      <4> QED
        BY <1>14, <3>1, <4>1, <4>2
    <3>4. PassesNoneOver(p)'
      BY <3>3 DEF PassesNoneOver
    <3>5. \A piece \in ToSet(p.payload) : OfKnown(piece)
      BY <1>11, <3>1 DEF HInv
    <3> QED
      BY <1>12, <3>4, <3>5
  <2> QED
    BY <1>2, <1>3, <1>5, <1>6, <2>1, <2>2, <2>3, FedSet
<1>19. ASSUME OfMessages(joined'), NEW piece \in came', NEW other \in ToSet(joined'), piece.of = other.of
       PROVE  piece \in ToSet(joined')
  <2>1. CASE joined' = <<>>
    BY <1>19, <2>1 DEF ToSet
  <2>2. CASE s.number = 1 /\ joined' = <<x>>
    BY <1>3, <1>15, <1>19, <2>2, OneAlone
  <2>3. CASE Extended(joined', s)
    <3>1. PICK q \in ToSet(pending) : Same(q, s) /\ ToSet(joined') = ToSet(q.payload) \cup {x}
      BY <1>2, <1>5, <1>3, <2>3, ExtendedSet
    <3>2. OfMessages(q.payload)
      BY <1>19, <3>1 DEF OfMessages
    <3>3. piece.of = m.of \/ \E more \in ToSet(q.payload) : more.of = piece.of
      BY <1>3, <1>19, <3>1
    <3> QED
      BY <1>14, <3>1, <3>2, <3>3
  <2> QED
    BY <1>2, <1>3, <1>5, <1>6, <2>1, <2>2, <2>3, FedSet
<1>20. JoinedOverLossOnly'
  BY <1>19 DEF JoinedOverLossOnly, OfMessages
<1>21. /\ \A h \in Keys : air'[h].of \in 0..sent'
       /\ \A g, h \in Keys : air'[g] # Silence /\ air'[g].of = air'[h].of => g = h
  <2>1. ASSUME NEW h \in Keys PROVE air'[h].of \in {0, air[h].of} /\ (air'[h] # Silence => air'[h].of = air[h].of)
    BY <1>4, <1>7, <1>8 DEF m
  <2>2. \A h \in Keys : air[h].of \in 0..sent
    BY DEF HInv
  <2>3. ASSUME NEW g \in Keys, NEW h \in Keys, air'[g] # Silence, air'[g].of = air'[h].of PROVE g = h
    <3>1. air[g] # Silence /\ air[g].of # 0
      <4>1. air[g] # Silence
        BY <1>2, <1>4, <2>3
      <4> QED
        BY <4>1, AssemblerAssumption DEF HInv, IInv, Sending
    <3>2. air[g].of = air[h].of
      BY <2>1, <2>3, <3>1
    <3> QED
      BY <1>9, <3>1, <3>2
  <2> QED
    BY <1>2, <2>1, <2>2, <2>3
<1> QED
  BY <1>13, <1>18, <1>20, <1>21 DEF HInv

LEMMA HNextInv == HInv /\ [HNext]_<<vars, came>> => HInv'
<1> SUFFICES ASSUME HInv, [HNext]_<<vars, came>> PROVE HInv'
  OBVIOUS
<1>1. [Next]_vars
  BY DEF HNext, Next
<1>2. IInv'
  BY <1>1, NextInv DEF HInv
<1>3. /\ air \in [Keys -> [of: 0..MaxMessages, count: 0..MaxCount, next: 1..MaxCount]]
      /\ sent \in Nat
  BY AssemblerAssumption DEF HInv, IInv, TypeOK
<1>4. ASSUME NEW k \in Keys, Start(k), Remember(came) PROVE HInv'
  <2>1. PICK count \in 1..MaxCount : air' = [air EXCEPT ![k] = [of |-> sent', count |-> count, next |-> 1]]
    BY <1>4 DEF Start
  <2>2. sent' = sent + 1 /\ sent' \in Nat /\ UNCHANGED pending /\ joined' = <<>> /\ came' \subseteq came
    BY <1>3, <1>4 DEF Start, Remember
  <2>3. /\ \A h \in Keys \ {k} : air'[h] = air[h]
        /\ air'[k] = [of |-> sent', count |-> count, next |-> 1]
    BY <1>3, <2>1
  <2>4. air'[k] # Silence /\ air'[k].of = sent + 1
    BY <1>3, <2>2, <2>3 DEF Silence
  <2>5. sent' >= sent
    BY <1>3, <2>2
  <2> QED
    BY <1>2, <2>2, <2>3, <2>4, <2>5, QuietPassesNoneOver
<1>5. ASSUME NEW k \in Keys, Arrive(k), Remember(came \cup {PieceOf(OnAir(k, 0))}) PROVE HInv'
  <2>1. came' \subseteq came \cup {PieceOf(OnAir(k, 0))}
    BY <1>5 DEF Remember
  <2> QED
    BY <1>2, <1>5, <2>1, ArrivePassesNoneOver
<1>6. ASSUME NEW k \in Keys, Lose(k), Remember(came) PROVE HInv'
  <2>1. /\ UNCHANGED <<pending, sent>> /\ joined' = <<>> /\ came' \subseteq came /\ air[k] # Silence
        /\ air' = [air EXCEPT ![k] = IF air[k].next = air[k].count THEN Silence
                                     ELSE [air[k] EXCEPT !.next = air[k].next + 1]]
    BY <1>6 DEF Lose, Goes, Remember
  <2>2. /\ \A h \in Keys \ {k} : air'[h] = air[h]
        /\ \/ air'[k] = Silence
           \/ air'[k].of = air[k].of /\ air'[k].count = air[k].count /\ air'[k].next = air[k].next + 1
    BY <1>3, <2>1
  <2>3. air[k].next \in Nat /\ air[k].next + 1 >= air[k].next
    BY <1>3, AssemblerAssumption
  <2>4. \/ air'[k] = Silence
        \/ /\ air[k] # Silence /\ air'[k] # Silence
           /\ air'[k].of = air[k].of /\ air'[k].count = air[k].count
           /\ air'[k].next >= air[k].next
    BY <2>1, <2>2, <2>3
  <2>5. sent' \in Nat /\ sent' >= sent
    BY <1>3, <2>1
  <2> QED
    BY <1>2, <2>1, <2>2, <2>4, <2>5, QuietPassesNoneOver
<1>7. ASSUME NEW k \in Keys, Noise(k), Remember(came) PROVE HInv'
  <2>1. came' \subseteq came
    BY <1>7 DEF Remember
  <2> QED
    BY <1>2, <1>7, <2>1, NoisePassesNoneOver
<1>8. CASE UNCHANGED <<vars, came>>
  BY <1>2, <1>8 DEF vars, HInv, OfKnown, OfItsKey, PassesNoneOver, Concerns, JoinedOverLossOnly
<1> QED
  BY <1>4, <1>5, <1>6, <1>7, <1>8 DEF HNext

(* Whatever sentences are lost, of every message that is in what Assembler::feed
   decodes each sentence that came is there: two messages are joined only where the
   first lost all that the second gives, and the second all that the first gives. *)
THEOREM JoinedOverLoss == HSpec => []JoinedOverLossOnly
<1>1. HInv => JoinedOverLossOnly
  BY DEF HInv
<1> QED
  BY <1>1, HInitInv, HNextInv, PTL DEF HSpec
================================================================================
