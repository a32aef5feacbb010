----------------------------- MODULE SourcesProofs -----------------------------
(***************************************************************************)
(* What the hub is told by the readers of its sources, for any number of   *)
(* them, any room in the channel and any recordings.                       *)
(***************************************************************************)
EXTENDS Sources, FiniteSetTheorems, WellFoundedInduction, TLAPS

Places == {"opening", "reading", "pacing", "sending", "retrying", "stopped"}
What == {"connected", "line", "error", "ended"}
Events == [source: Sources, kind: What, line: Nat]
Tales == [last: What \cup {"nothing"}, line: Nat]

(* What the hub is told of a source by an event. *)
Said(e) == [last |-> e.kind, line |-> e.line]

(* How many lines have been read of a source. *)
Read(s) == IF s \in Wires THEN read[s] ELSE LinesIn(recording[s], read[s])

(* A reader with something to send has an event of its own, about the last line read. *)
Holds(s) ==
    /\ at[s] \in {"sending", "pacing"} =>
          hand[s] \in Events /\ hand[s].source = s /\ hand[s].line = Read(s)
    /\ at[s] = "sending" =>
          hand[s].kind \in IF s \in Wires THEN What \ {"ended"} ELSE What \ {"connected"}
    /\ at[s] = "pacing" => s \in Replays /\ hand[s].kind = "line" /\ Read(s) > 0

Types ==
    /\ kind \in [Sources -> {"serial", "tcp", "replay"}]
    /\ recording \in [Sources -> Seq(Nat \cup {Skip})]
    /\ queue \in Seq(Events)
    /\ told \in [Sources -> Tales]
    /\ at \in [Sources -> Places] /\ DOMAIN hand = Sources
    /\ read \in [Sources -> Nat] /\ elapsed \in [Sources -> Nat]
    /\ \A s \in Sources : Holds(s) /\ (s \in Replays => read[s] <= Len(recording[s]))

(* b may be what is told of a source of kind k when a was the last, as Links has it. *)
After(k, a, b) ==
    \/ /\ b.last = "connected" /\ b.line = a.line
       /\ k # "replay" /\ a.last \in {"nothing", "error"}
    \/ /\ b.last = "line" /\ b.line = a.line + 1
       /\ a.last \in IF k # "replay" THEN {"connected", "line"} ELSE {"nothing", "line"}
    \/ /\ b.last = "error" /\ b.line = a.line
       /\ a.last \in IF k # "replay" THEN {"nothing", "error", "connected", "line"}
                     ELSE {"nothing", "line"}
    \/ /\ b.last = "ended" /\ b.line = a.line
       /\ k = "replay" /\ a.last \in {"nothing", "line"}

(* Where a reader that has read n lines may be when a is the last it gave to the channel,
   and what it may have in its hand. *)
GoesOn(k, place, e, n, a) ==
    /\ place \in {"opening", "reading", "retrying"} => a.line = n
    /\ place = "opening" => a.last \in IF k # "replay" THEN {"nothing", "error"} ELSE {"nothing"}
    /\ place = "reading" =>
          a.last \in IF k # "replay" THEN {"connected", "line"} ELSE {"nothing", "line"}
    /\ place = "pacing" => k = "replay" /\ a.last \in {"nothing", "line"} /\ n = a.line + 1
    /\ place = "sending" => After(k, a, Said(e))
    /\ place = "retrying" => k # "replay" /\ a.last = "error"

(* Where the events about one source are in a channel; and what was last put in about it,
   when t has been told of it before. *)
Of(q, s) == {i \in DOMAIN q : q[i].source = s}
IsNewest(q, s, t, a) ==
    \/ Of(q, s) = {} /\ a = t
    \/ \E i \in Of(q, s) : a = Said(q[i]) /\ \A j \in Of(q, s) : j <= i

(* They may be told in the order they are in, after t. *)
Legal(q, s, k, t) ==
    /\ \A i \in Of(q, s) : (\A j \in Of(q, s) : i <= j) => After(k, t, Said(q[i]))
    /\ \A i, j \in Of(q, s) :
          i < j /\ (\A l \in Of(q, s) : l <= i \/ j <= l) => After(k, Said(q[i]), Said(q[j]))

Chain(s) ==
    /\ Legal(queue, s, kind[s], told[s])
    /\ \A a \in Tales :
          IsNewest(queue, s, told[s], a) => GoesOn(kind[s], at[s], hand[s], Read(s), a)

(* How many lines of a recording are let go, to the channel or to wait for room in it. *)
Given(s) == IF at[s] = "pacing" THEN Read(s) - 1 ELSE Read(s)

(* Those, and no others, are in the channel or told; each is due, and has a stamp. *)
Timely(s) ==
    /\ told[s].line <= Given(s) /\ \A i \in Of(queue, s) : queue[i].line <= Given(s)
    /\ \A n \in 1..Read(s) : Stamp(recording[s], n) \in Nat
    /\ \A n \in 1..Given(s) : Stamp(recording[s], n) <= Stamp(recording[s], 1) + elapsed[s]

IInv ==
    /\ Types
    /\ hub = "up" => \A s \in Sources : Chain(s) /\ (s \in Replays => Timely(s))

(* A step of one reader: the others are where they were. *)
StepOf(s) ==
    /\ UNCHANGED <<kind, hub, recording, elapsed, told>>
    /\ at' \in [Sources -> Places] /\ DOMAIN hand' = Sources /\ read' \in [Sources -> Nat]
    /\ \A r \in Sources \ {s} : at'[r] = at[r] /\ hand'[r] = hand[r] /\ read'[r] = read[r]

-----------------------------------------------------------------------------
(* The lines among the records read so far. *)
LEMMA LinesCounted ==
    ASSUME NEW r, NEW n \in Nat
    PROVE  /\ LinesIn(r, n) \in Nat /\ LinesIn(r, 0) = 0
           /\ LinesIn(r, n + 1) = IF r[n + 1] # Skip THEN LinesIn(r, n) + 1 ELSE LinesIn(r, n)
<1> DEFINE S == {i \in 1..n : r[i] # Skip}
           T == {i \in 1..(n + 1) : r[i] # Skip}
<1>1. IsFiniteSet(1..n)
  BY FS_Interval
<1>2. IsFiniteSet(S) /\ Cardinality(S) \in Nat
  <2>1. S \in SUBSET (1..n)
    OBVIOUS
  <2> HIDE DEF S
  <2> QED
    BY <1>1, <2>1, FS_Subset, FS_CardinalityType
<1>3. LinesIn(r, 0) = 0
  <2>1. {i \in 1..0 : r[i] # Skip} = {}
    OBVIOUS
  <2> QED
    BY <2>1, FS_EmptySet DEF LinesIn
<1>4. n + 1 \notin S /\ T = IF r[n + 1] # Skip THEN S \cup {n + 1} ELSE S
  OBVIOUS
<1>5. LinesIn(r, n) = Cardinality(S) /\ LinesIn(r, n + 1) = Cardinality(T)
  BY DEF LinesIn
<1> HIDE DEF S, T
<1>6. Cardinality(S \cup {n + 1}) = Cardinality(S) + 1
  BY <1>2, <1>4, FS_AddElement
<1> QED
  BY <1>2, <1>3, <1>4, <1>5, <1>6

(* A record that counts is a line, and has its stamp. *)
LEMMA LineHasStamp ==
    ASSUME NEW r \in Seq(Nat \cup {Skip}), NEW i \in DOMAIN r, r[i] # Skip
    PROVE  Stamp(r, LinesIn(r, i)) \in Nat
<1>1. \E j \in DOMAIN r : r[j] # Skip /\ LinesIn(r, j) = LinesIn(r, i)
  OBVIOUS
<1>2. PICK j \in DOMAIN r : r[j] # Skip /\ Stamp(r, LinesIn(r, i)) = r[j]
  BY <1>1 DEF Stamp
<1> QED
  BY <1>2

(* Of numbers none of which is above a bound one is the greatest. *)
LEMMA GreatestOf ==
    ASSUME NEW b \in Nat, NEW S \in SUBSET Nat, S # {}, \A x \in S : x <= b
    PROVE  Max(S) \in S /\ Max(S) <= b
<1> DEFINE Gaps == {b - x : x \in S}
<1>1. Gaps \subseteq Nat /\ Gaps # {}
  <2>1. ASSUME NEW x \in S PROVE b - x \in Nat
    BY <2>1
  <2>2. PICK x \in S : TRUE
    OBVIOUS
  <2>3. b - x \in Gaps
    BY <2>2
  <2> QED
    BY <2>1, <2>3
<1>2. PICK least \in Gaps : \A g \in Gaps : ~(g < least)
  <2> HIDE DEF Gaps
  <2>1. PICK least \in Gaps : \A g \in Gaps : ~(<<g, least>> \in OpToRel(<, Nat))
    BY <1>1, NatLessThanWellFounded, WFMin
  <2> QED
    BY <1>1, <2>1, Zenon DEF OpToRel
<1>3. PICK m \in S : least = b - m
  BY <1>2
<1>4. ASSUME NEW x \in S PROVE m >= x
  <2>1. b - x \in Gaps
    OBVIOUS
  <2>2. ~(b - x < b - m)
    BY <1>2, <1>3, <2>1
  <2> QED
    BY <2>2
<1>5. Max(S) \in S
  BY <1>4 DEF Max
<1> QED
  BY <1>5

-----------------------------------------------------------------------------
(* The channel with one event more, at its end. *)
LEMMA OneMoreEvent ==
    ASSUME NEW q \in Seq(Events), NEW e \in Events
    PROVE  LET n == Len(q) + 1
               p == Append(q, e)
           IN /\ p \in Seq(Events) /\ n \in Nat /\ p[n] = e
              /\ \A s : /\ Of(p, s) = IF e.source = s THEN Of(q, s) \cup {n} ELSE Of(q, s)
                        /\ \A i \in Of(q, s) : i \in Nat /\ i < n /\ p[i] = q[i]
<1> DEFINE n == Len(q) + 1
           p == Append(q, e)
<1>1. /\ p \in Seq(Events) /\ n \in Nat /\ n >= 1 /\ p[n] = e /\ DOMAIN p = 1..n /\ DOMAIN q = 1..(n - 1)
      /\ \A i \in DOMAIN q : p[i] = q[i]
  OBVIOUS
<1> HIDE DEF p, n
<1>2. ASSUME NEW s PROVE Of(p, s) = IF e.source = s THEN Of(q, s) \cup {n} ELSE Of(q, s)
  <2>1. DOMAIN p = DOMAIN q \cup {n}
    BY <1>1
  <2> QED
    BY <1>1, <2>1 DEF Of
<1>3. ASSUME NEW s, NEW i \in Of(q, s) PROVE i \in Nat /\ i < n /\ p[i] = q[i]
  BY <1>1 DEF Of
<1> QED
  BY <1>1, <1>2, <1>3 DEF p, n

(* The channel once its first event is taken: the others are one place nearer. *)
LEMMA OneLessEvent ==
    ASSUME NEW q \in Seq(Events), q # <<>>
    PROVE  /\ Tail(q) \in Seq(Events) /\ Head(q) \in Events /\ Head(q) = q[1] /\ 1 \in DOMAIN q
           /\ \A s : /\ \A i \in Of(q, s) : i = 1 \/ (i - 1 \in Of(Tail(q), s) /\ i > 1)
                     /\ \A i \in Of(Tail(q), s) : /\ i \in Nat /\ i >= 1 /\ Tail(q)[i] = q[i + 1]
                                                  /\ i + 1 \in Of(q, s)
                     /\ 1 \in Of(q, s) <=> Head(q).source = s
                     /\ Of(q, s) \subseteq Nat
<1> DEFINE p == Tail(q)
           n == Len(q)
           h == Head(q)
<1>1. /\ p \in Seq(Events) /\ h \in Events /\ h = q[1]
      /\ n \in Nat /\ n >= 1 /\ DOMAIN q = 1..n /\ DOMAIN p = 1..(n - 1)
      /\ \A i \in 1..(n - 1) : p[i] = q[i + 1]
  OBVIOUS
<1> HIDE DEF p, n, h
<1>2. ASSUME NEW s, NEW i \in Of(q, s) PROVE i = 1 \/ (i - 1 \in Of(p, s) /\ i > 1)
  <2>1. i \in 1..n /\ q[i].source = s
    BY <1>1 DEF Of
  <2>2. i # 1 => i - 1 \in 1..(n - 1) /\ i - 1 + 1 = i /\ i > 1
    BY <1>1, <2>1
  <2>3. i # 1 => p[i - 1] = q[i]
    BY <1>1, <2>2
  <2> QED
    BY <1>1, <2>1, <2>2, <2>3 DEF Of
<1>3. ASSUME NEW s, NEW i \in Of(p, s)
      PROVE  i \in Nat /\ i >= 1 /\ p[i] = q[i + 1] /\ i + 1 \in Of(q, s)
  <2>1. i \in 1..(n - 1) /\ p[i].source = s
    BY <1>1 DEF Of
  <2>2. i + 1 \in 1..n /\ p[i] = q[i + 1]
    BY <1>1, <2>1
  <2> QED
    BY <1>1, <2>1, <2>2 DEF Of
<1>4. ASSUME NEW s PROVE (1 \in Of(q, s) <=> h.source = s) /\ Of(q, s) \subseteq Nat
  BY <1>1 DEF Of
<1>5. 1 \in DOMAIN q
  BY <1>1
<1>6. \A s : /\ \A i \in Of(q, s) : i = 1 \/ (i - 1 \in Of(p, s) /\ i > 1)
             /\ \A i \in Of(p, s) : i \in Nat /\ i >= 1 /\ p[i] = q[i + 1] /\ i + 1 \in Of(q, s)
             /\ 1 \in Of(q, s) <=> h.source = s
             /\ Of(q, s) \subseteq Nat
  BY <1>2, <1>3, <1>4, Zenon
<1> QED
  BY <1>1, <1>5, <1>6, Zenon DEF p, h

(* What is put in about a source may be told after what was put in last about it. *)
LEMMA PutIsLegal ==
    ASSUME NEW q \in Seq(Events), NEW e \in Events, NEW k, NEW t \in Tales,
           Legal(q, e.source, k, t),
           \A a \in Tales : IsNewest(q, e.source, t, a) => After(k, a, Said(e))
    PROVE  /\ Legal(Append(q, e), e.source, k, t)
           /\ \A a : IsNewest(Append(q, e), e.source, t, a) => a = Said(e)
<1> DEFINE n == Len(q) + 1
           p == Append(q, e)
           s == e.source
<1>1. /\ n \in Nat /\ p[n] = e /\ Of(p, s) = Of(q, s) \cup {n}
      /\ \A i \in Of(q, s) : i \in Nat /\ i < n /\ p[i] = q[i]
  BY OneMoreEvent
<1>2. ASSUME NEW i \in Of(q, s) PROVE Said(q[i]) \in Tales
  <2>1. q[i] \in Events
    BY DEF Of
  <2> QED
    BY <2>1 DEF Events, Said, Tales
<1> HIDE DEF p, n, s
<1>3. ASSUME NEW i \in Of(p, s), \A j \in Of(p, s) : i <= j
      PROVE  After(k, t, Said(p[i]))
  <2>1. CASE i = n
    <3>1. Of(q, s) = {}
      <4> SUFFICES ASSUME NEW j \in Of(q, s) PROVE FALSE
        OBVIOUS
      <4>1. j \in Of(p, s) /\ j \in Nat /\ j < n
        BY <1>1
      <4>2. n <= j
        BY <1>3, <2>1, <4>1
      <4> QED
        BY <1>1, <4>1, <4>2
    <3>2. IsNewest(q, s, t, t)
      BY <3>1 DEF IsNewest
    <3> QED
      BY <1>1, <2>1, <3>2 DEF s
  <2>2. CASE i \in Of(q, s)
    <3>1. \A j \in Of(q, s) : i <= j
      BY <1>1, <1>3
    <3> QED
      BY <1>1, <2>2, <3>1 DEF Legal, s
  <2> QED
    BY <1>1, <2>1, <2>2
<1>4. ASSUME NEW i \in Of(p, s), NEW j \in Of(p, s), i < j, \A l \in Of(p, s) : l <= i \/ j <= l
      PROVE  After(k, Said(p[i]), Said(p[j]))
  <2>1. i \in Of(q, s)
    BY <1>1, <1>4
  <2>2. CASE j = n
    <3>1. \A l \in Of(q, s) : l <= i
      BY <1>1, <1>4, <2>2
    <3>2. IsNewest(q, s, t, Said(q[i]))
      BY <2>1, <3>1 DEF IsNewest
    <3> QED
      BY <1>1, <1>2, <2>1, <2>2, <3>2 DEF s
  <2>3. CASE j \in Of(q, s)
    <3>1. \A l \in Of(q, s) : l <= i \/ j <= l
      BY <1>1, <1>4
    <3> QED
      BY <1>1, <1>4, <2>1, <2>3, <3>1 DEF Legal, s
  <2> QED
    BY <1>1, <2>2, <2>3
<1>5. ASSUME NEW a, IsNewest(p, s, t, a) PROVE a = Said(e)
  <2>1. PICK i \in Of(p, s) : a = Said(p[i]) /\ \A j \in Of(p, s) : j <= i
    BY <1>1, <1>5 DEF IsNewest
  <2>2. i = n
    BY <1>1, <2>1
  <2> QED
    BY <1>1, <2>1, <2>2
<1>6. Legal(p, s, k, t)
  BY <1>3, <1>4 DEF Legal
<1> QED
  BY <1>5, <1>6 DEF p, s

(* What is put in about another source changes nothing about one. *)
LEMMA PutOfAnother ==
    ASSUME NEW q \in Seq(Events), NEW e \in Events, NEW s, e.source # s, NEW k, NEW t,
           Legal(q, s, k, t)
    PROVE  /\ Legal(Append(q, e), s, k, t)
           /\ \A a : IsNewest(Append(q, e), s, t, a) => IsNewest(q, s, t, a)
<1> DEFINE p == Append(q, e)
<1>1. Of(p, s) = Of(q, s) /\ \A i \in Of(q, s) : p[i] = q[i]
  <2> DEFINE n == Len(q) + 1
  <2>1. \A h : /\ Of(p, h) = IF e.source = h THEN Of(q, h) \cup {n} ELSE Of(q, h)
               /\ \A i \in Of(q, h) : i \in Nat /\ i < n /\ p[i] = q[i]
    BY OneMoreEvent
  <2> HIDE DEF p, n
  <2> QED
    BY <2>1
<1> HIDE DEF p
<1>2. Legal(p, s, k, t)
  BY <1>1 DEF Legal
<1>3. ASSUME NEW a, IsNewest(p, s, t, a) PROVE IsNewest(q, s, t, a)
  BY <1>1, <1>3 DEF IsNewest
<1> QED
  BY <1>2, <1>3 DEF p

(* What is taken out of turn leaves the rest in their order, one place nearer. *)
LEMMA TakeKeepsOrder ==
    ASSUME NEW q \in Seq(Events), q # <<>>, NEW s, NEW k, NEW t, Legal(q, s, k, t),
           NEW i \in Of(Tail(q), s), NEW j \in Of(Tail(q), s), i < j,
           \A l \in Of(Tail(q), s) : l <= i \/ j <= l
    PROVE  After(k, Said(Tail(q)[i]), Said(Tail(q)[j]))
<1> DEFINE p == Tail(q)
<1>1. /\ \A l \in Of(q, s) : l = 1 \/ (l - 1 \in Of(p, s) /\ l > 1)
      /\ \A l \in Of(p, s) : l \in Nat /\ l >= 1 /\ p[l] = q[l + 1] /\ l + 1 \in Of(q, s)
      /\ Of(q, s) \subseteq Nat
  BY OneLessEvent
<1> HIDE DEF p
<1>2. i \in Of(p, s) /\ j \in Of(p, s) /\ \A l \in Of(p, s) : l <= i \/ j <= l
  BY DEF p
<1>3. ASSUME NEW l \in Of(q, s) PROVE l <= i + 1 \/ j + 1 <= l
  <2>1. CASE l = 1
    BY <1>1, <1>2, <2>1
  <2>2. CASE l - 1 \in Of(p, s)
    BY <1>1, <1>2, <2>2
  <2> QED
    BY <1>1, <2>1, <2>2
<1>4. i + 1 \in Of(q, s) /\ j + 1 \in Of(q, s) /\ i + 1 < j + 1
  BY <1>1, <1>2
<1>5. After(k, Said(q[i + 1]), Said(q[j + 1]))
  BY <1>3, <1>4 DEF Legal
<1> QED
  BY <1>1, <1>2, <1>5 DEF p

(* What is taken about a source may be told of it, and the rest may follow. *)
LEMMA TakeIsLegal ==
    ASSUME NEW q \in Seq(Events), q # <<>>, NEW k, NEW t,
           Legal(q, Head(q).source, k, t)
    PROVE  /\ After(k, t, Said(Head(q)))
           /\ Legal(Tail(q), Head(q).source, k, Said(Head(q)))
           /\ \A a : IsNewest(Tail(q), Head(q).source, Said(Head(q)), a)
                        => IsNewest(q, Head(q).source, t, a)
<1> DEFINE p == Tail(q)
           s == Head(q).source
           u == Said(Head(q))
<1>1. /\ \A l \in Of(q, s) : l = 1 \/ (l - 1 \in Of(p, s) /\ l > 1)
      /\ \A l \in Of(p, s) : l \in Nat /\ l >= 1 /\ p[l] = q[l + 1] /\ l + 1 \in Of(q, s)
      /\ 1 \in Of(q, s) /\ Of(q, s) \subseteq Nat /\ u = Said(q[1])
  BY OneLessEvent
<1>2. ASSUME NEW i \in Of(p, s), NEW j \in Of(p, s), i < j, \A l \in Of(p, s) : l <= i \/ j <= l
      PROVE  After(k, Said(p[i]), Said(p[j]))
  BY <1>2, TakeKeepsOrder
<1>3. Legal(q, s, k, t)
  OBVIOUS
<1> HIDE DEF p, s, u
<1>4. After(k, t, u)
  BY <1>1, <1>3 DEF Legal
<1>5. ASSUME NEW i \in Of(p, s), \A j \in Of(p, s) : i <= j PROVE After(k, u, Said(p[i]))
  <2>1. i + 1 \in Of(q, s) /\ 1 < i + 1 /\ p[i] = q[i + 1]
    BY <1>1
  <2>2. \A l \in Of(q, s) : l <= 1 \/ i + 1 <= l
    BY <1>1, <1>5
  <2>3. After(k, Said(q[1]), Said(q[i + 1]))
    BY <1>1, <1>3, <2>1, <2>2 DEF Legal
  <2> QED
    BY <1>1, <2>1, <2>3
<1>6. Legal(p, s, k, u)
  BY <1>2, <1>5 DEF Legal
<1>7. ASSUME NEW a, IsNewest(p, s, u, a) PROVE IsNewest(q, s, t, a)
  <2>1. CASE Of(p, s) = {} /\ a = u
    <3>1. \A l \in Of(q, s) : l <= 1
      BY <1>1, <2>1
    <3> QED
      BY <1>1, <2>1, <3>1 DEF IsNewest
  <2>2. ASSUME NEW i \in Of(p, s), a = Said(p[i]), \A j \in Of(p, s) : j <= i
        PROVE  IsNewest(q, s, t, a)
    <3>1. \A l \in Of(q, s) : l <= i + 1
      BY <1>1, <2>2
    <3>2. i + 1 \in Of(q, s) /\ a = Said(q[i + 1])
      BY <1>1, <2>2
    <3> QED
      BY <3>1, <3>2 DEF IsNewest
  <2> QED
    BY <1>7, <2>1, <2>2 DEF IsNewest
<1> QED
  BY <1>4, <1>6, <1>7 DEF p, s, u

(* What is taken about another source changes nothing about one. *)
LEMMA TakeOfAnother ==
    ASSUME NEW q \in Seq(Events), q # <<>>, NEW s, Head(q).source # s, NEW k, NEW t,
           Legal(q, s, k, t)
    PROVE  /\ Legal(Tail(q), s, k, t)
           /\ \A a : IsNewest(Tail(q), s, t, a) => IsNewest(q, s, t, a)
<1> DEFINE p == Tail(q)
<1>1. /\ \A l \in Of(q, s) : l - 1 \in Of(p, s) /\ l > 1
      /\ \A l \in Of(p, s) : l \in Nat /\ l >= 1 /\ p[l] = q[l + 1] /\ l + 1 \in Of(q, s)
      /\ Of(q, s) \subseteq Nat
  BY OneLessEvent
<1>2. ASSUME NEW i \in Of(p, s), NEW j \in Of(p, s), i < j, \A l \in Of(p, s) : l <= i \/ j <= l
      PROVE  After(k, Said(p[i]), Said(p[j]))
  BY <1>2, TakeKeepsOrder
<1> HIDE DEF p
<1>3. ASSUME NEW i \in Of(p, s), \A j \in Of(p, s) : i <= j PROVE After(k, t, Said(p[i]))
  <2>1. i + 1 \in Of(q, s) /\ p[i] = q[i + 1]
    BY <1>1
  <2>2. \A l \in Of(q, s) : i + 1 <= l
    BY <1>1, <1>3
  <2> QED
    BY <2>1, <2>2 DEF Legal
<1>4. Legal(p, s, k, t)
  BY <1>2, <1>3 DEF Legal
<1>5. ASSUME NEW a, IsNewest(p, s, t, a) PROVE IsNewest(q, s, t, a)
  <2>1. CASE Of(p, s) = {} /\ a = t
    BY <1>1, <2>1 DEF IsNewest
  <2>2. ASSUME NEW i \in Of(p, s), a = Said(p[i]), \A j \in Of(p, s) : j <= i
        PROVE  IsNewest(q, s, t, a)
    <3>1. \A l \in Of(q, s) : l <= i + 1
      BY <1>1, <2>2
    <3>2. i + 1 \in Of(q, s) /\ a = Said(q[i + 1])
      BY <1>1, <2>2
    <3> QED
      BY <3>1, <3>2 DEF IsNewest
  <2> QED
    BY <1>5, <2>1, <2>2 DEF IsNewest
<1> QED
  BY <1>4, <1>5 DEF p

-----------------------------------------------------------------------------
(* The lines read of a source are counted by a number. *)
LEMMA ReadIsNat ==
    ASSUME Types, NEW s \in Sources
    PROVE  Read(s) \in Nat /\ Given(s) \in Int /\ Given(s) <= Read(s)
<1>1. read[s] \in Nat /\ LinesIn(recording[s], read[s]) \in Nat
  BY LinesCounted DEF Types
<1>2. Read(s) \in Nat
  BY <1>1 DEF Read
<1> QED
  BY <1>2 DEF Given

(* The step of one reader leaves the types as they are, and the others' lines. *)
LEMMA StepTypes ==
    ASSUME Types, NEW s \in Sources, StepOf(s), Holds(s)', queue' \in Seq(Events),
           s \in Replays => read'[s] <= Len(recording[s])
    PROVE  /\ Types'
           /\ \A r \in Sources \ {s} : Read(r)' = Read(r) /\ Given(r)' = Given(r)
<1>1. ASSUME NEW r \in Sources \ {s}
      PROVE  Read(r)' = Read(r) /\ Given(r)' = Given(r) /\ Holds(r)'
             /\ (r \in Replays => read[r] <= Len(recording[r]))' 
  <2>1. Read(r)' = Read(r)
    BY DEF StepOf, Read, Wires, Replays
  <2>2. Given(r)' = Given(r)
    BY <2>1 DEF StepOf, Given
  <2>3. Holds(r)'
    BY <2>1 DEF Types, StepOf, Holds, Wires, Replays
  <2>4. (r \in Replays => read[r] <= Len(recording[r]))'
    BY DEF Types, StepOf, Replays
  <2> QED
    BY <2>1, <2>2, <2>3, <2>4
<1>2. (s \in Replays => read[s] <= Len(recording[s]))'
  BY DEF StepOf, Replays
<1>3. Types'
  <2>1. \A r \in Sources : Holds(r)' /\ (r \in Replays => read[r] <= Len(recording[r]))'
    BY <1>1, <1>2
  <2>2. /\ kind' \in [Sources -> {"serial", "tcp", "replay"}]
        /\ recording' \in [Sources -> Seq(Nat \cup {Skip})]
        /\ told' \in [Sources -> Tales] /\ elapsed' \in [Sources -> Nat]
    BY DEF Types, StepOf
  <2> QED
    BY <2>1, <2>2 DEF Types, StepOf
<1> QED
  BY <1>1, <1>3

(* A reader's step that gives nothing to the channel: it need only go on from where it
   was, and let no line go early. *)
LEMMA StepKeeps ==
    ASSUME IInv, NEW s \in Sources, StepOf(s), UNCHANGED queue, Holds(s)',
           s \in Replays => read'[s] <= Len(recording[s]),
           hub = "up" =>
              /\ \A a \in Tales : GoesOn(kind[s], at[s], hand[s], Read(s), a)
                                     => GoesOn(kind[s], at'[s], hand'[s], Read(s)', a)
              /\ s \in Replays /\ Timely(s) => Timely(s)'
    PROVE  IInv'
<1>1. Types /\ queue' \in Seq(Events)
  BY DEF IInv, Types
<1>2. Types' /\ \A r \in Sources \ {s} : Read(r)' = Read(r) /\ Given(r)' = Given(r)
  BY <1>1, StepTypes
<1>3. ASSUME hub' = "up", NEW r \in Sources PROVE Chain(r)' /\ (r \in Replays => Timely(r))'
  <2>1. hub = "up" /\ Chain(r) /\ (r \in Replays => Timely(r)) /\ (r \in Replays <=> (r \in Replays)')
    BY <1>3 DEF IInv, StepOf, Replays
  <2>2. CASE r = s
    <3>1. Chain(s)'
      BY <2>1, <2>2 DEF Chain, StepOf
    <3> QED
      BY <2>1, <2>2, <3>1
  <2>3. CASE r # s
    <3>1. Chain(r)'
      BY <1>2, <2>1, <2>3 DEF Chain, StepOf
    <3>2. r \in Replays => Timely(r)'
      BY <1>2, <2>1, <2>3 DEF Timely, StepOf
    <3> QED
      BY <2>1, <3>1, <3>2
  <2> QED
    BY <2>2, <2>3
<1> QED
  BY <1>2, <1>3 DEF IInv

(* A reader that has something to send, once it may be told of. *)
LEMMA SendKeeps ==
    ASSUME IInv, NEW s \in Sources, NEW what, NEW n \in Nat, Send(s, what, n),
           what \in IF s \in Wires THEN What \ {"ended"} ELSE What \ {"connected"},
           UNCHANGED <<kind, hub, queue, recording, elapsed, told>>,
           read' = [read EXCEPT ![s] = read'[s]], read'[s] \in Nat, Read(s)' = n,
           at[s] # "pacing", s \in Replays => read'[s] = read[s],
           \A a \in Tales : GoesOn(kind[s], at[s], hand[s], Read(s), a)
                               => After(kind[s], a, [last |-> what, line |-> n])
    PROVE  IInv'
<1>1. Types
  BY DEF IInv
<1>2. hand'[s] = Event(s, what, n) /\ at'[s] = "sending"
  BY <1>1 DEF Types, Send, Go
<1>3. hand'[s] \in Events /\ hand'[s].source = s /\ hand'[s].line = n /\ hand'[s].kind = what
      /\ Said(hand'[s]) = [last |-> what, line |-> n]
  BY <1>2 DEF Event, Events, What, Said
<1>4. StepOf(s)
  <2>1. at' \in [Sources -> Places] /\ \A r \in Sources \ {s} : at'[r] = at[r]
    BY <1>1 DEF Types, Send, Go, Places
  <2>2. DOMAIN hand' = Sources /\ \A r \in Sources \ {s} : hand'[r] = hand[r]
    BY <1>1 DEF Types, Send
  <2>3. read' \in [Sources -> Nat] /\ \A r \in Sources \ {s} : read'[r] = read[r]
    BY <1>1 DEF Types
  <2> QED
    BY <2>1, <2>2, <2>3 DEF StepOf
<1>5. Holds(s)'
  BY <1>2, <1>3 DEF Holds, Wires, Replays
<1>6. s \in Replays => read'[s] <= Len(recording[s])
  BY <1>1 DEF Types
<1>7. ASSUME NEW a \in Tales, GoesOn(kind[s], at[s], hand[s], Read(s), a)
      PROVE  GoesOn(kind[s], at'[s], hand'[s], Read(s)', a)
  BY <1>2, <1>3, <1>7 DEF GoesOn
<1>8. s \in Replays /\ Timely(s) => Timely(s)'
  <2>1. s \in Replays => Read(s)' = Read(s)
    BY DEF Read, Wires, Replays
  <2>2. s \in Replays => Given(s)' = Given(s)
    BY <1>2, <2>1 DEF Given
  <2> QED
    BY <2>1, <2>2 DEF Timely
<1> QED
  BY <1>4, <1>5, <1>6, <1>7, <1>8, StepKeeps

(* A wire's reader opens, breaks or reads a line. *)
LEMMA WireStep ==
    ASSUME IInv, NEW s \in Sources, Open(s) \/ Fail(s) \/ ReadLine(s)
    PROVE  IInv'
<1>1. Types
  BY DEF IInv
<1>2. s \in Wires /\ s \notin Replays /\ kind[s] # "replay" /\ Read(s) = read[s] /\ read[s] \in Nat
  BY <1>1 DEF Open, Fail, ReadLine, Wires, Replays, Read, Types
<1>3. UNCHANGED kind => Read(s)' = read'[s]
  BY <1>2 DEF Read, Wires, Replays
<1>4. CASE Open(s)
  <2>1. /\ Send(s, "connected", read[s]) /\ at[s] = "opening"
        /\ UNCHANGED <<kind, hub, queue, read, recording, elapsed, told>>
    BY <1>4 DEF Open
  <2>2. read' = [read EXCEPT ![s] = read'[s]] /\ Read(s)' = read[s] /\ read'[s] \in Nat
    BY <1>1, <1>2, <1>3, <2>1 DEF Types
  <2>3. \A a \in Tales : GoesOn(kind[s], at[s], hand[s], Read(s), a)
                            => After(kind[s], a, [last |-> "connected", line |-> read[s]])
    BY <1>2, <2>1 DEF GoesOn, After
  <2> QED
    BY <1>2, <2>1, <2>2, <2>3, SendKeeps DEF What
<1>5. CASE Fail(s)
  <2>1. /\ Send(s, "error", read[s]) /\ at[s] \in {"opening", "reading"}
        /\ UNCHANGED <<kind, hub, queue, read, recording, elapsed, told>>
    BY <1>5 DEF Fail
  <2>2. read' = [read EXCEPT ![s] = read'[s]] /\ Read(s)' = read[s] /\ read'[s] \in Nat
    BY <1>1, <1>2, <1>3, <2>1 DEF Types
  <2>3. \A a \in Tales : GoesOn(kind[s], at[s], hand[s], Read(s), a)
                            => After(kind[s], a, [last |-> "error", line |-> read[s]])
    BY <1>2, <2>1 DEF GoesOn, After
  <2> QED
    BY <1>2, <2>1, <2>2, <2>3, SendKeeps DEF What
<1>6. CASE ReadLine(s)
  <2>1. /\ Send(s, "line", read[s] + 1) /\ at[s] = "reading"
        /\ UNCHANGED <<kind, hub, queue, recording, elapsed, told>>
        /\ read' = [read EXCEPT ![s] = @ + 1]
    BY <1>6 DEF ReadLine
  <2>2. read' = [read EXCEPT ![s] = read'[s]] /\ Read(s)' = read[s] + 1 /\ read'[s] \in Nat
        /\ read[s] + 1 \in Nat
    BY <1>1, <1>2, <1>3, <2>1 DEF Types
  <2>3. \A a \in Tales : GoesOn(kind[s], at[s], hand[s], Read(s), a)
                            => After(kind[s], a, [last |-> "line", line |-> read[s] + 1])
    BY <1>2, <2>1 DEF GoesOn, After
  <2> QED
    BY <1>2, <2>1, <2>2, <2>3, SendKeeps DEF What
<1> QED
  BY <1>4, <1>5, <1>6

(* A recording's reader gives it up, or is at its end. *)
LEMMA LastStep ==
    ASSUME IInv, NEW s \in Sources, GiveUp(s) \/ ReachEnd(s)
    PROVE  IInv'
<1>1. Types
  BY DEF IInv
<1>2. s \in Replays /\ s \notin Wires /\ kind[s] = "replay" /\ Read(s) \in Nat
      /\ Read(s) = LinesIn(recording[s], read[s])
  BY <1>1, ReadIsNat DEF GiveUp, ReachEnd, Wires, Replays, Read
<1>3. PICK what \in {"error", "ended"} :
         /\ Send(s, what, Read(s)) /\ at[s] \in {"opening", "reading"}
         /\ what = "ended" => at[s] = "reading"
         /\ UNCHANGED <<kind, hub, queue, read, recording, elapsed, told>>
  BY <1>2 DEF GiveUp, ReachEnd
<1>4. read' = [read EXCEPT ![s] = read'[s]] /\ Read(s)' = Read(s) /\ read'[s] \in Nat
  BY <1>1, <1>3 DEF Types, Read, Wires, Replays
<1>5. \A a \in Tales : GoesOn(kind[s], at[s], hand[s], Read(s), a)
                          => After(kind[s], a, [last |-> what, line |-> Read(s)])
  BY <1>2, <1>3 DEF GoesOn, After
<1> QED
  BY <1>2, <1>3, <1>4, <1>5, SendKeeps DEF What

(* A recording's record is read; one that counts has its time to wait for. *)
LEMMA RecordStep ==
    ASSUME IInv, NEW s \in Sources, ReadRecord(s)
    PROVE  IInv'
<1> DEFINE r == recording[s]
           n == read[s]
           e == Event(s, "line", LinesIn(r, n + 1))
<1>1. Types
  BY DEF IInv
<1>2. /\ s \in Replays /\ s \notin Wires /\ kind[s] = "replay"
      /\ n \in Nat /\ n < Len(r) /\ r \in Seq(Nat \cup {Skip})
      /\ Read(s) = LinesIn(r, n)
  BY <1>1 DEF ReadRecord, Wires, Replays, Read, Types
<1>3. /\ LinesIn(r, n) \in Nat
      /\ LinesIn(r, n + 1) = IF r[n + 1] # Skip THEN LinesIn(r, n) + 1 ELSE LinesIn(r, n)
  BY <1>2, LinesCounted
<1>4. /\ at[s] = "reading" /\ read'[s] = n + 1
      /\ Read(s)' = LinesIn(r, n + 1)
      /\ UNCHANGED <<kind, hub, queue, recording, elapsed, told>>
  BY <1>1, <1>2 DEF ReadRecord, Types, Read, Wires, Replays
<1>5. read' \in [Sources -> Nat] /\ (\A x \in Sources \ {s} : read'[x] = read[x])
      /\ read'[s] <= Len(r)
  BY <1>1, <1>2 DEF ReadRecord, Types
<1>6. CASE r[n + 1] = Skip
  <2>1. UNCHANGED <<at, hand>> /\ Read(s)' = Read(s)
    BY <1>2, <1>3, <1>4, <1>6 DEF ReadRecord
  <2>2. Given(s)' = Given(s)
    BY <2>1 DEF Given
  <2>3. Timely(s) => Timely(s)'
    BY <1>4, <2>1, <2>2 DEF Timely
  <2>4. StepOf(s) /\ Holds(s)'
    BY <1>1, <1>4, <1>5, <2>1 DEF StepOf, Types, Holds, Wires, Replays
  <2> QED
    BY <1>4, <1>5, <2>1, <2>3, <2>4, StepKeeps
<1>7. CASE r[n + 1] # Skip
  <2>1. /\ Go(s, "pacing") /\ hand' = [hand EXCEPT ![s] = e]
        /\ Read(s)' = Read(s) + 1 /\ LinesIn(r, n + 1) = Read(s) + 1
        /\ Read(s) \in Nat
    BY <1>2, <1>3, <1>4, <1>7 DEF ReadRecord
  <2>2. at'[s] = "pacing" /\ hand'[s] = e
    BY <1>1, <2>1 DEF Types, Go
  <2>3. e \in Events /\ e.source = s /\ e.line = Read(s)' /\ e.kind = "line"
    BY <1>3, <2>1 DEF Event, Events, What
  <2>4. StepOf(s)
    BY <1>1, <1>4, <1>5, <2>1 DEF StepOf, Types, Go, Places
  <2>5. (s \in Replays)' /\ Read(s)' > 0
    BY <1>2, <1>4, <2>1 DEF Replays
  <2>6. Holds(s)'
    BY <2>2, <2>3, <2>5 DEF Holds
  <2>7. ASSUME NEW a \in Tales, GoesOn(kind[s], at[s], hand[s], Read(s), a)
        PROVE  GoesOn(kind[s], at'[s], hand'[s], Read(s)', a)
    BY <1>2, <1>4, <2>1, <2>2, <2>7 DEF GoesOn
  <2>8. Given(s)' = Given(s) /\ Given(s) = Read(s)
    BY <1>4, <2>1, <2>2 DEF Given
  <2>9. Stamp(r, Read(s)') \in Nat
    <3>1. n + 1 \in DOMAIN r
      BY <1>2
    <3> QED
      BY <1>2, <1>4, <1>7, <3>1, LineHasStamp
  <2>10. ASSUME Timely(s) PROVE Timely(s)'
    <3>1. \A i \in 1..Read(s)' : i = Read(s)' \/ i \in 1..Read(s)
      BY <2>1
    <3>2. \A i \in 1..Read(s)' : Stamp(r, i) \in Nat
      BY <2>9, <2>10, <3>1 DEF Timely
    <3> QED
      BY <1>4, <2>8, <2>10, <3>2 DEF Timely
  <2> QED
    BY <1>4, <1>5, <2>4, <2>6, <2>7, <2>10, StepKeeps
<1> QED
  BY <1>6, <1>7

(* A reader opens its file, or tries its wire again. *)
LEMMA GoStep ==
    ASSUME IInv, NEW s \in Sources, OpenFile(s) \/ TryAgain(s)
    PROVE  IInv'
<1>1. Types
  BY DEF IInv
<1>2. PICK place \in {"opening", "reading"} :
         /\ Go(s, place) /\ at[s] \in {"opening", "retrying"}
         /\ place = "reading" => kind[s] = "replay" /\ at[s] = "opening"
         /\ place = "opening" => at[s] = "retrying"
         /\ UNCHANGED <<kind, hub, queue, hand, read, recording, elapsed, told>>
  BY DEF OpenFile, TryAgain, Replays
<1>3. at'[s] = place
  BY <1>1, <1>2 DEF Types, Go
<1>4. StepOf(s) /\ Holds(s)'
  BY <1>1, <1>2, <1>3 DEF StepOf, Types, Go, Places, Holds
<1>5. Read(s)' = Read(s)
  BY <1>2 DEF Read, Wires, Replays
<1>6. Given(s)' = Given(s)
  BY <1>2, <1>3, <1>5 DEF Given
<1>7. Timely(s) => Timely(s)'
  BY <1>2, <1>5, <1>6 DEF Timely
<1>8. ASSUME NEW a \in Tales, GoesOn(kind[s], at[s], hand[s], Read(s), a)
      PROVE  GoesOn(kind[s], at'[s], hand'[s], Read(s)', a)
  BY <1>2, <1>3, <1>5, <1>8 DEF GoesOn
<1>9. s \in Replays => read'[s] <= Len(recording[s])
  BY <1>1, <1>2 DEF Types
<1> QED
  BY <1>2, <1>4, <1>7, <1>8, <1>9, StepKeeps

(* A line's time has come. *)
LEMMA PlayStep ==
    ASSUME IInv, NEW s \in Sources, Play(s)
    PROVE  IInv'
<1> DEFINE r == recording[s]
           n == Read(s)
<1>1. Types
  BY DEF IInv
<1>2. /\ Go(s, "sending") /\ at[s] = "pacing"
      /\ elapsed[s] >= Offset(r, hand[s].line)
      /\ UNCHANGED <<kind, hub, queue, hand, read, recording, elapsed, told>>
  BY DEF Play
<1>3. /\ s \in Replays /\ s \notin Wires /\ kind[s] = "replay"
      /\ hand[s] \in Events /\ hand[s].source = s /\ hand[s].line = n /\ hand[s].kind = "line"
      /\ n > 0 /\ n \in Nat /\ elapsed[s] \in Nat
  BY <1>1, <1>2, ReadIsNat DEF Types, Holds, Replays, Wires
<1>4. at'[s] = "sending"
  BY <1>1, <1>2 DEF Types, Go
<1>5. Read(s)' = n
  BY <1>2 DEF Read, Wires, Replays
<1>6. Given(s) = n - 1 /\ Given(s)' = n
  BY <1>2, <1>4, <1>5 DEF Given
<1>7. StepOf(s)
  BY <1>1, <1>2 DEF StepOf, Types, Go, Places
<1>8. Holds(s)'
  BY <1>2, <1>3, <1>4, <1>5 DEF Holds, Wires, Replays, What
<1>9. ASSUME NEW a \in Tales, GoesOn(kind[s], at[s], hand[s], n, a)
      PROVE  GoesOn(kind[s], at'[s], hand'[s], Read(s)', a)
  BY <1>2, <1>3, <1>4, <1>5, <1>9 DEF GoesOn, After, Said
<1>10. ASSUME Timely(s) PROVE Timely(s)'
  <2>1. /\ told[s].line <= n - 1 /\ told[s].line \in Nat
        /\ \A i \in Of(queue, s) : queue[i].line <= n - 1 /\ queue[i].line \in Nat
    <3>1. told[s].line \in Nat
      BY <1>1 DEF Types, Tales
    <3>2. \A i \in Of(queue, s) : queue[i] \in Events
      BY <1>1 DEF Types, Of
    <3>3. \A i \in Of(queue, s) : queue[i].line \in Nat
      BY <3>2 DEF Events
    <3> QED
      BY <1>6, <1>10, <3>1, <3>3 DEF Timely
  <2>2. told[s].line <= n /\ \A i \in Of(queue, s) : queue[i].line <= n
    BY <1>3, <2>1
  <2>3. Stamp(r, n) \in Nat /\ Stamp(r, 1) \in Nat
    BY <1>3, <1>10 DEF Timely
  <2>4. Stamp(r, n) <= Stamp(r, 1) + elapsed[s]
    BY <1>2, <1>3, <2>3 DEF Offset
  <2>5. \A i \in 1..n : i = n \/ i \in 1..(n - 1)
    BY <1>3
  <2>6. \A i \in 1..n : Stamp(r, i) <= Stamp(r, 1) + elapsed[s]
    BY <1>6, <1>10, <2>4, <2>5 DEF Timely
  <2> QED
    BY <1>2, <1>5, <1>6, <1>10, <2>2, <2>6 DEF Timely
<1>11. s \in Replays => read'[s] <= Len(recording[s])
  BY <1>1, <1>2 DEF Types
<1> QED
  BY <1>2, <1>7, <1>8, <1>9, <1>10, <1>11, StepKeeps

(* An event goes into the channel. *)
LEMMA PutStep ==
    ASSUME IInv, NEW s \in Sources, Put(s)
    PROVE  IInv'
<1> DEFINE e == hand[s]
<1>1. Types /\ hub = "up"
  BY DEF IInv, Put
<1>2. /\ at[s] = "sending" /\ queue' = Append(queue, e) /\ queue \in Seq(Events)
      /\ hand' = [hand EXCEPT ![s] = NoEvent] /\ Go(s, Onward(s))
      /\ UNCHANGED <<kind, hub, read, recording, elapsed, told>>
  BY <1>1 DEF Put, Types
<1>3. e \in Events /\ e.source = s /\ e.line = Read(s)
      /\ e.kind \in IF s \in Wires THEN What \ {"ended"} ELSE What \ {"connected"}
  BY <1>1, <1>2 DEF Types, Holds
<1>4. /\ at'[s] = Onward(s)
      /\ Onward(s) = IF e.kind \in {"connected", "line"} THEN "reading"
                     ELSE IF s \in Wires THEN "retrying" ELSE "stopped"
  <2>1. at'[s] = Onward(s)
    BY <1>1, <1>2 DEF Types, Go
  <2>2. s \in Replays <=> s \notin Wires
    BY DEF Wires
  <2> QED
    BY <1>3, <2>1, <2>2 DEF Onward, What
<1>5. StepOf(s)
  BY <1>1, <1>2, <1>4 DEF StepOf, Types, Go, Places
<1>6. Read(s)' = Read(s) /\ Read(s) \in Nat
  BY <1>1, <1>2, ReadIsNat DEF Read, Wires, Replays
<1>7. Holds(s)'
  BY <1>4 DEF Holds
<1>8. Given(s)' = Read(s) /\ Given(s) = Read(s)
  BY <1>2, <1>4, <1>6 DEF Given
<1>9. queue' \in Seq(Events)
  BY <1>2, <1>3
<1>10. s \in Replays => read'[s] <= Len(recording[s])
  BY <1>1, <1>2 DEF Types
<1>11. Types' /\ \A r \in Sources \ {s} : Read(r)' = Read(r) /\ Given(r)' = Given(r)
  BY <1>1, <1>5, <1>7, <1>9, <1>10, StepTypes
<1>12. Chain(s)'
  <2>1. Legal(queue, s, kind[s], told[s]) /\ told[s] \in Tales
    BY <1>1 DEF IInv, Chain, Types
  <2>2. \A a \in Tales : IsNewest(queue, s, told[s], a) => After(kind[s], a, Said(e))
    BY <1>1, <1>2 DEF IInv, Chain, GoesOn
  <2>3. /\ Legal(Append(queue, e), s, kind[s], told[s])
        /\ \A a : IsNewest(Append(queue, e), s, told[s], a) => a = Said(e)
    BY <1>2, <1>3, <2>1, <2>2, PutIsLegal
  <2>4. GoesOn(kind[s], at'[s], hand'[s], Read(s), Said(e))
    <3>1. Said(e).last = e.kind /\ Said(e).line = Read(s)
      BY <1>3 DEF Said
    <3>2. s \in Wires <=> kind[s] # "replay"
      BY DEF Wires, Replays
    <3> HIDE DEF e
    <3> QED
      BY <1>3, <1>4, <3>1, <3>2 DEF GoesOn, What
  <2> QED
    BY <1>2, <1>6, <2>3, <2>4 DEF Chain
<1>13. ASSUME NEW r \in Sources \ {s} PROVE Chain(r)'
  <2>1. Chain(r)
    BY <1>1 DEF IInv
  <2>2. /\ Legal(Append(queue, e), r, kind[r], told[r])
        /\ \A a : IsNewest(Append(queue, e), r, told[r], a) => IsNewest(queue, r, told[r], a)
    BY <1>2, <1>3, <2>1, PutOfAnother DEF Chain
  <2> QED
    BY <1>2, <1>5, <1>11, <2>1, <2>2 DEF Chain, StepOf
<1>14. ASSUME NEW r \in Sources, (r \in Replays)' PROVE Timely(r)'
  <2>1. Timely(r) /\ Read(r)' = Read(r) /\ Given(r)' = Given(r)
    BY <1>1, <1>2, <1>6, <1>8, <1>11, <1>14 DEF IInv, Replays
  <2>2. ASSUME NEW i \in Of(queue', r) PROVE queue'[i].line <= Given(r)
    <3> DEFINE n == Len(queue) + 1
          q == Append(queue, e)
    <3>1. /\ queue' = q /\ q[n] = e
          /\ Of(q, r) = IF e.source = r THEN Of(queue, r) \cup {n} ELSE Of(queue, r)
          /\ \A j \in Of(queue, r) : j \in Nat /\ j < n /\ q[j] = queue[j]
      <4>1. queue \in Seq(Events) /\ e \in Events
        BY <1>2, <1>3
      <4>2. \A t : /\ Of(q, t) = IF e.source = t THEN Of(queue, t) \cup {n} ELSE Of(queue, t)
                   /\ \A j \in Of(queue, t) : j \in Nat /\ j < n /\ q[j] = queue[j]
        BY <4>1, OneMoreEvent
      <4>3. queue' = q /\ q[n] = e
        BY <1>2, <4>1
      <4> HIDE DEF q, n, e
      <4> QED
        BY <4>2, <4>3
    <3> HIDE DEF q, n
    <3>2. CASE i \in Of(queue, r)
      BY <2>1, <3>1, <3>2 DEF Timely
    <3>3. CASE e.source = r /\ i = n
      BY <1>3, <1>6, <1>8, <3>1, <3>3
    <3> QED
      BY <2>2, <3>1, <3>2, <3>3
  <2> QED
    BY <1>2, <2>1, <2>2 DEF Timely
<1> QED
  BY <1>11, <1>12, <1>13, <1>14 DEF IInv

(* A reader ends because the hub has gone. *)
LEMMA StopStep ==
    ASSUME IInv, NEW s \in Sources, PutFails(s) \/ FindGone(s)
    PROVE  IInv'
<1>1. Types
  BY DEF IInv
<1>2. /\ Go(s, "stopped") /\ hand' = [hand EXCEPT ![s] = NoEvent] /\ hub # "up"
      /\ UNCHANGED <<kind, hub, queue, read, recording, elapsed, told>>
  BY DEF PutFails, FindGone
<1>3. at'[s] = "stopped"
  BY <1>1, <1>2 DEF Types, Go
<1>4. StepOf(s) /\ Holds(s)'
  BY <1>1, <1>2, <1>3 DEF StepOf, Types, Go, Places, Holds
<1>5. s \in Replays => read'[s] <= Len(recording[s])
  BY <1>1, <1>2 DEF Types
<1> QED
  BY <1>2, <1>4, <1>5, StepKeeps

(* What is told of a source by an event is something that may be told. *)
LEMMA SaidIsTale ==
    ASSUME NEW e \in Events
    PROVE  Said(e) \in Tales
BY DEF Events, Said, Tales

(* The hub takes an event. *)
LEMMA TakeStep ==
    ASSUME IInv, Take
    PROVE  /\ IInv'
           /\ told' = [told EXCEPT ![Head(queue).source] = Said(Head(queue))]
           /\ Head(queue) \in Events
           /\ After(kind[Head(queue).source], told[Head(queue).source], Said(Head(queue)))
<1> DEFINE e == Head(queue)
           h == Head(queue).source
<1>1. Types /\ hub = "up" /\ queue # <<>> /\ queue \in Seq(Events)
  BY DEF IInv, Take, Types
<1>2. /\ queue' = Tail(queue) /\ told' = [told EXCEPT ![h] = Said(e)]
      /\ UNCHANGED <<kind, hub, at, hand, read, recording, elapsed>>
  BY DEF Take, Said
<1>3. e \in Events /\ queue' \in Seq(Events) /\ h \in Sources /\ Said(e) \in Tales
  <2>1. e \in Events /\ Tail(queue) \in Seq(Events)
    BY <1>1
  <2> QED
    BY <1>2, <2>1, SaidIsTale DEF Events
<1>4. \A s \in Sources : /\ Read(s)' = Read(s) /\ Given(s)' = Given(s)
                         /\ s \in Replays <=> (s \in Replays)'
  BY <1>2 DEF Read, Given, Wires, Replays
<1>5. Types'
  <2>1. told' \in [Sources -> Tales]
    BY <1>1, <1>2, <1>3 DEF Types
  <2>2. \A s \in Sources : Holds(s)' /\ (s \in Replays => read[s] <= Len(recording[s]))'
    BY <1>1, <1>2, <1>4 DEF Types, Holds, Wires, Replays
  <2> QED
    BY <1>1, <1>2, <1>3, <2>1, <2>2 DEF Types
<1>6. told'[h] = Said(e) /\ \A s \in Sources \ {h} : told'[s] = told[s]
  BY <1>1, <1>2, <1>3 DEF Types
<1>7. /\ After(kind[h], told[h], Said(e))
      /\ Legal(Tail(queue), h, kind[h], Said(e))
      /\ \A a : IsNewest(Tail(queue), h, Said(e), a) => IsNewest(queue, h, told[h], a)
  <2>1. Legal(queue, h, kind[h], told[h])
    BY <1>1, <1>3 DEF IInv, Chain
  <2> QED
    BY <1>1, <2>1, TakeIsLegal
<1>8. ASSUME NEW s \in Sources, s = h PROVE Chain(s)'
  <2>1. /\ Legal(queue', s, kind[s], told'[s])
        /\ \A a : IsNewest(queue', s, told'[s], a) => IsNewest(queue, s, told[s], a)
    BY <1>2, <1>6, <1>7, <1>8
  <2>2. Chain(s)
    BY <1>1 DEF IInv
  <2> QED
    BY <1>2, <1>4, <2>1, <2>2 DEF Chain
<1>9. ASSUME NEW s \in Sources, s # h PROVE Chain(s)'
  <2>1. Legal(queue, s, kind[s], told[s])
    BY <1>1 DEF IInv, Chain
  <2>2. /\ Legal(Tail(queue), s, kind[s], told[s])
        /\ \A a : IsNewest(Tail(queue), s, told[s], a) => IsNewest(queue, s, told[s], a)
    BY <1>1, <1>9, <2>1, TakeOfAnother
  <2>3. told'[s] = told[s] /\ Chain(s)
    BY <1>1, <1>6, <1>9 DEF IInv
  <2> QED
    BY <1>2, <1>4, <2>2, <2>3 DEF Chain
<1>10. ASSUME NEW s \in Sources, s \in Replays PROVE Timely(s)'
  <2>1. Timely(s)
    BY <1>1, <1>10 DEF IInv
  <2>2. \A i \in Of(queue', s) : queue'[i] = queue[i + 1] /\ i + 1 \in Of(queue, s)
    <3> DEFINE p == Tail(queue)
    <3>1. \A i \in Of(p, s) : i \in Nat /\ i >= 1 /\ p[i] = queue[i + 1] /\ i + 1 \in Of(queue, s)
      BY <1>1, OneLessEvent
    <3>2. queue' = p
      BY <1>2
    <3> HIDE DEF p
    <3> QED
      BY <3>1, <3>2
  <2>3. \A i \in Of(queue', s) : queue'[i].line <= Given(s)
    BY <2>1, <2>2 DEF Timely
  <2>4. told'[s].line <= Given(s)
    <3>1. CASE s = h
      <4>1. 1 \in Of(queue, s) /\ e = queue[1]
        BY <1>1, <3>1, OneLessEvent
      <4> HIDE DEF e, h
      <4> QED
        BY <1>6, <2>1, <3>1, <4>1 DEF Timely, Said
    <3>2. CASE s # h
      BY <1>6, <2>1, <3>2 DEF Timely
    <3> QED
      BY <3>1, <3>2
  <2> QED
    BY <1>2, <1>4, <2>1, <2>3, <2>4 DEF Timely
<1>11. IInv'
  <2>1. \A s \in Sources : Chain(s)'
    BY <1>8, <1>9
  <2>2. \A s \in Sources : (s \in Replays => Timely(s))'
    BY <1>4, <1>10
  <2> QED
    BY <1>5, <2>1, <2>2 DEF IInv
<1> QED
  BY <1>2, <1>3, <1>7, <1>11

(* The hub goes, and the channel with it. *)
LEMMA LeaveStep ==
    ASSUME IInv, Leave
    PROVE  IInv'
<1>1. /\ Types /\ hub' # "up" /\ queue' = <<>>
      /\ UNCHANGED <<kind, at, hand, read, recording, elapsed, told>>
  BY DEF IInv, Leave
<1>2. \A s \in Sources : Read(s)' = Read(s) /\ (s \in Replays <=> (s \in Replays)')
  BY <1>1 DEF Read, Wires, Replays
<1>3. \A s \in Sources : Holds(s)' /\ (s \in Replays => read[s] <= Len(recording[s]))'
  BY <1>1, <1>2 DEF Types, Holds, Wires, Replays
<1>4. Types'
  BY <1>1, <1>3 DEF Types
<1> QED
  BY <1>1, <1>4 DEF IInv

(* Time passes: what was due stays due. *)
LEMMA AdvanceStep ==
    ASSUME IInv, Advance
    PROVE  IInv'
<1>1. Types /\ UNCHANGED <<kind, hub, queue, at, hand, read, recording, told>>
  BY DEF IInv, Advance
<1>2. elapsed' \in [Sources -> Nat] /\ \A s \in Sources : elapsed'[s] >= elapsed[s]
  <2>1. \A s \in Sources : elapsed[s] \in Nat
    BY <1>1 DEF Types
  <2> QED
    BY <2>1 DEF Advance
<1>3. \A s \in Sources : /\ Read(s)' = Read(s) /\ Given(s)' = Given(s)
                         /\ s \in Replays <=> (s \in Replays)'
  BY <1>1 DEF Read, Given, Wires, Replays
<1>4. \A s \in Sources : Holds(s)' /\ (s \in Replays => read[s] <= Len(recording[s]))'
  BY <1>1, <1>3 DEF Types, Holds, Wires, Replays
<1>5. Types'
  BY <1>1, <1>2, <1>4 DEF Types
<1>6. ASSUME NEW s \in Sources, Chain(s) PROVE Chain(s)'
  BY <1>1, <1>3, <1>6 DEF Chain
<1>7. ASSUME NEW s \in Sources, Timely(s) PROVE Timely(s)'
  <2> DEFINE t(n) == Stamp(recording[s], n)
  <2>1. Read(s) \in Nat /\ Given(s) \in Int /\ Given(s) <= Read(s)
        /\ elapsed[s] \in Nat /\ elapsed'[s] \in Nat /\ elapsed'[s] >= elapsed[s]
    BY <1>1, <1>2, ReadIsNat DEF Types
  <2>2. ASSUME NEW n \in 1..Given(s) PROVE t(n) <= t(1) + elapsed'[s]
    <3>1. n \in 1..Read(s) /\ 1 \in 1..Read(s)
      BY <2>1
    <3>2. t(n) \in Nat /\ t(1) \in Nat /\ t(n) <= t(1) + elapsed[s]
      BY <1>7, <3>1 DEF Timely
    <3> QED
      BY <2>1, <3>2
  <2>3. \A n \in 1..Given(s) : t(n) <= t(1) + elapsed'[s]
    BY <2>2
  <2> QED
    BY <1>1, <1>3, <1>7, <2>3 DEF Timely
<1> QED
  BY <1>1, <1>3, <1>5, <1>6, <1>7 DEF IInv

(* At the start nothing is told, held or in the channel. *)
LEMMA StartsTrue == Init => IInv
<1> SUFFICES ASSUME Init PROVE IInv
  OBVIOUS
<1>1. /\ kind \in [Sources -> {"serial", "tcp", "replay"}]
      /\ recording \in [Sources -> Seq(Nat \cup {Skip})]
      /\ queue = <<>> /\ queue \in Seq(Events)
      /\ \A s \in Sources : /\ at[s] = "opening" /\ read[s] = 0
                            /\ told[s] = [last |-> "nothing", line |-> 0]
      /\ at \in [Sources -> Places] /\ DOMAIN hand = Sources
      /\ read \in [Sources -> Nat] /\ elapsed \in [Sources -> Nat]
  <2>1. recording \in [Sources -> Recordings \cup {<<>>}]
    BY DEF Init
  <2>2. <<>> \in Seq(Nat \cup {Skip}) /\ \A r \in Recordings : r \in Seq(Nat \cup {Skip})
    BY SourcesAssumption
  <2>3. recording \in [Sources -> Seq(Nat \cup {Skip})]
    BY <2>1, <2>2
  <2> QED
    BY <2>3 DEF Init, Places
<1>2. told \in [Sources -> Tales]
  BY DEF Init, Tales
<1>3. ASSUME NEW s \in Sources PROVE Read(s) = 0 /\ Given(s) = 0 /\ Holds(s) /\ Of(queue, s) = {}
  <2>1. LinesIn(recording[s], 0) = 0
    BY LinesCounted
  <2>2. Read(s) = 0 /\ Given(s) = 0
    BY <1>1, <2>1 DEF Read, Given
  <2> QED
    BY <1>1, <2>2 DEF Holds, Of
<1>4. ASSUME NEW s \in Sources PROVE read[s] <= Len(recording[s])
  BY <1>1
<1>5. Types
  BY <1>1, <1>2, <1>3, <1>4 DEF Types
<1>6. ASSUME NEW s \in Sources PROVE Chain(s)
  <2>1. Legal(queue, s, kind[s], told[s])
    BY <1>3 DEF Legal
  <2>2. ASSUME NEW a \in Tales, IsNewest(queue, s, told[s], a)
        PROVE  GoesOn(kind[s], at[s], hand[s], Read(s), a)
    <3>1. a = [last |-> "nothing", line |-> 0]
      BY <1>1, <1>3, <2>2 DEF IsNewest
    <3> QED
      BY <1>1, <1>3, <3>1 DEF GoesOn
  <2> QED
    BY <2>1, <2>2 DEF Chain
<1>7. ASSUME NEW s \in Sources PROVE Timely(s)
  BY <1>1, <1>3 DEF Timely
<1> QED
  BY <1>5, <1>6, <1>7 DEF IInv

(* Every step keeps the invariant. *)
LEMMA StaysTrue == IInv /\ [Next]_vars => IInv'
<1> SUFFICES ASSUME IInv, [Next]_vars PROVE IInv'
  OBVIOUS
<1>1. CASE Take
  BY <1>1, TakeStep
<1>2. CASE Leave
  BY <1>2, LeaveStep
<1>3. CASE Advance
  BY <1>3, AdvanceStep
<1>4. ASSUME NEW s \in Sources, Open(s) \/ Fail(s) \/ ReadLine(s) PROVE IInv'
  BY <1>4, WireStep
<1>5. ASSUME NEW s \in Sources, GiveUp(s) \/ ReachEnd(s) PROVE IInv'
  BY <1>5, LastStep
<1>6. ASSUME NEW s \in Sources, OpenFile(s) \/ TryAgain(s) PROVE IInv'
  BY <1>6, GoStep
<1>7. ASSUME NEW s \in Sources, ReadRecord(s) \/ Play(s) \/ Put(s) PROVE IInv'
  BY <1>7, RecordStep, PlayStep, PutStep
<1>8. ASSUME NEW s \in Sources, PutFails(s) \/ FindGone(s) PROVE IInv'
  BY <1>8, StopStep
<1>9. CASE UNCHANGED vars
  BY <1>9 DEF vars, IInv, Types, Holds, Chain, Timely, Given, Read, Wires, Replays
<1> QED
  BY <1>1, <1>2, <1>3, <1>4, <1>5, <1>6, <1>7, <1>8, <1>9 DEF Next

(* The invariant of every reachable state. *)
THEOREM InvariantHolds == Spec => []IInv
BY StartsTrue, StaysTrue, PTL DEF Spec

-----------------------------------------------------------------------------
(* What is played of a recording has been let go. *)
LEMMA EarlyFromInvariant == IInv => NoneEarly
<1> SUFFICES ASSUME IInv, hub = "up", NEW s \in Replays, NEW n \in 1..Played(s)
             PROVE  Stamp(recording[s], n) <= Stamp(recording[s], 1) + elapsed[s]
  BY DEF NoneEarly
<1> DEFINE S == {told[s].line} \cup
                {queue[i].line : i \in {j \in 1..Len(queue) : queue[j].source = s}}
<1>1. Types /\ Timely(s) /\ s \in Sources
  BY DEF IInv, Replays
<1>2. told[s].line \in Nat /\ told[s].line <= Given(s) /\ Given(s) \in Nat
  <2>1. told[s].line \in Nat
    BY <1>1 DEF Types, Tales
  <2> QED
    BY <1>1, <2>1, ReadIsNat DEF Timely
<1>3. ASSUME NEW i \in {j \in 1..Len(queue) : queue[j].source = s}
      PROVE  queue[i].line \in Nat /\ queue[i].line <= Given(s)
  <2>1. i \in Of(queue, s) /\ queue[i] \in Events
    BY <1>1 DEF Types, Of
  <2> QED
    BY <1>1, <2>1 DEF Timely, Events
<1>4. S \subseteq Nat /\ S # {} /\ \A x \in S : x <= Given(s)
  BY <1>2, <1>3
<1>5. Played(s) = Max(S)
  BY DEF Played
<1> HIDE DEF S
<1>6. Max(S) \in Nat /\ Max(S) <= Given(s)
  BY <1>2, <1>4, GreatestOf
<1>7. n \in 1..Given(s)
  BY <1>2, <1>5, <1>6
<1> QED
  BY <1>1, <1>7 DEF Timely

(* No recording is played ahead of itself. *)
THEOREM NothingEarly == Spec => []NoneEarly
BY InvariantHolds, EarlyFromInvariant, PTL

-----------------------------------------------------------------------------
(* What may be told next of a source is what Links has it told. *)
LEMMA AfterIsLinks ==
    ASSUME kind \in [Sources -> {"serial", "tcp", "replay"}], NEW e \in Events,
           After(kind[e.source], told[e.source], Said(e)),
           told' = [told EXCEPT ![e.source] = Said(e)], UNCHANGED kind
    PROVE  IsLinks!Next
<1> DEFINE s == e.source
           a == told[e.source]
<1>1. s \in Sources /\ (s \in IsLinks!Wires <=> kind[s] # "replay")
      /\ (s \in IsLinks!Replays <=> kind[s] = "replay")
  BY DEF Events, IsLinks!Wires, IsLinks!Replays
<1>2. IsLinks!Tell(s, e.kind, e.line)
  BY DEF IsLinks!Tell, Said
<1>3. Said(e).last = e.kind /\ Said(e).line = e.line
  BY DEF Said
<1>4. After(kind[s], a, Said(e))
  OBVIOUS
<1> SUFFICES IsLinks!Connect(s) \/ IsLinks!Hear(s) \/ IsLinks!Fail(s) \/ IsLinks!End(s)
  BY <1>1 DEF IsLinks!Next
<1> HIDE DEF s
<1>5. CASE e.kind = "connected"
  <2>1. e.line = a.line /\ IsLinks!Down(s)
    BY <1>1, <1>3, <1>4, <1>5 DEF After, IsLinks!Down, s
  <2> QED
    BY <1>2, <1>5, <2>1 DEF IsLinks!Connect, s
<1>6. CASE e.kind = "line"
  <2>1. e.line = a.line + 1 /\ (IsLinks!Up(s) \/ IsLinks!Playing(s))
    BY <1>1, <1>3, <1>4, <1>6 DEF After, IsLinks!Up, IsLinks!Playing, s
  <2> QED
    BY <1>2, <1>6, <2>1 DEF IsLinks!Hear, s
<1>7. CASE e.kind = "error"
  <2>1. e.line = a.line /\ (IsLinks!Down(s) \/ IsLinks!Up(s) \/ IsLinks!Playing(s))
    BY <1>1, <1>3, <1>4, <1>7 DEF After, IsLinks!Down, IsLinks!Up, IsLinks!Playing, s
  <2> QED
    BY <1>2, <1>7, <2>1 DEF IsLinks!Fail, s
<1>8. CASE e.kind = "ended"
  <2>1. e.line = a.line /\ IsLinks!Playing(s)
    BY <1>1, <1>3, <1>4, <1>8 DEF After, IsLinks!Playing, s
  <2> QED
    BY <1>2, <1>8, <2>1 DEF IsLinks!End, s
<1> QED
  BY <1>5, <1>6, <1>7, <1>8 DEF Events, What

(* A step of the sources, as Links sees it: what the hub takes, and nothing else. *)
LEMMA StepOfLinks == IInv /\ [Next]_vars => [IsLinks!Next]_<<kind, told>>
<1> SUFFICES ASSUME IInv, [Next]_vars PROVE IsLinks!Next \/ UNCHANGED <<kind, told>>
  OBVIOUS
<1>1. CASE Take
  <2>1. kind \in [Sources -> {"serial", "tcp", "replay"}] /\ UNCHANGED kind
    BY <1>1 DEF IInv, Types, Take
  <2> QED
    BY <1>1, <2>1, TakeStep, AfterIsLinks
<1>2. CASE Leave \/ Advance \/ UNCHANGED vars
  BY <1>2 DEF Leave, Advance, vars
<1>3. ASSUME NEW s \in Sources,
             \/ Open(s) \/ Fail(s) \/ ReadLine(s)
             \/ OpenFile(s) \/ GiveUp(s) \/ ReadRecord(s) \/ Play(s) \/ ReachEnd(s)
             \/ Put(s) \/ PutFails(s) \/ TryAgain(s) \/ FindGone(s)
      PROVE  UNCHANGED <<kind, told>>
  BY <1>3 DEF Open, Fail, ReadLine, OpenFile, GiveUp, ReadRecord, Play, ReachEnd,
              Put, PutFails, TryAgain, FindGone
<1> QED
  BY <1>1, <1>2, <1>3 DEF Next

(* The readers and their channel implement Links: every line once and in order, only of
   a link that is up, and nothing after the end. *)
THEOREM ImplementsLinks == Spec => FollowsLinks
<1>1. Init => IsLinks!Init
  BY DEF Init, IsLinks!Init, IsLinks!Nothing
<1> QED
  BY <1>1, StepOfLinks, InvariantHolds, PTL DEF Spec, FollowsLinks, IsLinks!Spec

-----------------------------------------------------------------------------
(* The places a step can bring a port's thread to. *)
LEMMA NotBack ==
    ASSUME IInv, [Next]_vars, NEW s \in Serials, hub = "gone", at'[s] = "reading"
    PROVE  at[s] = "reading"
<1>1. at \in [Sources -> Places] /\ s \in Sources /\ s \notin Replays /\ hub # "up"
  BY DEF IInv, Types, Serials, Replays
<1>2. CASE Take \/ Leave \/ Advance \/ UNCHANGED vars
  BY <1>2 DEF Take, Leave, Advance, vars
<1>3. ASSUME NEW r \in Sources, OpenFile(r) \/ GiveUp(r) \/ ReadRecord(r) \/ ReachEnd(r)
      PROVE  at'[s] = at[s]
  BY <1>1, <1>3 DEF OpenFile, GiveUp, ReadRecord, ReachEnd, Send, Go
<1>4. ASSUME NEW r \in Sources, Open(r) \/ Fail(r) \/ ReadLine(r) \/ Play(r) \/ PutFails(r)
                                   \/ TryAgain(r) \/ FindGone(r)
      PROVE  at'[s] \in {at[s], "sending", "opening", "stopped"}
  BY <1>1, <1>4 DEF Open, Fail, ReadLine, Play, PutFails, TryAgain, FindGone, Send, Go
<1>5. ASSUME NEW r \in Sources, Put(r) PROVE FALSE
  BY <1>1, <1>5 DEF Put
<1> QED
  BY <1>2, <1>3, <1>4, <1>5 DEF Next

(* A port's thread that has lost its hub is not found waiting for a line again. *)
THEOREM ThreadsStayAway == Spec => NeverBack
<1>1. IInv /\ [Next]_vars =>
         [\A s \in Serials : hub = "gone" /\ at'[s] = "reading" => at[s] = "reading"]_vars
  BY NotBack
<1> QED
  BY <1>1, InvariantHolds, PTL DEF Spec, NeverBack
================================================================================
