------------------------------ MODULE InputsProofs ------------------------------
(***************************************************************************)
(* Proofs about the functions without state, for every input of its kind   *)
(* there may be.                                                           *)
(***************************************************************************)
EXTENDS Inputs, FiniteSetTheorems, SequenceTheorems, WellFoundedInduction, TLAPS

-----------------------------------------------------------------------------
(* A product of integers that are not negative is none that is. *)
LEMMA ProductIsNat == \A x, y \in Nat : x * y \in Nat
  OBVIOUS

(* A square of an integer is not negative. *)
LEMMA SquareIsNat == \A x \in Int : x * x \in Nat
<1> SUFFICES ASSUME NEW x \in Int PROVE x * x >= 0
  OBVIOUS
<1>1. CASE x >= 0
  BY <1>1
<1>2. CASE x < 0
  <2>1. (-x) * (-x) >= 0
    BY <1>2
  <2> QED
    BY <2>1
<1> QED
  BY <1>1, <1>2

(* Only nothing has no square. *)
LEMMA SquareOfNothing == \A x \in Int : x * x = 0 => x = 0
<1> SUFFICES ASSUME NEW x \in Int, x # 0 PROVE x * x # 0
  OBVIOUS
<1>1. CASE x > 0
  <2>1. (x - 1) * x \in Nat
    BY <1>1, ProductIsNat
  <2>2. (x - 1) * x = x * x - x
    OBVIOUS
  <2> QED
    BY <2>1, <2>2, <1>1
<1>2. CASE x < 0
  <2>1. (-x - 1) * (-x) \in Nat
    BY <1>2, ProductIsNat
  <2>2. (-x - 1) * (-x) = x * x + x
    OBVIOUS
  <2> QED
    BY <2>1, <2>2, <1>2
<1> QED
  BY <1>1, <1>2

(* What is greater by a factor stays so. *)
LEMMA ProductIsMonotone ==
    ASSUME NEW x \in Int, NEW y \in Int, NEW f \in Nat, x <= y
    PROVE  x * f <= y * f
<1>1. y - x \in Nat
  OBVIOUS
<1>2. (y - x) * f >= 0
  BY <1>1
<1> QED
  BY <1>2

(* The square of the distance of two vessels after n / m, the one seen p away from the
   other whose relative speed is the root of s: it is at its least where d * m + s * n is. *)
LEMMA SquareCompleted ==
    ASSUME NEW p \in Int, NEW d \in Int, NEW s \in Int, NEW n \in Int, NEW m \in Int
    PROVE  (p * m * m + 2 * d * m * n + s * n * n) * s
              = (p * s - d * d) * m * m + (d * m + s * n) * (d * m + s * n)
  OBVIOUS

(* A distance, or a speed, in steps to the east and to the north. *)
Vectors == [east : Int, north : Int]

(* Products of vectors are integers, and squares not negative. *)
LEMMA DotType ==
    ASSUME NEW v \in Vectors, NEW w \in Vectors
    PROVE  Dot(v, w) \in Int /\ Square(v) \in Nat
<1>1. v.east \in Int /\ v.north \in Int /\ w.east \in Int /\ w.north \in Int
  BY DEF Vectors
<1>2. v.east * w.east \in Int /\ v.north * w.north \in Int
  BY <1>1
<1>3. v.east * v.east \in Nat /\ v.north * v.north \in Nat
  BY <1>1, SquareIsNat
<1> QED
  BY <1>2, <1>3 DEF Dot, Square

(* The distance after n / m in terms of what Closest looks at. *)
LEMMA SquareAtIs ==
    ASSUME NEW at \in Vectors, NEW relative \in Vectors, NEW n \in Int, NEW m \in Int
    PROVE  SquareAt(at, relative, n, m)
              = Square(at) * m * m + 2 * Dot(at, relative) * m * n + Square(relative) * n * n
<1> DEFINE a == at.east b == at.north x == relative.east y == relative.north
<1>1. a \in Int /\ b \in Int /\ x \in Int /\ y \in Int
  BY DEF Vectors
<1>2. SquareAt(at, relative, n, m) = (m * a + x * n) * (m * a + x * n) + (m * b + y * n) * (m * b + y * n)
  BY DEF SquareAt, Square, Dot
<1>3. Square(at) = a * a + b * b /\ Dot(at, relative) = a * x + b * y /\ Square(relative) = x * x + y * y
  BY DEF Square, Dot
<1> HIDE DEF a, b, x, y
<1>4. (m * a + x * n) * (m * a + x * n) = a * a * m * m + 2 * (a * x) * m * n + x * x * n * n
  BY <1>1
<1>5. (m * b + y * n) * (m * b + y * n) = b * b * m * m + 2 * (b * y) * m * n + y * y * n * n
  BY <1>1
<1>6. (a * a + b * b) * m * m = a * a * m * m + b * b * m * m
  BY <1>1
<1>7. 2 * (a * x + b * y) * m * n = 2 * (a * x) * m * n + 2 * (b * y) * m * n
  BY <1>1
<1>8. (x * x + y * y) * n * n = x * x * n * n + y * y * n * n
  BY <1>1
<1>9. a * a * m * m \in Int /\ b * b * m * m \in Int /\ 2 * (a * x) * m * n \in Int
      /\ 2 * (b * y) * m * n \in Int /\ x * x * n * n \in Int /\ y * y * n * n \in Int
  BY <1>1
<1>10. Square(at) * m * m + 2 * Dot(at, relative) * m * n + Square(relative) * n * n
          = (a * a + b * b) * m * m + 2 * (a * x + b * y) * m * n + (x * x + y * y) * n * n
  BY <1>3
<1> DEFINE aa == a * a * m * m bb == b * b * m * m ax == 2 * (a * x) * m * n
           by == 2 * (b * y) * m * n xx == x * x * n * n yy == y * y * n * n
<1>11. SquareAt(at, relative, n, m) = (aa + ax + xx) + (bb + by + yy)
  BY <1>2, <1>4, <1>5
<1>12. Square(at) * m * m + 2 * Dot(at, relative) * m * n + Square(relative) * n * n
          = (aa + bb) + (ax + by) + (xx + yy)
  BY <1>10, <1>6, <1>7, <1>8
<1>13. aa \in Int /\ bb \in Int /\ ax \in Int /\ by \in Int /\ xx \in Int /\ yy \in Int
  BY <1>9
<1> HIDE DEF aa, bb, ax, by, xx, yy
<1> QED
  BY <1>11, <1>12, <1>13

(* A relative speed of nothing is none. *)
LEMMA NoSpeed ==
    ASSUME NEW at \in Vectors, NEW relative \in Vectors, Square(relative) = 0
    PROVE  Dot(at, relative) = 0
<1> DEFINE x == relative.east y == relative.north
<1>1. x \in Int /\ y \in Int /\ at.east \in Int /\ at.north \in Int
  BY DEF Vectors
<1>2. x * x + y * y = 0
  BY DEF Square, Dot
<1>3. x * x \in Nat /\ y * y \in Nat
  BY <1>1, SquareIsNat
<1>4. x * x = 0 /\ y * y = 0
  BY <1>2, <1>3
<1>5. x = 0 /\ y = 0
  BY <1>4, <1>1, SquareOfNothing
<1> QED
  BY <1>1, <1>5 DEF Dot

(* The closest approach is no farther than any time from now on, n / m, and is at a time
   from now on: both approaching and going away. *)
LEMMA NeverCloser ==
    ASSUME NEW at \in Vectors, NEW relative \in Vectors
    PROVE  LET c == Closest(at, relative)
           IN /\ c.time \in Nat /\ c.per \in Nat \ {0} /\ c.square \in Nat
              /\ c.square = SquareAt(at, relative, c.time, c.per)
              /\ \A n, m \in Nat : c.square * (m * m) <= SquareAt(at, relative, n, m) * (c.per * c.per)
<1> DEFINE c == Closest(at, relative)
           p == Square(at) d == Dot(at, relative) s == Square(relative)
<1>1. p \in Nat /\ d \in Int /\ s \in Nat
  BY DotType
<1>2. c.time = IF s = 0 \/ d > 0 THEN 0 ELSE -d
  BY DEF Closest
<1>3. c.per = IF s = 0 THEN 1 ELSE s
  BY DEF Closest
<1>4. c.time \in Nat /\ c.per \in Nat \ {0}
  BY <1>1, <1>2, <1>3
<1>5. c.square = SquareAt(at, relative, c.time, c.per)
  <2>1. c.square = Square([east |-> at.east * c.per + relative.east * c.time,
                           north |-> at.north * c.per + relative.north * c.time])
    BY DEF Closest
  <2>2. at.east * c.per = c.per * at.east /\ at.north * c.per = c.per * at.north
    BY <1>4 DEF Vectors
  <2> QED
    BY <2>1, <2>2 DEF SquareAt
<1>6. \A n, m \in Nat : SquareAt(at, relative, n, m) = p * m * m + 2 * d * m * n + s * n * n
  BY SquareAtIs
<1>7. \A n, m \in Nat : SquareAt(at, relative, n, m) \in Nat
  <2> SUFFICES ASSUME NEW n \in Nat, NEW m \in Nat PROVE SquareAt(at, relative, n, m) \in Nat
    OBVIOUS
  <2>1. m * at.east + relative.east * n \in Int /\ m * at.north + relative.north * n \in Int
    BY DEF Vectors
  <2> QED
    BY <2>1, DotType DEF SquareAt, Vectors
<1>8. c.square \in Nat
  BY <1>4, <1>5, <1>7
<1>9. c.square = p * c.per * c.per + 2 * d * c.per * c.time + s * c.time * c.time
  BY <1>4, <1>5, <1>6
<1>10. ASSUME NEW n \in Nat, NEW m \in Nat
       PROVE  c.square * (m * m) <= SquareAt(at, relative, n, m) * (c.per * c.per)
  <2> DEFINE q == SquareAt(at, relative, n, m)
  <2>1. q = p * m * m + 2 * d * m * n + s * n * n /\ q \in Nat
    BY <1>6, <1>7
  <2>2. p * m * m \in Nat /\ s * n * n \in Nat /\ m * n \in Nat /\ m * m \in Nat
    BY <1>1, ProductIsNat
  <2> HIDE DEF q
  <2>3. CASE s = 0
    <3>1. d = 0
      BY <2>3, NoSpeed
    <3>2. c.per = 1 /\ c.time = 0
      BY <2>3, <1>2, <1>3
    <3> HIDE DEF c, p, d, s
    <3>3. c.square = p /\ q = p * m * m
      BY <3>1, <3>2, <2>3, <1>9, <2>1, <1>1
    <3>4. p * m * m = p * (m * m)
      BY <1>1
    <3> QED
      BY <3>2, <3>3, <3>4, <1>1, <2>1, <2>2 DEF q
  <2>4. CASE s # 0 /\ d > 0
    <3>1. c.per = s /\ c.time = 0
      BY <2>4, <1>2, <1>3
    <3> HIDE DEF c, p, d, s
    <3>2. c.square = p * (s * s)
      BY <3>1, <1>9, <1>1
    <3>3. 2 * d * m * n >= 0
      <4>1. d * (m * n) \in Nat
        BY <2>2, <2>4, <1>1, ProductIsNat
      <4>2. 2 * d * m * n = 2 * (d * (m * n))
        BY <1>1
      <4> QED
        BY <4>1, <4>2
    <3>4. p * m * m <= q
      BY <2>1, <2>2, <3>3, <1>1
    <3>5. s * s \in Nat
      BY <1>1, ProductIsNat
    <3>6. (p * m * m) * (s * s) <= q * (s * s)
      BY <3>4, <3>5, <2>1, <2>2, ProductIsMonotone
    <3>7. (p * m * m) * (s * s) = (p * (s * s)) * (m * m)
      BY <1>1
    <3> QED
      BY <3>1, <3>2, <3>6, <3>7 DEF q
  <2>5. CASE s # 0 /\ ~(d > 0)
    <3>1. c.per = s /\ c.time = -d
      BY <2>5, <1>2, <1>3
    <3> HIDE DEF c, p, d, s
    <3>2. c.square = (p * s - d * d) * s
      BY <3>1, <1>9, <1>1
    <3>3. q * s = (p * s - d * d) * m * m + (d * m + s * n) * (d * m + s * n)
      BY <2>1, <1>1, SquareCompleted
    <3>4. (d * m + s * n) * (d * m + s * n) \in Nat
      <4>1. d * m + s * n \in Int
        BY <1>1
      <4> QED
        BY <4>1, SquareIsNat
    <3>5. (p * s - d * d) * m * m \in Int /\ q * s \in Int
      BY <1>1, <2>1
    <3>6. (p * s - d * d) * m * m <= q * s
      BY <3>3, <3>4, <3>5
    <3>7. ((p * s - d * d) * m * m) * s <= (q * s) * s
      BY <3>5, <3>6, <1>1, ProductIsMonotone
    <3>8. ((p * s - d * d) * m * m) * s = ((p * s - d * d) * s) * (m * m)
      BY <1>1
    <3>9. (q * s) * s = q * (s * s)
      BY <1>1, <2>1
    <3> QED
      BY <3>1, <3>2, <3>7, <3>8, <3>9 DEF q
  <2> QED
    BY <2>3, <2>4, <2>5
<1> QED
  BY <1>4, <1>5, <1>8, <1>10

-----------------------------------------------------------------------------
(* What is left of a division. *)
LEMMA Remainder ==
    ASSUME NEW x \in Int, NEW n \in Nat \ {0}
    PROVE  x % n \in 0..(n - 1) /\ x \div n \in Int /\ x % n = x - n * (x \div n)
<1>1. x \div n \in Int
  OBVIOUS
<1>2. x % n \in Int
  OBVIOUS
<1>3. x % n >= 0
  OBVIOUS
<1>4. x % n < n
  OBVIOUS
<1>5. x % n = x - n * (x \div n)
  OBVIOUS
<1> QED
  BY <1>1, <1>2, <1>3, <1>4, <1>5

(* There is one way to divide. *)
LEMMA OneRemainder ==
    ASSUME NEW n \in Nat \ {0}, NEW q \in Int, NEW k \in Int, NEW r \in 0..(n - 1), NEW s \in 0..(n - 1),
           n * q + r = n * k + s
    PROVE  r = s
<1>1. n * (q - k) = s - r
  <2>1. n * (q - k) = n * q - n * k
    OBVIOUS
  <2> QED
    BY <2>1
<1>2. CASE q - k >= 1
  <2>1. n * (q - k - 1) \in Nat
    BY <1>2, ProductIsNat
  <2>2. n * (q - k - 1) = n * (q - k) - n
    OBVIOUS
  <2> QED
    BY <2>1, <2>2, <1>1
<1>3. CASE q - k <= -1
  <2>1. n * (k - q - 1) \in Nat
    BY <1>3, ProductIsNat
  <2>2. n * (k - q - 1) = -(n * (q - k)) - n
    OBVIOUS
  <2> QED
    BY <2>1, <2>2, <1>1
<1>4. CASE q - k = 0
  BY <1>1, <1>4
<1> QED
  BY <1>2, <1>3, <1>4

(* Going about any number of times makes no difference. *)
LEMMA AboutAgain ==
    ASSUME NEW n \in Nat \ {0}, NEW x \in Int, NEW y \in Int, NEW k \in Int, x = y + n * k
    PROVE  x % n = y % n
<1>1. x % n = x - n * (x \div n) /\ y % n = y - n * (y \div n)
  BY Remainder
<1>2. x \div n \in Int /\ y \div n \in Int /\ x % n \in 0..(n - 1) /\ y % n \in 0..(n - 1)
  BY Remainder
<1> DEFINE p == x \div n  q == y \div n  r == x % n  s == y % n
<1>3. r = x - n * p /\ s = y - n * q
  BY <1>1
<1>4. p \in Int /\ q \in Int /\ r \in 0..(n - 1) /\ s \in 0..(n - 1)
  BY <1>2
<1> HIDE DEF p, q, r, s
<1>5. n * (q + k) = n * q + n * k
  BY <1>4
<1>6. n * p + r = n * (q + k) + s
  <2> DEFINE np == n * p  nq == n * q  nk == n * k
  <2>1. np \in Int /\ nq \in Int /\ nk \in Int
    BY <1>4
  <2>2. r = x - np /\ s = y - nq /\ x = y + nk /\ n * (q + k) = nq + nk
    BY <1>3, <1>5
  <2> HIDE DEF np, nq, nk
  <2>3. np + r = nq + nk + s
    BY <2>1, <2>2, <1>4
  <2> QED
    BY <2>2, <2>3 DEF np
<1>7. r = s
  BY <1>4, <1>6, OneRemainder
<1> QED
  BY <1>7 DEF r, s

(* Two longitudes turned by as much are as far from each other. *)
LEMMA TurnedAlike ==
    ASSUME NEW from \in Int, NEW to \in Int, NEW by \in Int, NEW c \in Int
    PROVE  (((to + by) % Round) - ((from + by) % Round) + c) % Round = (to - from + c) % Round
<1> DEFINE t == to + by  f == from + by
           r == t % Round  s == f % Round  p == t \div Round  q == f \div Round
<1>1. Round \in Nat \ {0}
  BY ApproachAssumption
<1>0. t \in Int /\ f \in Int
  OBVIOUS
<1> HIDE DEF t, f
<1>2. r = t - Round * p /\ s = f - Round * q
  BY <1>0, <1>1, Remainder
<1>3. p \in Int /\ q \in Int /\ r \in Int /\ s \in Int
  BY <1>0, <1>1, Remainder
<1> HIDE DEF p, q, r, s
<1>4. Round * (q - p) = Round * q - Round * p
  BY <1>1, <1>3
<1>5. r - s + c = (t - f + c) + Round * (q - p)
  <2> DEFINE rq == Round * q  rp == Round * p
  <2>1. rq \in Int /\ rp \in Int
    BY <1>1, <1>3
  <2>2. r = t - rp /\ s = f - rq /\ Round * (q - p) = rq - rp
    BY <1>2, <1>4
  <2> HIDE DEF rq, rp
  <2> QED
    BY <2>1, <2>2, <1>0, <1>3
<1> DEFINE x == r - s + c  y == to - from + c  k == q - p
<1>6. x \in Int /\ y \in Int /\ k \in Int /\ x = y + Round * k
  <2>1. t - f = to - from
    BY DEF t, f
  <2> QED
    BY <2>1, <1>0, <1>3, <1>5
<1> HIDE DEF x, y, k
<1>7. x % Round = y % Round
  BY <1>1, <1>6, AboutAgain
<1>8. x = ((to + by) % Round) - ((from + by) % Round) + c /\ y = to - from + c
  BY DEF x, y, r, s, t, f
<1> QED
  BY <1>7, <1>8

-----------------------------------------------------------------------------
(* What there is to know of a vessel, or the boat, and of its speed. *)
LEMMA TrackType ==
    ASSUME NEW v \in Tracks
    PROVE  /\ v.lat \in Int /\ v.lon \in Int
           /\ Velocity(v) = Nowhere \/ (Velocity(v) = Just(Velocity(v)[1]) /\ Velocity(v)[1] \in Vectors)
<1>1. v.lat \in Int /\ v.lon \in Int
  BY TracksAssumption
<1>2. CASE v.sog = Nowhere
  BY <1>1, <1>2 DEF Velocity
<1>3. CASE v.sog # Nowhere
  <2>1. v.sog[1] \in Nat
    BY <1>3, TracksAssumption
  <2>2. CASE v.cog = Nowhere
    <3>1. Velocity(v) = Nowhere \/ Velocity(v) = Just([east |-> 0, north |-> 0])
      BY <1>3, <2>2 DEF Velocity
    <3>2. Just([east |-> 0, north |-> 0])[1] = [east |-> 0, north |-> 0]
      BY DEF Just
    <3>3. [east |-> 0, north |-> 0] \in Vectors
      BY DEF Vectors
    <3> QED
      BY <1>1, <3>1, <3>2, <3>3
  <2>3. CASE v.cog # Nowhere
    <3> DEFINE e == v.sog[1] * Direction[v.cog[1]].east  n == v.sog[1] * Direction[v.cog[1]].north
    <3>1. Direction[v.cog[1]].east \in Int /\ Direction[v.cog[1]].north \in Int
      BY <2>3, TracksAssumption
    <3>2. e \in Int /\ n \in Int
      BY <2>1, <3>1
    <3>3. Velocity(v) = Just([east |-> e, north |-> n])
      BY <1>3, <2>3 DEF Velocity
    <3> HIDE DEF e, n
    <3>4. [east |-> e, north |-> n] \in Vectors
      BY <3>2 DEF Vectors
    <3>5. Just([east |-> e, north |-> n])[1] = [east |-> e, north |-> n]
      BY DEF Just
    <3> QED
      BY <1>1, <3>3, <3>4, <3>5
  <2> QED
    BY <2>2, <2>3
<1> QED
  BY <1>2, <1>3

(* How a vessel is seen from the boat, at whatever time both were heard of. *)
LEMMA OffsetType ==
    ASSUME NEW own \in Tracks, NEW v \in Tracks
    PROVE  Offset(own, v) \in Vectors
<1> DEFINE w == Width[own.lat + v.lat]
           h == Round \div 2
           x == v.lon - own.lon + 3 * h
           dlon == (x % Round) - h
<1>1. w \in Int /\ v.lat - own.lat \in Int
  BY TracksAssumption, TrackType
<1>2. Round \in Nat \ {0} /\ h \in Int
  BY ApproachAssumption
<1>3. x \in Int
  <2> HIDE DEF h
  <2> QED
    BY <1>2, TrackType
<1>4. dlon \in Int
  <2> HIDE DEF x, h
  <2> QED
    BY <1>2, <1>3, Remainder
<1>5. Offset(own, v) = [east |-> dlon * w, north |-> v.lat - own.lat]
  BY DEF Offset
<1> HIDE DEF dlon, w
<1> QED
  BY <1>1, <1>4, <1>5 DEF Vectors

(* Turned by as much, a vessel is seen from the boat as it was, and goes as it went. *)
LEMMA TurnedTogether ==
    ASSUME NEW own \in Tracks, NEW v \in Tracks, NEW by \in Int, NEW at
    PROVE  /\ Offset(Turned(own, by), [Turned(v, by) EXCEPT !.at = at]) = Offset(own, v)
           /\ Velocity([Turned(v, by) EXCEPT !.at = at]) = Velocity(v)
           /\ Velocity(Turned(own, by)) = Velocity(own)
           /\ [Turned(v, by) EXCEPT !.at = at].at = at
<1> DEFINE o == Turned(own, by)  p == [Turned(v, by) EXCEPT !.at = at]
<1>1. o.lat = own.lat /\ o.sog = own.sog /\ o.cog = own.cog /\ o.lon = (own.lon + by) % Round
  BY TracksAssumption DEF Turned
<1>2. p.lat = v.lat /\ p.sog = v.sog /\ p.cog = v.cog /\ p.lon = (v.lon + by) % Round /\ p.at = at
  BY TracksAssumption DEF Turned
<1> HIDE DEF o, p
<1>3. Velocity(p) = Velocity(v) /\ Velocity(o) = Velocity(own)
  BY <1>1, <1>2 DEF Velocity
<1> DEFINE c == 3 * (Round \div 2)
<1>4. c \in Int /\ v.lon \in Int /\ own.lon \in Int
  BY TrackType, ApproachAssumption
<1>5. (p.lon - o.lon + c) % Round = (v.lon - own.lon + c) % Round
  <2> HIDE DEF c
  <2> QED
    BY <1>1, <1>2, <1>4, TurnedAlike
<1>6. Offset(o, p) = Offset(own, v)
  BY <1>1, <1>2, <1>5 DEF Offset
<1> QED
  BY <1>2, <1>3, <1>6 DEF o, p

(* What ClosestIsClosest speaks of. *)
Told(v, own, age, by) ==
    Target(1, Just([Turned(v, by) EXCEPT !.at = -age]), 0, Just(Turned(own, by)))
(* Where the vessel is seen from the boat now, and its closest approach from there. *)
SeenAt(v, own, age) ==
    IF Velocity(v) = Nowhere THEN Offset(own, v) ELSE Ahead(Offset(own, v), Velocity(v)[1], age)
ClosestOf(v, own, age) == Closest(SeenAt(v, own, age), Minus(Velocity(v)[1], Velocity(own)[1]))

(* When there is a closest approach to tell, and what is told of it, and how far away. *)
KnownWell(v, own, age) == Velocity(v) # Nowhere /\ Velocity(own) # Nowhere /\ age < LostAfter
RangeTold(v, own, age) ==
    IF age < LostAfter THEN Just(Rounded(Square(SeenAt(v, own, age)))) ELSE Nowhere
ClosestTold(v, own, age) == IF KnownWell(v, own, age) THEN Just(ClosestOf(v, own, age)) ELSE Nowhere
DangerTold(v, own, age) == IF KnownWell(v, own, age) THEN Danger(ClosestOf(v, own, age)) ELSE FALSE

(* A target in full: all of it but the place is the same wherever on the world it is. *)
LEMMA ToldInFull ==
    ASSUME NEW own \in Tracks, NEW v \in Tracks, NEW age \in Nat, NEW by \in Int
    PROVE  Told(v, own, age, by)
              = [mmsi |-> 1, at |-> Told(v, own, age, by).at, range |-> RangeTold(v, own, age),
                 closest |-> ClosestTold(v, own, age), danger |-> DangerTold(v, own, age)]
<1> DEFINE o == Turned(own, by)  p == [Turned(v, by) EXCEPT !.at = -age]
           place == Just([lat |-> p.lat, lon |-> p.lon])
           seen == SeenAt(v, own, age)
           c == ClosestOf(v, own, age)
           none == [mmsi |-> 1, at |-> Nowhere, range |-> Nowhere, closest |-> Nowhere,
                    danger |-> FALSE]
<1>1. Just(p) # Nowhere /\ Just(p)[1] = p /\ Just(o) # Nowhere /\ Just(o)[1] = o
  BY DEF Just, Nowhere
<1>2. Offset(o, p) = Offset(own, v) /\ Velocity(p) = Velocity(v) /\ Velocity(o) = Velocity(own)
      /\ p.at = -age
  BY TurnedTogether
<1>3. 0 - p.at = age
  BY <1>2
<1>4. LostAfter \in Nat
  BY ApproachAssumption
<1> HIDE DEF p, o
<1>5. CASE ~(age < LostAfter)
  <2>1. age >= LostAfter
    BY <1>4, <1>5
  <2>2. Told(v, own, age, by) = none
    BY <1>1, <1>3, <2>1 DEF Told, Target, p, o
  <2> QED
    BY <1>5, <2>2 DEF RangeTold, ClosestTold, DangerTold, KnownWell
<1>6. CASE age < LostAfter
  <2>1. ~(age >= LostAfter)
    BY <1>4, <1>6
  <2> DEFINE ranged == [none EXCEPT !.at = place, !.range = Just(Rounded(Square(seen)))]
  <2>2. Told(v, own, age, by)
          = IF Velocity(v) = Nowhere \/ Velocity(own) = Nowhere THEN ranged
            ELSE [ranged EXCEPT !.closest = Just(c), !.danger = Danger(c)]
    BY <1>1, <1>2, <1>3, <2>1, Zenon DEF Told, Target, p, o, SeenAt, ClosestOf
  <2>3. CASE Velocity(v) = Nowhere \/ Velocity(own) = Nowhere
    BY <1>6, <2>2, <2>3 DEF RangeTold, ClosestTold, DangerTold, KnownWell
  <2>4. CASE ~(Velocity(v) = Nowhere \/ Velocity(own) = Nowhere)
    BY <1>6, <2>2, <2>4 DEF RangeTold, ClosestTold, DangerTold, KnownWell
  <2> QED
    BY <2>3, <2>4
<1> QED
  BY <1>5, <1>6

(* Closest of a vessel known well enough is of two vectors. *)
LEMMA ClosestOfVectors ==
    ASSUME NEW own \in Tracks, NEW v \in Tracks, NEW age \in Nat,
           Velocity(v) # Nowhere, Velocity(own) # Nowhere
    PROVE  /\ SeenAt(v, own, age) = Ahead(Offset(own, v), Velocity(v)[1], age)
           /\ SeenAt(v, own, age) \in Vectors
           /\ Minus(Velocity(v)[1], Velocity(own)[1]) \in Vectors
<1>1. Velocity(v)[1] \in Vectors /\ Velocity(own)[1] \in Vectors /\ Offset(own, v) \in Vectors
  BY TrackType, OffsetType
<1>2. SeenAt(v, own, age) = Ahead(Offset(own, v), Velocity(v)[1], age)
  BY DEF SeenAt
<1>3. \A a, u \in Vectors : Ahead(a, u, age) \in Vectors
  <2> SUFFICES ASSUME NEW a \in Vectors, NEW u \in Vectors PROVE Ahead(a, u, age) \in Vectors
    OBVIOUS
  <2>1. a.east + u.east * age \in Int /\ a.north + u.north * age \in Int
    BY DEF Vectors
  <2> QED
    BY <2>1 DEF Ahead, Vectors
<1>4. \A a, u \in Vectors : Minus(a, u) \in Vectors
  BY DEF Minus, Vectors
<1> QED
  BY <1>1, <1>2, <1>3, <1>4

(* ClosestIsClosest of one vessel and the boat. *)
ClosestFor(v, own, age) ==
    LET t == Told(v, own, age, 0)
        at == Ahead(Offset(own, v), Velocity(v)[1], age)
        relative == Minus(Velocity(v)[1], Velocity(own)[1])
        c == t.closest[1]
    IN /\ \A by \in 1..(Round - 1) : [Told(v, own, age, by) EXCEPT !.at = t.at] = t
       /\ t.closest # Nowhere <=> age < LostAfter /\ Underway(v) /\ Underway(own)
       /\ t.closest # Nowhere =>
             /\ c.time >= 0 /\ c.square = SquareAt(at, relative, c.time, c.per)
             /\ \A n \in 0..(4 * DANGER_TCPA) :
                   c.square * 4 <= SquareAt(at, relative, n, 2) * c.per * c.per
             /\ t.danger => \E n \in 0..(DANGER_TCPA * c.per) :
                   SquareAt(at, relative, n, c.per) <= DANGER_CPA * DANGER_CPA * c.per * c.per
             /\ ~t.danger => \A n \in 0..(2 * DANGER_TCPA) :
                   \/ SquareAt(at, relative, n, 2) > 4 * DANGER_CPA * DANGER_CPA
                   \/ c.time > DANGER_TCPA * c.per

(* A square greater than another's share is greater than it. *)
LEMMA FartherThan ==
    ASSUME NEW q \in Nat, NEW k \in Nat, NEW c \in Nat, NEW f \in Nat \ {0},
           c * 4 <= q * f, c > k * f
    PROVE  q > 4 * k
<1> SUFFICES ASSUME q <= 4 * k PROVE FALSE
  OBVIOUS
<1>1. q * f <= (4 * k) * f
  BY ProductIsMonotone
<1>2. (4 * k) * f = 4 * (k * f)
  OBVIOUS
<1>3. k * f \in Nat /\ q * f \in Nat
  BY ProductIsNat
<1> QED
  BY <1>1, <1>2, <1>3

(* The closest approach of any vessel and the boat is one. *)
LEMMA ClosestForAll ==
    ASSUME NEW own \in Tracks, NEW v \in Tracks, NEW age \in Nat
    PROVE  ClosestFor(v, own, age)
<1> DEFINE t == Told(v, own, age, 0)
           at == Ahead(Offset(own, v), Velocity(v)[1], age)
           relative == Minus(Velocity(v)[1], Velocity(own)[1])
           c == t.closest[1]
<1>1. ASSUME NEW by \in 1..(Round - 1)
      PROVE  [Told(v, own, age, by) EXCEPT !.at = t.at] = t
  <2> DEFINE turned == Told(v, own, age, by)
             of(place) == [mmsi |-> 1, at |-> place, range |-> RangeTold(v, own, age),
                           closest |-> ClosestTold(v, own, age), danger |-> DangerTold(v, own, age)]
  <2>1. t = of(t.at)
    BY ToldInFull
  <2>2. by \in Int
    BY ApproachAssumption
  <2>3. turned = of(turned.at)
    BY <2>2, ToldInFull
  <2>4. \A x, y : [of(x) EXCEPT !.at = y] = of(y)
    OBVIOUS
  <2> HIDE DEF of, t, turned
  <2>5. [turned EXCEPT !.at = t.at] = t
    BY <2>1, <2>3, <2>4
  <2> QED
    BY <2>5 DEF turned
<1>2. ASSUME t.closest # Nowhere
      PROVE  /\ c.time >= 0 /\ c.square = SquareAt(at, relative, c.time, c.per)
             /\ \A n \in 0..(4 * DANGER_TCPA) :
                   c.square * 4 <= SquareAt(at, relative, n, 2) * c.per * c.per
             /\ t.danger => \E n \in 0..(DANGER_TCPA * c.per) :
                   SquareAt(at, relative, n, c.per) <= DANGER_CPA * DANGER_CPA * c.per * c.per
             /\ ~t.danger => \A n \in 0..(2 * DANGER_TCPA) :
                   \/ SquareAt(at, relative, n, 2) > 4 * DANGER_CPA * DANGER_CPA
                   \/ c.time > DANGER_TCPA * c.per
  <2>0. t.closest = ClosestTold(v, own, age) /\ t.danger = DangerTold(v, own, age)
    <3>1. t = [mmsi |-> 1, at |-> t.at, range |-> RangeTold(v, own, age),
               closest |-> ClosestTold(v, own, age), danger |-> DangerTold(v, own, age)]
      BY ToldInFull
    <3> HIDE DEF t
    <3> QED
      BY <3>1
  <2>1. Velocity(v) # Nowhere /\ Velocity(own) # Nowhere /\ age < LostAfter
    BY <1>2, <2>0 DEF ClosestTold, KnownWell
  <2>2. t.closest = Just(ClosestOf(v, own, age)) /\ t.danger = Danger(ClosestOf(v, own, age))
    BY <2>0, <2>1 DEF ClosestTold, DangerTold, KnownWell
  <2>3. c = ClosestOf(v, own, age) /\ t.danger = Danger(c)
    BY <2>2 DEF Just
  <2>4. at \in Vectors /\ relative \in Vectors /\ c = Closest(at, relative)
    BY <2>1, <2>3, ClosestOfVectors DEF ClosestOf
  <2> DEFINE q(n, m) == SquareAt(at, relative, n, m)
  <2>5. t.danger = (/\ c.square <= DANGER_CPA * DANGER_CPA * c.per * c.per
                    /\ c.time <= DANGER_TCPA * c.per)
    BY <2>3 DEF Danger
  <2>6. DANGER_CPA \in Nat /\ DANGER_TCPA \in Nat
    BY ApproachAssumption
  <2> HIDE DEF c, at, relative, t
  <2>7. /\ c.time \in Nat /\ c.per \in Nat \ {0} /\ c.square \in Nat
        /\ c.square = SquareAt(at, relative, c.time, c.per)
        /\ \A n, m \in Nat : c.square * (m * m) <= SquareAt(at, relative, n, m) * (c.per * c.per)
    BY <2>4, NeverCloser
  <2> DEFINE f == c.per * c.per  k == DANGER_CPA * DANGER_CPA
  <2>8. f \in Nat \ {0} /\ k \in Nat
    BY <2>6, <2>7, ProductIsNat, SquareOfNothing
  <2>9. \A n \in Nat : c.square * 4 <= SquareAt(at, relative, n, 2) * f /\ SquareAt(at, relative, n, 2) \in Nat
    <3> SUFFICES ASSUME NEW n \in Nat
                 PROVE  c.square * 4 <= SquareAt(at, relative, n, 2) * f /\ SquareAt(at, relative, n, 2) \in Nat
      OBVIOUS
    <3>1. 2 * at.east + relative.east * n \in Int /\ 2 * at.north + relative.north * n \in Int
      BY <2>4 DEF Vectors
    <3>2. SquareAt(at, relative, n, 2) \in Nat
      BY <3>1, DotType DEF SquareAt, Vectors
    <3>3. c.square * (2 * 2) <= SquareAt(at, relative, n, 2) * (c.per * c.per)
      BY <2>7
    <3> QED
      BY <3>2, <3>3
  <2>10. \A x \in Int : x * c.per * c.per = x * f
    BY <2>7
  <2>11. DANGER_CPA * DANGER_CPA * c.per * c.per = k * f
    BY <2>8, <2>10
  <2> HIDE DEF f, k
  <2>12. \A n \in 0..(4 * DANGER_TCPA) :
            c.square * 4 <= SquareAt(at, relative, n, 2) * c.per * c.per
    BY <2>6, <2>9, <2>10
  <2>13. ASSUME t.danger
         PROVE  \E n \in 0..(DANGER_TCPA * c.per) :
                   SquareAt(at, relative, n, c.per) <= DANGER_CPA * DANGER_CPA * c.per * c.per
    <3>0. DANGER_TCPA * c.per \in Nat
      BY <2>6, <2>7, ProductIsNat
    <3>1. c.time \in 0..(DANGER_TCPA * c.per)
      <4>1. c.time <= DANGER_TCPA * c.per
        BY <2>13, <2>5
      <4> DEFINE last == DANGER_TCPA * c.per  time == c.time
      <4>2. time \in Nat /\ last \in Nat /\ time <= last
        BY <2>7, <3>0, <4>1
      <4> HIDE DEF last, time
      <4>3. time \in 0..last
        BY <4>2
      <4> QED
        BY <4>3 DEF time, last
    <3>2. SquareAt(at, relative, c.time, c.per) <= DANGER_CPA * DANGER_CPA * c.per * c.per
      BY <2>13, <2>5, <2>7
    <3> QED
      BY <3>1, <3>2
  <2>14. ASSUME ~t.danger, NEW n \in 0..(2 * DANGER_TCPA)
         PROVE  \/ SquareAt(at, relative, n, 2) > 4 * DANGER_CPA * DANGER_CPA
                \/ c.time > DANGER_TCPA * c.per
    <3>1. CASE c.time > DANGER_TCPA * c.per
      BY <3>1
    <3>2. CASE ~(c.time > DANGER_TCPA * c.per)
      <4>0. DANGER_TCPA * c.per \in Nat /\ k * f \in Nat
        BY <2>6, <2>7, <2>8, ProductIsNat
      <4>1. c.square > k * f
        <5>1. ~(c.square <= k * f)
          BY <2>14, <2>5, <2>7, <2>11, <3>2, <4>0
        <5> QED
          BY <5>1, <4>0, <2>7
      <4>2. SquareAt(at, relative, n, 2) > 4 * k
        <5> DEFINE far == SquareAt(at, relative, n, 2)
        <5>1. n \in Nat
          BY <2>6
        <5>2. far \in Nat /\ c.square * 4 <= far * f
          BY <2>9, <5>1
        <5> HIDE DEF far
        <5>3. far > 4 * k
          BY <2>7, <2>8, <4>1, <5>2, FartherThan
        <5> QED
          BY <5>3 DEF far
      <4>3. 4 * DANGER_CPA * DANGER_CPA = 4 * k
        BY <2>6 DEF k
      <4> QED
        BY <4>2, <4>3
    <3> QED
      BY <3>1, <3>2
  <2> QED
    BY <2>7, <2>12, <2>13, <2>14
<1>4. t.closest # Nowhere <=> age < LostAfter /\ Underway(v) /\ Underway(own)
  <2>1. t = [mmsi |-> 1, at |-> t.at, range |-> RangeTold(v, own, age),
             closest |-> ClosestTold(v, own, age), danger |-> DangerTold(v, own, age)]
    BY ToldInFull
  <2> HIDE DEF t
  <2>2. t.closest = ClosestTold(v, own, age)
    BY <2>1
  <2>3. \A x : Just(x) # Nowhere
    BY DEF Just, Nowhere
  <2>4. \A w : Velocity(w) # Nowhere <=> Underway(w)
    BY <2>3 DEF Velocity, Underway
  <2> QED
    BY <2>2, <2>3, <2>4 DEF ClosestTold, KnownWell
<1> HIDE DEF c, at, relative, t
<1>3. ClosestFor(v, own, age)
        = (/\ \A by \in 1..(Round - 1) : [Told(v, own, age, by) EXCEPT !.at = t.at] = t
           /\ t.closest # Nowhere <=> age < LostAfter /\ Underway(v) /\ Underway(own)
           /\ t.closest # Nowhere =>
             /\ c.time >= 0 /\ c.square = SquareAt(at, relative, c.time, c.per)
             /\ \A n \in 0..(4 * DANGER_TCPA) :
                   c.square * 4 <= SquareAt(at, relative, n, 2) * c.per * c.per
             /\ t.danger => \E n \in 0..(DANGER_TCPA * c.per) :
                   SquareAt(at, relative, n, c.per) <= DANGER_CPA * DANGER_CPA * c.per * c.per
             /\ ~t.danger => \A n \in 0..(2 * DANGER_TCPA) :
                   \/ SquareAt(at, relative, n, 2) > 4 * DANGER_CPA * DANGER_CPA
                   \/ c.time > DANGER_TCPA * c.per)
  BY Zenon DEF ClosestFor, c, at, relative, t
<1> QED
  BY <1>1, <1>2, <1>3, <1>4

(* A vessel picked is one of those there may be. *)
LEMMA AVesselIsClosest == AVessel => ClosestIsClosest'
<1> SUFFICES ASSUME AVessel PROVE ClosestIsClosest'
  OBVIOUS
<1>1. PICK v \in Tracks, own \in Tracks, age \in Ages :
         input' = [what |-> "vessel", vessel |-> v, own |-> own, age |-> age]
  BY DEF AVessel
<1>2. input'.vessel = v /\ input'.own = own /\ input'.age = age
  BY <1>1
<1>3. age \in Nat
  BY TracksAssumption
<1>4. ClosestFor(v, own, age)
  BY <1>3, ClosestForAll
<1> QED
  BY <1>2, <1>4 DEF ClosestIsClosest, ClosestFor, Told

-----------------------------------------------------------------------------
(* A list of different vessels, as a table has them in some order. *)
Ranged(t) == t.mmsi \in Nat /\ (t.range = Nowhere \/ (t.range = Just(t.range[1]) /\ t.range[1] \in Nat))
Listed(s) ==
    /\ DOMAIN s = Places
    /\ \A i \in Places : Ranged(s[i])
    /\ \A i, j \in Places : s[i].mmsi = s[j].mmsi => i = j

(* Where Sorted puts a target: after itself and those before it. *)
UpTo(s, i) ==
    {j \in DOMAIN s : \/ Before(s[j], s[i])
                      \/ j <= i /\ ~Before(s[i], s[j])}
PlaceOf(s, i) == Cardinality(UpTo(s, i))

(* Before is one order of vessels: of two, one is before the other and not the other way
   about, and what is before one that is before a third is before that. *)
LEMMA BeforeIsAnOrder ==
    ASSUME NEW a, NEW b, NEW c, Ranged(a), Ranged(b), Ranged(c)
    PROVE  /\ ~(Before(a, b) /\ Before(b, a))
           /\ a.mmsi # b.mmsi => Before(a, b) \/ Before(b, a)
           /\ Before(a, b) /\ Before(b, c) => Before(a, c)
<1> DEFINE Numbered(t) == t.range # Nowhere
<1>1. \A t \in {a, b, c} : t.mmsi \in Nat /\ (Numbered(t) => t.range[1] \in Nat /\ t.range = Just(t.range[1]))
  BY DEF Ranged
<1>2. \A t, u \in {a, b, c} : Numbered(t) /\ Numbered(u) => (t.range = u.range <=> t.range[1] = u.range[1])
  BY <1>1
<1>3. \A t, u \in {a, b, c} : ~Numbered(t) /\ ~Numbered(u) => t.range = u.range
  OBVIOUS
<1>4. \A t, u \in {a, b, c} : Numbered(t) /\ ~Numbered(u) => t.range # u.range
  OBVIOUS
<1>5. \A t, u \in {a, b, c} :
        Before(t, u) <=> \/ Numbered(t) /\ ~Numbered(u)
                         \/ Numbered(t) /\ Numbered(u) /\ t.range[1] < u.range[1]
                         \/ (Numbered(t) <=> Numbered(u)) /\ (Numbered(t) => t.range[1] = u.range[1])
                            /\ t.mmsi < u.mmsi
  BY <1>2, <1>3, <1>4 DEF Before
<1> HIDE DEF Numbered
<1>6. ~(Before(a, b) /\ Before(b, a))
  BY <1>1, <1>5
<1>7. a.mmsi # b.mmsi => Before(a, b) \/ Before(b, a)
  BY <1>1, <1>5
<1>8. Before(a, b) /\ Before(b, c) => Before(a, c)
  BY <1>1, <1>5
<1> QED
  BY <1>6, <1>7, <1>8

(* In front of a target are itself and those before it. *)
LEMMA FrontIs ==
    ASSUME NEW s, Listed(s), NEW i \in Places
    PROVE  UpTo(s, i) = {j \in Places : j = i \/ Before(s[j], s[i])}
<1>1. ASSUME NEW j \in Places
      PROVE  (Before(s[j], s[i]) \/ (j <= i /\ ~Before(s[i], s[j]))) <=> (j = i \/ Before(s[j], s[i]))
  <2>1. Ranged(s[i]) /\ Ranged(s[j]) /\ i \in Int /\ j \in Int
    BY TableAssumption DEF Listed, Places
  <2>2. ~Before(s[i], s[i])
    BY <2>1, BeforeIsAnOrder
  <2>3. j # i => Before(s[i], s[j]) \/ Before(s[j], s[i])
    <3>1. j # i => s[i].mmsi # s[j].mmsi
      BY DEF Listed
    <3> QED
      BY <2>1, <3>1, BeforeIsAnOrder
  <2> QED
    BY <2>1, <2>2, <2>3
<1>2. DOMAIN s = Places
  BY DEF Listed
<1> QED
  BY <1>1, <1>2 DEF UpTo

(* Places are finite, and one in front of another has fewer in front of it. *)
LEMMA PlaceType ==
    ASSUME NEW s, Listed(s), NEW i \in Places
    PROVE  IsFiniteSet(UpTo(s, i)) /\ PlaceOf(s, i) \in Places
<1>1. IsFiniteSet(Places) /\ Cardinality(Places) = Table
  BY TableAssumption, FS_Interval DEF Places
<1>2. UpTo(s, i) \in SUBSET Places /\ i \in UpTo(s, i)
  BY FrontIs
<1>3. IsFiniteSet(UpTo(s, i)) /\ Cardinality(UpTo(s, i)) <= Table
  BY <1>1, <1>2, FS_Subset
<1>4. Cardinality(UpTo(s, i)) \in Nat /\ Cardinality(UpTo(s, i)) # 0
  BY <1>2, <1>3, FS_CardinalityType, FS_EmptySet
<1> QED
  BY <1>3, <1>4, TableAssumption DEF PlaceOf, Places

(* Places follow the order: no two targets have one. *)
LEMMA PlaceFollows ==
    ASSUME NEW s, Listed(s), NEW i \in Places, NEW j \in Places
    PROVE  /\ Before(s[i], s[j]) <=> PlaceOf(s, i) < PlaceOf(s, j)
           /\ PlaceOf(s, i) = PlaceOf(s, j) => i = j
<1>1. ASSUME NEW k \in Places, NEW l \in Places, Before(s[k], s[l])
      PROVE  PlaceOf(s, k) < PlaceOf(s, l)
  <2>1. Ranged(s[k]) /\ Ranged(s[l]) /\ \A m \in Places : Ranged(s[m])
    BY DEF Listed
  <2>2. ~Before(s[l], s[k]) /\ k # l
    BY <1>1, <2>1, BeforeIsAnOrder
  <2>3. \A m \in Places : Before(s[m], s[k]) => Before(s[m], s[l])
    BY <1>1, <2>1, BeforeIsAnOrder
  <2>4. UpTo(s, k) \in SUBSET UpTo(s, l) /\ l \in UpTo(s, l) /\ l \notin UpTo(s, k)
    BY <1>1, <2>2, <2>3, FrontIs
  <2>5. IsFiniteSet(UpTo(s, k)) /\ IsFiniteSet(UpTo(s, l))
    BY PlaceType
  <2>6. Cardinality(UpTo(s, k)) <= Cardinality(UpTo(s, l))
        /\ Cardinality(UpTo(s, k)) # Cardinality(UpTo(s, l))
    BY <2>4, <2>5, FS_Subset
  <2>7. Cardinality(UpTo(s, k)) \in Nat /\ Cardinality(UpTo(s, l)) \in Nat
    BY <2>5, FS_CardinalityType
  <2> QED
    BY <2>6, <2>7 DEF PlaceOf
<1>2. PlaceOf(s, i) \in Int /\ PlaceOf(s, j) \in Int
  BY PlaceType, TableAssumption DEF Places
<1>3. i # j => Before(s[i], s[j]) \/ Before(s[j], s[i])
  <2>1. i # j => s[i].mmsi # s[j].mmsi
    BY DEF Listed
  <2>2. Ranged(s[i]) /\ Ranged(s[j])
    BY DEF Listed
  <2> QED
    BY <2>1, <2>2, BeforeIsAnOrder
<1>4. Before(s[i], s[j]) => PlaceOf(s, i) < PlaceOf(s, j)
  BY <1>1
<1>5. Before(s[j], s[i]) => PlaceOf(s, j) < PlaceOf(s, i)
  BY <1>1
<1> QED
  BY <1>2, <1>3, <1>4, <1>5

(* Every place is taken by one target. *)
LEMMA PlacesAreTaken ==
    ASSUME NEW s, Listed(s), NEW n \in Places
    PROVE  \E i \in Places : PlaceOf(s, i) = n
<1> DEFINE f == [i \in Places |-> PlaceOf(s, i)]
<1>1. IsFiniteSet(Places)
  BY TableAssumption, FS_Interval DEF Places
<1>2. f \in [Places -> Places]
  BY PlaceType
<1>3. \A i, j \in Places : f[i] = f[j] => i = j
  BY PlaceFollows
<1>4. f \in Injection(Places, Places)
  BY <1>2, <1>3 DEF Injection, IsInjective
<1>5. f \in Surjection(Places, Places)
  BY <1>1, <1>4, FS_Injection
<1>6. PICK i \in Places : f[i] = n
  BY <1>5 DEF Surjection
<1> QED
  BY <1>6

(* What Sorted makes of a list: each target at its place. *)
LEMMA SortedByPlace ==
    ASSUME NEW s, Listed(s)
    PROVE  /\ DOMAIN Sorted(s) = Places
           /\ Sorted(s) = [n \in Places |-> Sorted(s)[n]]
           /\ \A i \in Places : Sorted(s)[PlaceOf(s, i)] = s[i]
<1>1. DOMAIN s = Places
  BY DEF Listed
<1>2. Sorted(s) = [n \in Places |-> s[CHOOSE i \in Places : PlaceOf(s, i) = n]]
  BY <1>1 DEF Sorted, PlaceOf, UpTo
<1>3. ASSUME NEW i \in Places
      PROVE  Sorted(s)[PlaceOf(s, i)] = s[i]
  <2> DEFINE n == PlaceOf(s, i)  k == CHOOSE k \in Places : PlaceOf(s, k) = n
  <2>1. n \in Places
    BY PlaceType
  <2>2. k \in Places /\ PlaceOf(s, k) = n
    <3>1. \E j \in Places : PlaceOf(s, j) = n
      OBVIOUS
    <3> HIDE DEF n
    <3> QED
      BY <3>1
  <2>3. k = i
    <3> HIDE DEF k
    <3> QED
      BY <2>2, PlaceFollows
  <2>4. Sorted(s)[n] = s[k]
    <3> HIDE DEF n
    <3> QED
      BY <1>2, <2>1
  <2> QED
    BY <2>3, <2>4
<1> QED
  BY <1>2, <1>3

(* A table in another order has each vessel at the same place of the message. *)
LEMMA PlaceInAnyOrder ==
    ASSUME NEW s, Listed(s), NEW order \in Orders
    PROVE  LET turned == [i \in Places |-> s[order[i]]]
           IN Listed(turned) /\ \A i \in Places : PlaceOf(turned, i) = PlaceOf(s, order[i])
<1> DEFINE turned == [i \in Places |-> s[order[i]]]
<1>1. order \in [Places -> Places] /\ \A i, j \in Places : order[i] = order[j] => i = j
  BY DEF Orders
<1>2. Listed(turned)
  <2>1. DOMAIN turned = Places
    OBVIOUS
  <2>2. \A i \in Places : turned[i] = s[order[i]] /\ order[i] \in Places
    BY <1>1
  <2> HIDE DEF turned
  <2> QED
    BY <1>1, <2>1, <2>2 DEF Listed
<1>3. IsFiniteSet(Places)
  BY TableAssumption, FS_Interval DEF Places
<1>4. order \in Surjection(Places, Places)
  <2>1. order \in Injection(Places, Places)
    BY <1>1 DEF Injection, IsInjective
  <2> QED
    BY <1>3, <2>1, FS_Injection
<1>5. ASSUME NEW i \in Places
      PROVE  PlaceOf(turned, i) = PlaceOf(s, order[i])
  <2> DEFINE f == [j \in UpTo(turned, i) |-> order[j]]
  <2>1. order[i] \in Places
    BY <1>1
  <2>2. UpTo(turned, i) = {j \in Places : j = i \/ Before(s[order[j]], s[order[i]])}
    <3>1. UpTo(turned, i) = {j \in Places : j = i \/ Before(turned[j], turned[i])}
      <4> HIDE DEF turned
      <4> QED
        BY <1>2, FrontIs
    <3>2. \A j \in Places : turned[j] = s[order[j]]
      OBVIOUS
    <3> HIDE DEF turned
    <3> QED
      BY <3>1, <3>2
  <2>3. UpTo(s, order[i]) = {m \in Places : m = order[i] \/ Before(s[m], s[order[i]])}
    BY <2>1, FrontIs
  <2> HIDE DEF turned
  <2>4. f \in [UpTo(turned, i) -> UpTo(s, order[i])]
    BY <1>1, <2>2, <2>3
  <2>5. \A j, k \in UpTo(turned, i) : f[j] = f[k] => j = k
    BY <1>1, <2>2
  <2>6. \A m \in UpTo(s, order[i]) : \E j \in UpTo(turned, i) : f[j] = m
    <3> SUFFICES ASSUME NEW m \in UpTo(s, order[i])
                 PROVE  \E j \in UpTo(turned, i) : f[j] = m
      OBVIOUS
    <3>1. m \in Places
      BY <2>3
    <3>2. PICK j \in Places : order[j] = m
      BY <1>4, <3>1 DEF Surjection
    <3>3. j \in UpTo(turned, i)
      BY <1>1, <2>2, <2>3, <3>2
    <3> QED
      BY <3>2, <3>3
  <2>7. f \in Bijection(UpTo(turned, i), UpTo(s, order[i]))
    BY <2>4, <2>5, <2>6 DEF Bijection, Injection, IsInjective, Surjection
  <2>8. IsFiniteSet(UpTo(turned, i))
    BY <1>2, PlaceType
  <2>9. Cardinality(UpTo(s, order[i])) = Cardinality(UpTo(turned, i))
    BY <2>7, <2>8, FS_Bijection DEF ExistsBijection
  <2> QED
    BY <2>9 DEF PlaceOf
<1> QED
  BY <1>2, <1>5

(* So the message is the same. *)
LEMMA SortedInAnyOrder ==
    ASSUME NEW s, Listed(s), NEW order \in Orders
    PROVE  Sorted([i \in Places |-> s[order[i]]]) = Sorted(s)
<1> DEFINE turned == [i \in Places |-> s[order[i]]]
<1>1. Listed(turned) /\ \A i \in Places : PlaceOf(turned, i) = PlaceOf(s, order[i])
  BY PlaceInAnyOrder
<1>2. \A i \in Places : order[i] \in Places
  BY DEF Orders
<1>3. \A i \in Places : turned[i] = s[order[i]]
  OBVIOUS
<1> HIDE DEF turned
<1>4. ASSUME NEW n \in Places
      PROVE  Sorted(turned)[n] = Sorted(s)[n]
  <2>1. PICK i \in Places : PlaceOf(turned, i) = n
    BY <1>1, PlacesAreTaken
  <2>2. Sorted(turned)[n] = turned[i]
    BY <1>1, <2>1, SortedByPlace
  <2>3. Sorted(s)[PlaceOf(s, order[i])] = s[order[i]]
    BY <1>2, SortedByPlace
  <2> QED
    BY <1>1, <1>3, <2>1, <2>2, <2>3
<1>5. Sorted(turned) = [n \in Places |-> Sorted(turned)[n]] /\ Sorted(s) = [n \in Places |-> Sorted(s)[n]]
  BY <1>1, SortedByPlace
<1>6. Sorted(turned) = Sorted(s)
  BY <1>4, <1>5
<1> QED
  BY <1>6 DEF turned

(* The nearest first: each target is before those after it. *)
LEMMA SortedIsInOrder ==
    ASSUME NEW s, Listed(s), NEW m \in Places, NEW n \in Places, m < n
    PROVE  /\ Sorted(s)[m] # Sorted(s)[n]
           /\ Sorted(s)[n].range # Nowhere =>
                 Sorted(s)[m].range # Nowhere /\ Sorted(s)[m].range[1] <= Sorted(s)[n].range[1]
<1>1. PICK i \in Places : PlaceOf(s, i) = m
  BY PlacesAreTaken
<1>2. PICK j \in Places : PlaceOf(s, j) = n
  BY PlacesAreTaken
<1>3. Sorted(s)[m] = s[i] /\ Sorted(s)[n] = s[j]
  BY <1>1, <1>2, SortedByPlace
<1>4. Before(s[i], s[j])
  BY <1>1, <1>2, PlaceFollows
<1>5. Ranged(s[i]) /\ Ranged(s[j])
  BY DEF Listed
<1>6. s[i] # s[j]
  BY <1>4, <1>5, BeforeIsAnOrder
<1>7. s[j].range # Nowhere => s[i].range # Nowhere /\ s[i].range[1] <= s[j].range[1]
  BY <1>4, <1>5 DEF Before, Ranged
<1> QED
  BY <1>3, <1>6, <1>7

(* A table picked is a list of different vessels. *)
LEMMA ATableHasOneOrder == ATable => OneOrder'
<1> SUFFICES ASSUME ATable PROVE OneOrder'
  OBVIOUS
<1>1. PICK range \in [Places -> Ranges], order \in Orders :
         input' = [what |-> "table", order |-> order,
                   table |-> [i \in Places |-> [mmsi |-> i, range |-> range[i]]]]
  BY DEF ATable
<1> DEFINE s == [i \in Places |-> [mmsi |-> i, range |-> range[i]]]
<1>2. input'.order = order /\ input'.table = s
  BY <1>1
<1>3. Listed(s)
  <2>1. DOMAIN s = Places
    OBVIOUS
  <2>2. \A i \in Places : s[i].mmsi = i /\ s[i].range = range[i] /\ range[i] \in Ranges /\ i \in Nat
    BY DEF Places
  <2> HIDE DEF s
  <2>3. \A i \in Places : Ranged(s[i])
    BY <2>2, TableAssumption DEF Ranged
  <2> QED
    BY <2>1, <2>2, <2>3 DEF Listed
<1> HIDE DEF s
<1>4. Sorted([i \in Places |-> s[order[i]]]) = Sorted(s)
  BY <1>3, SortedInAnyOrder
<1>5. \A i \in Places : \E j \in Places : Sorted(s)[j] = s[i]
  BY <1>3, SortedByPlace, PlaceType
<1>6. \A i, j \in Places : i < j =>
         /\ Sorted(s)[i] # Sorted(s)[j]
         /\ Sorted(s)[j].range # Nowhere =>
               Sorted(s)[i].range # Nowhere /\ Sorted(s)[i].range[1] <= Sorted(s)[j].range[1]
  BY <1>3, SortedIsInOrder
<1> DEFINE sorted == Sorted([i \in Places |-> input'.table[input'.order[i]]])
<1>7. sorted = Sorted(s) /\ sorted = Sorted(input'.table)
  BY <1>2, <1>4
<1>8. \A i \in Places : \E j \in Places : sorted[j] = input'.table[i]
  BY <1>2, <1>5, <1>7
<1> HIDE DEF sorted
<1>9. \A i, j \in Places : i < j =>
         /\ sorted[i] # sorted[j]
         /\ sorted[j].range # Nowhere =>
               sorted[i].range # Nowhere /\ sorted[i].range[1] <= sorted[j].range[1]
  BY <1>6, <1>7
<1> QED
  BY <1>7, <1>8, <1>9, Zenon DEF OneOrder, sorted

-----------------------------------------------------------------------------
(* From gives each character of a sequence the number of a place it is at. *)
LEMMA FromIs ==
    ASSUME NEW first \in Int, NEW s, NEW n \in Nat, DOMAIN s = 1..n, NEW c \in Range(s)
    PROVE  /\ DOMAIN From(first, s) = Range(s)
           /\ From(first, s)[c] \in first..(first + n - 1)
           /\ s[From(first, s)[c] - first + 1] = c
<1> DEFINE k == CHOOSE i \in DOMAIN s : s[i] = c
<1>1. \E i \in DOMAIN s : s[i] = c
  BY DEF Range
<1>2. k \in 1..n /\ s[k] = c
  BY <1>1
<1>3. From(first, s)[c] = first - 1 + k /\ DOMAIN From(first, s) = Range(s)
  BY DEF From
<1> HIDE DEF k
<1> QED
  BY <1>2, <1>3

(* The characters of a stretch are told apart by numbers of the stretch. *)
LEMMA FromTells ==
    ASSUME NEW s, NEW low \in Int, NEW high \in Int, low <= high, DOMAIN s = 1..(high - low + 1)
    PROVE  /\ \A c \in Range(s) : From(low, s)[c] \in low..high
           /\ \A c, d \in Range(s) : From(low, s)[c] = From(low, s)[d] => c = d
<1> DEFINE n == high - low + 1
<1>1. n \in Nat /\ DOMAIN s = 1..n /\ low + n - 1 = high
  OBVIOUS
<1> HIDE DEF n
<1>2. \A c \in Range(s) :
         From(low, s)[c] \in low..(low + n - 1) /\ s[From(low, s)[c] - low + 1] = c
  BY <1>1, FromIs
<1> QED
  BY <1>1, <1>2

(* No two characters have one code, and codes are of seven bits. *)
LEMMA CodesTell ==
    /\ \A c \in DOMAIN Code : Code[c] \in 0..127
    /\ \A c, d \in DOMAIN Code : Code[c] = Code[d] => c = d
<1> DEFINE f == From(32, Upper) g == From(97, Lower)
<1>1. DOMAIN Upper = 1..(95 - 32 + 1) /\ DOMAIN Lower = 1..(126 - 97 + 1)
  BY DEF Upper, Lower
<1>2. 32 \in Int /\ 95 \in Int /\ 32 <= 95 /\ 97 \in Int /\ 126 \in Int /\ 97 <= 126
  OBVIOUS
<1>3. /\ \A c \in Range(Upper) : f[c] \in 32..95
      /\ \A c, d \in Range(Upper) : f[c] = f[d] => c = d
  BY <1>1, <1>2, FromTells, Zenon
<1>4. /\ \A c \in Range(Lower) : g[c] \in 97..126
      /\ \A c, d \in Range(Lower) : g[c] = g[d] => c = d
  BY <1>1, <1>2, FromTells, Zenon
<1>5. /\ DOMAIN Code = Range(Upper) \cup Range(Lower)
      /\ \A c \in DOMAIN Code : Code[c] = IF c \in Range(Upper) THEN f[c] ELSE g[c]
  BY DEF Code
<1> HIDE DEF f, g
<1> QED
  BY <1>3, <1>4, <1>5

(* A number of seven bits is known by them. *)
LEMMA OfSevenBits ==
    ASSUME NEW x \in 0..127
    PROVE  x = Bit(x, 1) + 2 * Bit(x, 2) + 4 * Bit(x, 4) + 8 * Bit(x, 8) + 16 * Bit(x, 16)
                 + 32 * Bit(x, 32) + 64 * Bit(x, 64)
<1>1. x = 2 * (x \div 2) + Bit(x, 1)
  BY DEF Bit
<1>2. (x \div 2) = 2 * (x \div 4) + Bit(x, 2)
  BY DEF Bit
<1>3. (x \div 4) = 2 * (x \div 8) + Bit(x, 4)
  BY DEF Bit
<1>4. (x \div 8) = 2 * (x \div 16) + Bit(x, 8)
  BY DEF Bit
<1>5. (x \div 16) = 2 * (x \div 32) + Bit(x, 16)
  BY DEF Bit
<1>6. (x \div 32) = 2 * (x \div 64) + Bit(x, 32)
  BY DEF Bit
<1>7. (x \div 64) = Bit(x, 64)
  BY DEF Bit
<1>8. /\ Bit(x, 1) \in Int /\ Bit(x, 2) \in Int /\ Bit(x, 4) \in Int /\ Bit(x, 8) \in Int
      /\ Bit(x, 16) \in Int /\ Bit(x, 32) \in Int /\ Bit(x, 64) \in Int
  BY DEF Bit
<1> QED
  BY <1>1, <1>2, <1>3, <1>4, <1>5, <1>6, <1>7, <1>8

(* What has the same seven bits is the same. *)
LEMMA SevenBits ==
    ASSUME NEW x \in 0..127, NEW y \in 0..127, Bit(x, 1) = Bit(y, 1), Bit(x, 2) = Bit(y, 2),
           Bit(x, 4) = Bit(y, 4), Bit(x, 8) = Bit(y, 8), Bit(x, 16) = Bit(y, 16),
           Bit(x, 32) = Bit(y, 32), Bit(x, 64) = Bit(y, 64)
    PROVE  x = y
<1>1. /\ x = Bit(x, 1) + 2 * Bit(x, 2) + 4 * Bit(x, 4) + 8 * Bit(x, 8) + 16 * Bit(x, 16)
             + 32 * Bit(x, 32) + 64 * Bit(x, 64)
      /\ y = Bit(y, 1) + 2 * Bit(y, 2) + 4 * Bit(y, 4) + 8 * Bit(y, 8) + 16 * Bit(y, 16)
             + 32 * Bit(y, 32) + 64 * Bit(y, 64)
  BY OfSevenBits
<1> QED
  BY <1>1

(* The weights of the bits of a character, and a byte put together of bits. *)
Weights == {1, 2, 4, 8, 16, 32, 64}

(* A bit is nought or one. *)
LEMMA BitType == \A n \in 0..127, w \in Weights : Bit(n, w) \in {0, 1}
  BY DEF Bit, Weights

ByteOf(f) == Byte(LAMBDA w : f[w])

(* A byte put together of bits tells them. *)
LEMMA BitsOfByte ==
    ASSUME NEW f, NEW g, \A w \in Weights : f[w] \in {0, 1} /\ g[w] \in {0, 1}
    PROVE  /\ ByteOf(f) \in 0..127
           /\ ByteOf(f) = ByteOf(g) => \A w \in Weights : f[w] = g[w]
  BY DEF Byte, ByteOf, Weights

(* How many have a bit is a number, odd or even. *)
LEMMA BearersType ==
    ASSUME NEW data \in Seq(DOMAIN Code), NEW w
    PROVE  IsFiniteSet({i \in DOMAIN data : Bit(Code[data[i]], w) = 1}) /\ Bearers(data, w) \in Nat
<1>1. IsFiniteSet(DOMAIN data)
  BY FS_Interval
<1>2. IsFiniteSet({i \in DOMAIN data : Bit(Code[data[i]], w) = 1})
  BY <1>1, FS_Subset
<1> QED
  BY <1>2, FS_CardinalityType DEF Bearers

(* The parity of a bit is nought or one. *)
LEMMA Parity == \A data \in Seq(DOMAIN Code) : \A w : Bearers(data, w) % 2 \in {0, 1}
<1>1. \A n \in Nat : n % 2 \in {0, 1}
  OBVIOUS
<1>2. \A data \in Seq(DOMAIN Code) : \A w : Bearers(data, w) \in Nat
  BY BearersType
<1> QED
  BY <1>1, <1>2

(* A character that has a bit another has not changes the bit's parity. *)
LEMMA BearersDiffer ==
    ASSUME NEW data \in Seq(DOMAIN Code), NEW i \in DOMAIN data, NEW c \in DOMAIN Code,
           NEW w \in Weights, Bit(Code[c], w) # Bit(Code[data[i]], w)
    PROVE  (Bearers([data EXCEPT ![i] = c], w) % 2) # (Bearers(data, w) % 2)
<1> DEFINE damaged == [data EXCEPT ![i] = c]
           was == {j \in DOMAIN data : Bit(Code[data[j]], w) = 1}
           is == {j \in DOMAIN data : Bit(Code[damaged[j]], w) = 1}
<1>1. DOMAIN damaged = DOMAIN data /\ damaged[i] = c
      /\ \A j \in DOMAIN data : j # i => damaged[j] = data[j]
  OBVIOUS
<1>2. Bit(Code[c], w) \in {0, 1} /\ Bit(Code[data[i]], w) \in {0, 1}
  <2>1. data[i] \in DOMAIN Code
    OBVIOUS
  <2>2. Code[c] \in 0..127 /\ Code[data[i]] \in 0..127
    BY <2>1, CodesTell
  <2> QED
    BY <2>2, BitType
<1>3. IsFiniteSet(was) /\ Bearers(data, w) = Cardinality(was) /\ Cardinality(was) \in Nat
  BY BearersType DEF Bearers
<1>4. Bearers(damaged, w) = Cardinality(is)
  BY <1>1 DEF Bearers
<1> HIDE DEF damaged
<1>5. CASE Bit(Code[c], w) = 1
  <2>1. is = was \cup {i} /\ i \notin was
    BY <1>1, <1>2, <1>5
  <2>2. Cardinality(is) = Cardinality(was) + 1
    BY <1>3, <2>1, FS_AddElement
  <2> HIDE DEF is, was
  <2>3. (Cardinality(is) % 2) # (Cardinality(was) % 2)
    BY <1>3, <2>2
  <2> QED
    BY <1>3, <1>4, <2>3 DEF damaged
<1>6. CASE Bit(Code[c], w) = 0
  <2>1. is = was \ {i} /\ i \in was
    BY <1>1, <1>2, <1>6
  <2>2. Cardinality(is) = Cardinality(was) - 1
    BY <1>3, <2>1, FS_RemoveElement
  <2> HIDE DEF is, was
  <2>3. (Cardinality(is) % 2) # (Cardinality(was) % 2)
    BY <1>3, <2>2
  <2> QED
    BY <1>3, <1>4, <2>3 DEF damaged
<1> QED
  BY <1>2, <1>5, <1>6

(* A checksum of characters is a character's code. *)
LEMMA ComputedType == \A data \in Seq(DOMAIN Code) : Computed(data) \in 0..127
<1> SUFFICES ASSUME NEW data \in Seq(DOMAIN Code) PROVE Computed(data) \in 0..127
  OBVIOUS
<1> DEFINE f == [w \in Weights |-> Bearers(data, w) % 2]
<1>1. \A w \in Weights : f[w] \in {0, 1}
  BY Parity
<1>2. Computed(data) = ByteOf(f)
  BY DEF Computed, Byte, ByteOf, Weights
<1> HIDE DEF f
<1> QED
  BY <1>1, <1>2, BitsOfByte

(* Data with one character changed has another checksum. *)
THEOREM OneChangeIsSeen ==
    ASSUME NEW data \in Seq(DOMAIN Code), NEW i \in DOMAIN data, NEW c \in DOMAIN Code,
           c # data[i]
    PROVE  Computed([data EXCEPT ![i] = c]) # Computed(data)
<1> DEFINE damaged == [data EXCEPT ![i] = c]
           f == [w \in Weights |-> Bearers(data, w) % 2]
           g == [w \in Weights |-> Bearers(damaged, w) % 2]
<1>1. Code[c] \in 0..127 /\ Code[data[i]] \in 0..127 /\ Code[c] # Code[data[i]]
  <2>1. data[i] \in DOMAIN Code
    OBVIOUS
  <2> QED
    BY <2>1, CodesTell
<1>2. \E w \in Weights : Bit(Code[c], w) # Bit(Code[data[i]], w)
  BY <1>1, SevenBits DEF Weights
<1>3. PICK w \in Weights : Bit(Code[c], w) # Bit(Code[data[i]], w)
  BY <1>2
<1>4. f[w] # g[w]
  BY <1>3, BearersDiffer
<1>5. damaged \in Seq(DOMAIN Code)
  OBVIOUS
<1>6. \A v \in Weights : f[v] \in {0, 1} /\ g[v] \in {0, 1}
  <2> HIDE DEF damaged
  <2> QED
    BY <1>5, Parity
<1>7. Computed(data) = ByteOf(f)
  BY DEF Computed, Byte, ByteOf, Weights
<1>8. Computed(damaged) = ByteOf(g)
  BY DEF Computed, Byte, ByteOf, Weights
<1> HIDE DEF f, g, damaged
<1>9. Computed(data) # Computed(damaged)
  BY <1>4, <1>6, <1>7, <1>8, BitsOfByte
<1> QED
  BY <1>9 DEF damaged

-----------------------------------------------------------------------------
(* A digit is read as the number it stands for, and no other character is a digit. *)
LEMMA HexReads ==
    /\ \A c \in DOMAIN Hex : Hex[c] \in 0..15
    /\ \A n \in 0..15 : HexDigit(n) \in DOMAIN Hex /\ Hex[HexDigit(n)] = n
    /\ "*" \notin DOMAIN Hex /\ " " \notin DOMAIN Hex
<1> DEFINE f == From(0, HexUpper) g == From(0, HexLower)
<1>1. DOMAIN HexUpper = 1..(15 - 0 + 1) /\ DOMAIN HexLower = 1..(15 - 0 + 1)
  BY DEF HexUpper, HexLower
<1>2. 0 \in Int /\ 15 \in Int /\ 0 <= 15
  OBVIOUS
<1>3. /\ \A c \in Range(HexUpper) : f[c] \in 0..15
      /\ \A c \in Range(HexLower) : g[c] \in 0..15
  BY <1>1, <1>2, FromTells, Zenon
<1>4. /\ DOMAIN Hex = Range(HexUpper) \cup Range(HexLower)
      /\ \A c \in DOMAIN Hex : Hex[c] = IF c \in Range(HexUpper) THEN f[c] ELSE g[c]
  BY DEF Hex
<1>5. ASSUME NEW n \in 0..15
      PROVE  HexDigit(n) \in Range(HexUpper) /\ f[HexDigit(n)] = n
  <2> DEFINE c == HexUpper[n + 1]
  <2>1. c \in Range(HexUpper) /\ n + 1 \in 1..16
    BY <1>1 DEF Range
  <2>2. 16 \in Nat /\ DOMAIN HexUpper = 1..16
    BY <1>1
  <2>3. HexUpper[f[c] - 0 + 1] = c
    BY <1>2, <2>1, <2>2, FromIs, Zenon
  <2>4. f[c] \in 0..15
    BY <1>3, <2>1
  <2>5. \A i, j \in 1..16 : HexUpper[i] = HexUpper[j] => i = j
    BY DEF HexUpper
  <2> HIDE DEF f, c
  <2>6. f[c] = n
    <3>1. f[c] - 0 + 1 \in 1..16 /\ HexUpper[f[c] - 0 + 1] = HexUpper[n + 1]
      BY <2>3, <2>4 DEF c
    <3>2. f[c] - 0 + 1 = n + 1
      BY <2>1, <2>5, <3>1
    <3> QED
      BY <2>4, <3>2
  <2> QED
    BY <2>1, <2>6 DEF c, HexDigit
<1>8. DOMAIN HexUpper = 1..16 /\ DOMAIN HexLower = 1..16
  BY DEF HexUpper, HexLower
<1>6. "*" \notin Range(HexUpper) /\ " " \notin Range(HexUpper)
  <2>1. (\A i \in 1..16 : HexUpper[i] # "*") /\ \A i \in 1..16 : HexUpper[i] # " "
    BY DEF HexUpper
  <2> QED
    BY <1>8, <2>1 DEF Range
<1>7. "*" \notin Range(HexLower) /\ " " \notin Range(HexLower)
  <2>1. (\A i \in 1..16 : HexLower[i] # "*") /\ \A i \in 1..16 : HexLower[i] # " "
    BY DEF HexLower
  <2> QED
    BY <1>8, <2>1 DEF Range
<1> HIDE DEF f, g
<1> QED
  BY <1>3, <1>4, <1>5, <1>6, <1>7

(* Two digits tell a byte. *)
LEMMA TwoDigits ==
    ASSUME NEW n \in 0..127
    PROVE  /\ n \div 16 \in 0..15 /\ (n % 16) \in 0..15
           /\ 16 * (n \div 16) + (n % 16) = n
  OBVIOUS

-----------------------------------------------------------------------------
(* The last place of a set of places. *)
LEMMA LastPlace ==
    ASSUME NEW n \in Nat, NEW P \in SUBSET (1..n), NEW k \in P, \A i \in P : i <= k
    PROVE  Max(P) = k
<1>1. k \in Int /\ \A i \in P : i \in Int /\ k >= i
  OBVIOUS
<1>2. Max(P) \in P /\ \A i \in P : Max(P) >= i
  BY <1>1, Zenon DEF Max
<1>3. Max(P) \in Int /\ k >= Max(P) /\ Max(P) >= k
  BY <1>1, <1>2, Zenon
<1> QED
  BY <1>1, <1>3

(* There is a last of any places. *)
LEMMA HasALastPlace ==
    ASSUME NEW n \in Nat, NEW P \in SUBSET (1..n), P # {}
    PROVE  Max(P) \in P /\ \A i \in P : i <= Max(P)
<1>1. \E k \in P : \A i \in P : i <= k
  <2> DEFINE Gaps == {g \in Nat : \E i \in P : g = n - i}
  <2>1. Gaps \subseteq Nat
    OBVIOUS
  <2>2. \A i \in P : n - i \in Gaps
    OBVIOUS
  <2>3. Gaps # {}
    BY <2>2
  <2>4. PICK least \in Gaps : \A g \in Gaps : ~(g < least)
    <3> HIDE DEF Gaps
    <3>1. PICK least \in Gaps : \A g \in Gaps : ~(<<g, least>> \in OpToRel(<, Nat))
      BY <2>1, <2>3, NatLessThanWellFounded, WFMin
    <3> QED
      BY <2>1, <3>1, Zenon DEF OpToRel
  <2>5. PICK k \in P : least = n - k
    BY <2>4
  <2>6. ASSUME NEW i \in P PROVE i <= k
    <3>1. ~(n - i < n - k)
      BY <2>2, <2>4, <2>5
    <3> QED
      BY <3>1
  <2> QED
    BY <2>6
<1> QED
  BY <1>1, LastPlace

(* What trim_end takes away. *)
Space == " "

(* What trim_end leaves. *)
LEMMA TrimmedIs ==
    ASSUME NEW line, NEW m \in Nat, Len(line) = m, NEW n \in 1..m, line[n] # Space,
           \A i \in (n + 1)..m : line[i] = Space
    PROVE  Trimmed(line) = SubSeq(line, 1, n)
<1> DEFINE P == {i \in 1..m : line[i] # Space}
<1>1. P \in SUBSET (1..m) /\ n \in P /\ \A i \in P : i <= n
  OBVIOUS
<1>2. Trimmed(line) = SubSeq(line, 1, IF P # {} THEN Max(P) ELSE 0)
  BY Zenon DEF Trimmed, SelectLastInSeq, Space
<1> HIDE DEF P
<1>3. Max(P) = n
  BY <1>1, LastPlace
<1> QED
  BY <1>1, <1>2, <1>3

(* A line as parse sees one that is a sentence: framed, the digits of its checksum those of
   its data, the data with an address. *)
DataOf(text) == SubSeq(text, 2, Len(text) - 3)
Proper(text) ==
    LET m == Len(text)
    IN /\ m >= 4 /\ text[1] \in {"$", "!"} /\ text[m - 2] = "*"
       /\ text[m - 1] \in DOMAIN Hex /\ text[m] \in DOMAIN Hex
       /\ 16 * Hex[text[m - 1]] + Hex[text[m]] = Computed(DataOf(text))
       /\ Addressed(Split(DataOf(text))[1])

(* The sentence that data says. *)
SentenceOf(data) ==
    LET parts == Split(data)
    IN [read |-> "sentence", talker |-> SubSeq(parts[1], 1, 2),
        kind |-> SubSeq(parts[1], 3, Len(parts[1])), fields |-> Tail(parts)]

(* The place of the last star, if there is one, and that it is the last. *)
StarOf(body) == SelectLastInSeq(body, LAMBDA c : c = "*")

(* It is a place of the text, of a star, and the last of them. *)
LEMMA StarIs ==
    ASSUME NEW body, NEW m \in Nat, Len(body) = m
    PROVE  /\ StarOf(body) \in 0..m
           /\ StarOf(body) # 0 => body[StarOf(body)] = "*"
           /\ \A n \in 1..m :
                 body[n] = "*" /\ (\A i \in (n + 1)..m : body[i] # "*") => StarOf(body) = n
<1> DEFINE P == {i \in 1..m : body[i] = "*"}
<1>1. StarOf(body) = IF P # {} THEN Max(P) ELSE 0
  BY DEF StarOf, SelectLastInSeq
<1>2. P \in SUBSET (1..m) /\ \A i \in P : body[i] = "*" /\ i \in 0..m
  OBVIOUS
<1>3. P # {} => Max(P) \in P
  <2> HIDE DEF P
  <2> QED
    BY <1>2, HasALastPlace
<1>4. ASSUME NEW n \in 1..m, body[n] = "*", \A i \in (n + 1)..m : body[i] # "*"
      PROVE  StarOf(body) = n
  <2>1. n \in P /\ \A i \in P : i <= n
    BY <1>4
  <2>2. Max(P) = n
    <3> HIDE DEF P
    <3> QED
      BY <1>2, <2>1, LastPlace
  <2> QED
    BY <1>1, <2>1, <2>2
<1>5. StarOf(body) \in 0..m /\ (StarOf(body) # 0 => body[StarOf(body)] = "*")
  <2> HIDE DEF P
  <2>1. CASE P = {}
    BY <1>1, <2>1
  <2>2. CASE P # {}
    BY <1>1, <1>2, <1>3, <2>2
  <2> QED
    BY <2>1, <2>2
<1> QED
  BY <1>4, <1>5

(* The data and the digits about the star, and the three questions parse asks of a text. *)
DataBefore(body) == SubSeq(body, 1, StarOf(body) - 1)
SumOf(body) == SubSeq(body, StarOf(body) + 1, Len(body))
Framed(text, body) ==
    /\ text # <<>> /\ text[1] \in {"$", "!"}
    /\ StarOf(body) # 0 /\ Len(SumOf(body)) = 2 /\ All(SumOf(body), DOMAIN Hex)
Agrees(body) == 16 * Hex[SumOf(body)[1]] + Hex[SumOf(body)[2]] = Computed(DataBefore(body))
Accepts(text) ==
    Framed(text, Tail(text)) /\ Agrees(Tail(text)) /\ Addressed(Split(DataBefore(Tail(text)))[1])

(* parse, from the text that is left of a line. *)
LEMMA ParseFrom ==
    ASSUME NEW line
    PROVE  /\ Parse(line).read = "sentence" => Accepts(Trimmed(line))
           /\ Accepts(Trimmed(line)) => Parse(line) = SentenceOf(DataBefore(Tail(Trimmed(line))))
<1> DEFINE text == Trimmed(line)
           body == Tail(text)
<1>1. StarOf(body) = SelectLastInSeq(body, LAMBDA c : c = "*")
  BY DEF StarOf
<1>2. Parse(line) = IF ~Framed(text, body) THEN Framing
                    ELSE IF ~Agrees(body) THEN Checksum
                    ELSE IF ~Addressed(Split(DataBefore(body))[1]) THEN Framing
                    ELSE SentenceOf(DataBefore(body))
  BY <1>1, Zenon DEF Parse, SentenceOf, Framed, Agrees, SumOf, DataBefore
<1>3. Framing.read # "sentence" /\ Checksum.read # "sentence"
  BY DEF Framing, Checksum
<1>4. Accepts(text) <=> /\ Framed(text, body) /\ Agrees(body)
                        /\ Addressed(Split(DataBefore(body))[1])
  BY DEF Accepts
<1> HIDE DEF text, body
<1>5. /\ Parse(line).read = "sentence" => Accepts(text)
      /\ Accepts(text) => Parse(line) = SentenceOf(DataBefore(body))
  BY <1>2, <1>3, <1>4
<1> QED
  BY <1>5 DEF text, body

(* The last two characters of what follows the first, and the rest. *)
LastTwo(text) == SubSeq(Tail(text), Len(text) - 2, Len(text) - 1)

(* They are the text but for its first character. *)
LEMMA PartsOfText ==
    ASSUME NEW S, NEW text \in Seq(S), Len(text) >= 4
    PROVE  /\ Tail(text) \in Seq(S) /\ Len(Tail(text)) = Len(text) - 1
           /\ \A i \in 1..(Len(text) - 1) : Tail(text)[i] = text[i + 1]
           /\ SubSeq(Tail(text), 1, Len(text) - 4) = DataOf(text)
           /\ Len(LastTwo(text)) = 2
           /\ LastTwo(text)[1] = text[Len(text) - 1] /\ LastTwo(text)[2] = text[Len(text)]
           /\ All(LastTwo(text), DOMAIN Hex) <=>
                 text[Len(text) - 1] \in DOMAIN Hex /\ text[Len(text)] \in DOMAIN Hex
<1> DEFINE m == Len(text)
           body == Tail(text)
           sum == LastTwo(text)
<1>1. m \in Nat /\ m >= 4 /\ text # <<>>
  BY LenProperties
<1>2. body \in Seq(S) /\ Len(body) = m - 1 /\ \A i \in 1..(m - 1) : body[i] = text[i + 1]
  BY <1>1, HeadTailProperties
<1>3. \A i \in 1..m : text[i] \in S
  BY ElementOfSeq
<1>4. SubSeq(body, 1, m - 4) = DataOf(text)
  <2>1. DataOf(text) = SubSeq(text, 2, m - 3)
    BY DEF DataOf
  <2> HIDE DEF m, body
  <2>2. /\ SubSeq(text, 2, m - 3) \in Seq(S)
        /\ Len(SubSeq(text, 2, m - 3)) = m - 4
        /\ \A i \in 1..(m - 4) : SubSeq(text, 2, m - 3)[i] = text[i + 1]
    BY <1>1, <1>3, SubSeqProperties
  <2>3. /\ SubSeq(body, 1, m - 4) \in Seq(S)
        /\ Len(SubSeq(body, 1, m - 4)) = m - 4
        /\ \A i \in 1..(m - 4) : SubSeq(body, 1, m - 4)[i] = body[i]
    BY <1>1, <1>2, <1>3, SubSeqProperties
  <2> QED
    BY <1>1, <1>2, <2>1, <2>2, <2>3, SeqEqual
<1>5. Len(sum) = 2 /\ sum[1] = text[m - 1] /\ sum[2] = text[m] /\ DOMAIN sum = 1..2
  <2>1. sum = SubSeq(body, m - 2, m - 1)
    BY DEF LastTwo
  <2> HIDE DEF m, body, sum
  <2> DEFINE a == m - 2
             b == m - 1
  <2>2. a \in Int /\ b \in Int /\ b = a + 1 /\ \A i \in a..b : body[i] \in S
    BY <1>1, <1>2, <1>3
  <2>6. sum = SubSeq(body, a, b)
    BY <2>1
  <2> HIDE DEF a, b
  <2>7. /\ sum \in Seq(S) /\ Len(sum) = IF a <= b THEN b - a + 1 ELSE 0
        /\ \A i \in 1..(b - a + 1) : sum[i] = body[a + i - 1]
    BY <2>2, <2>6, SubSeqProperties
  <2>3. sum \in Seq(S) /\ Len(sum) = 2 /\ sum[1] = body[a] /\ sum[2] = body[b]
    BY <2>2, <2>7
  <2>4. sum[1] = body[m - 2] /\ sum[2] = body[m - 1]
    BY <2>3 DEF a, b
  <2>5. DOMAIN sum = 1..2
    BY <2>3, LenProperties
  <2> QED
    BY <1>1, <1>2, <2>3, <2>4, <2>5
<1>6. All(sum, DOMAIN Hex) <=> text[m - 1] \in DOMAIN Hex /\ text[m] \in DOMAIN Hex
  <2> HIDE DEF m, sum
  <2>1. Range(sum) = {text[m - 1], text[m]}
    BY <1>5 DEF Range
  <2> QED
    BY <2>1 DEF All
<1> QED
  BY <1>2, <1>4, <1>5, <1>6

(* A line is a sentence if what is left of it is proper, and then that of its data. *)
LEMMA AcceptsIs ==
    ASSUME NEW S, NEW text \in Seq(S), "*" \notin DOMAIN Hex
    PROVE  /\ Accepts(text) <=> Proper(text)
           /\ Accepts(text) => DataBefore(Tail(text)) = DataOf(text)
<1> DEFINE m == Len(text)
           body == Tail(text)
           star == StarOf(body)
<1>1. m \in Nat
  BY LenProperties
<1>2. text # <<>> => body \in Seq(S) /\ Len(body) = m - 1
  BY HeadTailProperties
<1>3. ASSUME m >= 4
      PROVE  /\ body \in Seq(S) /\ Len(body) = m - 1 /\ m - 1 \in Nat /\ text # <<>>
             /\ \A i \in 1..(m - 1) : body[i] = text[i + 1]
             /\ SubSeq(body, 1, m - 4) = DataOf(text)
             /\ Len(LastTwo(text)) = 2 /\ LastTwo(text) = SubSeq(body, m - 2, m - 1)
             /\ LastTwo(text)[1] = text[m - 1] /\ LastTwo(text)[2] = text[m]
             /\ All(LastTwo(text), DOMAIN Hex) <=>
                   text[m - 1] \in DOMAIN Hex /\ text[m] \in DOMAIN Hex
  <2>1. m - 1 \in Nat /\ text # <<>>
    BY <1>1, <1>3
  <2> QED
    BY <1>3, <2>1, PartsOfText DEF LastTwo
<1>4. ASSUME m >= 4, star = m - 3
      PROVE  /\ Accepts(text) <=> Proper(text)
             /\ DataBefore(body) = DataOf(text)
  <2>1. star - 1 = m - 4 /\ star + 1 = m - 2 /\ star # 0 /\ m - 3 \in 1..(m - 1)
    BY <1>1, <1>4
  <2>2. DataBefore(body) = DataOf(text) /\ SumOf(body) = LastTwo(text)
    BY <1>3, <1>4, <2>1 DEF DataBefore, SumOf
  <2>3. body[star] = "*" /\ text[m - 2] = "*"
    <3> HIDE DEF body
    <3>1. body[star] = "*"
      BY <1>3, <1>4, <2>1, StarIs
    <3> HIDE DEF star
    <3>2. body[m - 3] = text[(m - 3) + 1] /\ (m - 3) + 1 = m - 2
      BY <1>1, <1>3, <1>4, <2>1
    <3> QED
      BY <1>4, <3>1, <3>2
  <2>4. Accepts(text) <=>
          /\ text # <<>> /\ text[1] \in {"$", "!"} /\ star # 0 /\ Len(LastTwo(text)) = 2
          /\ All(LastTwo(text), DOMAIN Hex)
          /\ 16 * Hex[LastTwo(text)[1]] + Hex[LastTwo(text)[2]] = Computed(DataOf(text))
          /\ Addressed(Split(DataOf(text))[1])
    BY <2>2, Zenon DEF Accepts, Framed, Agrees
  <2>5. Proper(text) <=>
          /\ m >= 4 /\ text[1] \in {"$", "!"} /\ text[m - 2] = "*"
          /\ text[m - 1] \in DOMAIN Hex /\ text[m] \in DOMAIN Hex
          /\ 16 * Hex[text[m - 1]] + Hex[text[m]] = Computed(DataOf(text))
          /\ Addressed(Split(DataOf(text))[1])
    BY Zenon DEF Proper
  <2>6. /\ LastTwo(text)[1] = text[m - 1] /\ LastTwo(text)[2] = text[m]
        /\ Len(LastTwo(text)) = 2 /\ text # <<>>
        /\ All(LastTwo(text), DOMAIN Hex) <=>
              text[m - 1] \in DOMAIN Hex /\ text[m] \in DOMAIN Hex
    BY <1>3, <1>4
  <2> HIDE DEF m, body, star
  <2> QED
    BY <1>4, <2>1, <2>2, <2>3, <2>4, <2>5, <2>6
<1>5. Accepts(text) => m >= 4 /\ star = m - 3
  <2> HAVE Accepts(text)
  <2>1. text # <<>> /\ star # 0 /\ Len(SumOf(body)) = 2
    BY Zenon DEF Accepts, Framed
  <2>2. body \in Seq(S) /\ Len(body) = m - 1 /\ m - 1 \in Nat
    BY <1>2, <2>1, LenProperties
  <2>3. star \in 0..(m - 1)
    <3> HIDE DEF body
    <3> QED
      BY <2>2, StarIs
  <2>4. Len(SumOf(body)) = IF star + 1 <= m - 1 THEN (m - 1) - (star + 1) + 1 ELSE 0
    <3>1. \A i \in (star + 1)..(m - 1) : body[i] \in S
      BY <1>1, <2>2, <2>3, ElementOfSeq
    <3>2. star + 1 \in Int /\ m - 1 \in Int
      BY <1>1, <2>3
    <3>3. SumOf(body) = SubSeq(body, star + 1, m - 1)
      BY <2>2 DEF SumOf
    <3> HIDE DEF body, star
    <3> QED
      BY <3>1, <3>2, <3>3, SubSeqProperties
  <2>5. \A k \in Nat : \A i \in 0..(k - 1) :
          i # 0 /\ 2 = (IF i + 1 <= k - 1 THEN (k - 1) - (i + 1) + 1 ELSE 0) => k >= 4 /\ i = k - 3
    OBVIOUS
  <2> HIDE DEF star, m
  <2> QED
    BY <1>1, <2>1, <2>3, <2>4, <2>5
<1>6. Proper(text) => m >= 4 /\ star = m - 3
  <2> HAVE Proper(text)
  <2>1. m >= 4 /\ text[m - 2] = "*" /\ text[m - 1] \in DOMAIN Hex /\ text[m] \in DOMAIN Hex
    BY Zenon DEF Proper
  <2>2. Len(body) = m - 1 /\ m - 1 \in Nat /\ \A i \in 1..(m - 1) : body[i] = text[i + 1]
    BY <1>3, <2>1
  <2> HIDE DEF m, body
  <2>3. m - 3 \in 1..(m - 1) /\ body[m - 3] = "*"
    BY <1>1, <2>1, <2>2
  <2>4. \A i \in ((m - 3) + 1)..(m - 1) : body[i] # "*"
    <3>1. body[m - 2] # "*" /\ body[m - 1] # "*"
      BY <1>1, <2>1, <2>2
    <3>2. \A i \in ((m - 3) + 1)..(m - 1) : i = m - 2 \/ i = m - 1
      BY <1>1
    <3> QED
      BY <3>1, <3>2
  <2> QED
    BY <2>1, <2>2, <2>3, <2>4, StarIs
<1> HIDE DEF m, star
<1> QED
  BY <1>4, <1>5, <1>6

-----------------------------------------------------------------------------
(* Two sequences joined, place by place. *)
Joined(s, t) ==
    /\ Len(s \o t) = Len(s) + Len(t)
    /\ \A i \in 1..Len(s) : (s \o t)[i] = s[i]
    /\ \A i \in 1..Len(t) : (s \o t)[Len(s) + i] = t[i]

(* Sequences of one kind put together are one of that kind. *)
LEMMA JoinedIs ==
    ASSUME NEW S, NEW s \in Seq(S), NEW t \in Seq(S)
    PROVE  s \o t \in Seq(S) /\ Joined(s, t)
<1> DEFINE j == s \o t
           m == Len(s)
           n == Len(t)
<1>1. /\ j \in Seq(S) /\ Len(j) = m + n
      /\ \A i \in 1..(m + n) : j[i] = IF i <= m THEN s[i] ELSE t[i - m]
  BY ConcatProperties
<1>2. m \in Nat /\ n \in Nat
  BY LenProperties
<1> HIDE DEF j, m, n
<1>3. \A i \in 1..m : j[i] = s[i]
  BY <1>1, <1>2
<1>4. \A i \in 1..n : j[m + i] = t[i]
  <2> TAKE i \in 1..n
  <2>1. m + i \in 1..(m + n) /\ ~(m + i <= m) /\ (m + i) - m = i
    BY <1>2
  <2> QED
    BY <1>1, <2>1
<1>5. /\ j \in Seq(S) /\ Len(j) = m + n
      /\ \A i \in 1..m : j[i] = s[i]
      /\ \A i \in 1..n : j[m + i] = t[i]
  BY <1>1, <1>3, <1>4
<1> QED
  BY <1>5, Zenon DEF j, m, n, Joined

(* A line as it is sent, place by place. *)
LineCharacters == DOMAIN Code \cup {"$", "*"} \cup DOMAIN Hex

(* The line of data, place by place. *)
LEMMA LineIs ==
    ASSUME NEW data \in Seq(DOMAIN Code), NEW n \in Nat, Len(data) = n
    PROVE  /\ LineOf(data) \in Seq(LineCharacters) /\ Len(LineOf(data)) = n + 4
           /\ DOMAIN LineOf(data) = 1..(n + 4)
           /\ LineOf(data)[1] = "$" /\ \A i \in 1..n : LineOf(data)[1 + i] = data[i]
           /\ LineOf(data)[n + 2] = "*"
           /\ LineOf(data)[n + 3] = HexDigit(Computed(data) \div 16)
           /\ LineOf(data)[n + 4] = HexDigit(Computed(data) % 16)
<1> DEFINE h == HexDigit(Computed(data) \div 16)
           l == HexDigit(Computed(data) % 16)
           dollar == <<"$">>
           end == <<"*", h, l>>
           start == dollar \o data
           line == start \o end
<1>1. h \in LineCharacters /\ l \in LineCharacters
  <2>1. Computed(data) \div 16 \in 0..15 /\ (Computed(data) % 16) \in 0..15
    BY ComputedType, TwoDigits
  <2>2. h \in DOMAIN Hex /\ l \in DOMAIN Hex
    BY <2>1, HexReads
  <2> QED
    BY <2>2 DEF LineCharacters
<1>2. dollar \in Seq(LineCharacters) /\ Len(dollar) = 1 /\ dollar[1] = "$"
  BY DEF LineCharacters
<1>3. data \in Seq(LineCharacters)
  BY DEF LineCharacters
<1>4. end \in Seq(LineCharacters) /\ Len(end) = 3 /\ end[1] = "*" /\ end[2] = h /\ end[3] = l
  <2> HIDE DEF h, l
  <2>1. "*" \in LineCharacters
    BY DEF LineCharacters
  <2> QED
    BY <1>1, <2>1
<1>5. LineOf(data) = line
  BY DEF LineOf
<1> HIDE DEF h, l, dollar, end, line
<1>6. /\ start \in Seq(LineCharacters) /\ Len(start) = 1 + n
      /\ start[1] = dollar[1]
      /\ \A i \in 1..n : start[1 + i] = data[i]
  <2>1. start \in Seq(LineCharacters) /\ Joined(dollar, data)
    BY <1>2, <1>3, JoinedIs, Zenon
  <2>2. /\ Len(start) = Len(dollar) + Len(data)
        /\ \A i \in 1..Len(dollar) : start[i] = dollar[i]
        /\ \A i \in 1..Len(data) : start[Len(dollar) + i] = data[i]
    BY <2>1, Zenon DEF Joined
  <2> HIDE DEF start
  <2>3. 1 \in 1..1
    OBVIOUS
  <2> QED
    BY <1>2, <2>1, <2>2, <2>3
<1> HIDE DEF start
<1>7. /\ line \in Seq(LineCharacters) /\ Len(line) = (1 + n) + 3
      /\ \A i \in 1..(1 + n) : line[i] = start[i]
      /\ \A i \in 1..3 : line[(1 + n) + i] = end[i]
  <2>1. line \in Seq(LineCharacters) /\ Joined(start, end)
    BY <1>4, <1>6, JoinedIs, Zenon DEF line
  <2>2. /\ Len(line) = Len(start) + Len(end)
        /\ \A i \in 1..Len(start) : line[i] = start[i]
        /\ \A i \in 1..Len(end) : line[Len(start) + i] = end[i]
    BY <2>1, Zenon DEF Joined, line
  <2> QED
    BY <1>4, <1>6, <2>1, <2>2
<1>8. \A i \in 1..n : line[1 + i] = data[i]
  <2>1. \A i \in 1..n : 1 + i \in 1..(1 + n)
    OBVIOUS
  <2> QED
    BY <1>6, <1>7, <2>1
<1>9. line[1] = "$"
  BY <1>2, <1>6, <1>7
<1>10. line[n + 2] = "*" /\ line[n + 3] = h /\ line[n + 4] = l
  BY <1>4, <1>7
<1>11. Len(line) = n + 4
  BY <1>7
<1>12. DOMAIN line = 1..(n + 4)
  BY <1>7, <1>11, LenProperties
<1> QED
  BY <1>5, <1>7, <1>8, <1>9, <1>10, <1>11, <1>12 DEF h, l

(* What is before a place of a sequence, and a sequence with one place changed. *)
LEMMA PrefixIs ==
    ASSUME NEW S, NEW s \in Seq(S), NEW m \in 1..Len(s)
    PROVE  /\ SubSeq(s, 1, m) \in Seq(S) /\ Len(SubSeq(s, 1, m)) = m
           /\ \A k \in 1..m : SubSeq(s, 1, m)[k] = s[k]
  OBVIOUS

(* A sequence with its i-th place changed, and what it then is. *)
ChangedAt(s, i, e) == [s EXCEPT ![i] = e]

IsChanged(S, s, i, e, t) ==
    /\ t \in Seq(S) /\ Len(t) = Len(s) /\ t[i] = e
    /\ \A j \in 1..Len(s) : j # i => t[j] = s[j]

(* It is that. *)
LEMMA ChangedIs ==
    ASSUME NEW S, NEW s \in Seq(S), NEW i \in 1..Len(s), NEW e \in S
    PROVE  IsChanged(S, s, i, e, ChangedAt(s, i, e))
<1>1. /\ ChangedAt(s, i, e) \in Seq(S) /\ Len(ChangedAt(s, i, e)) = Len(s)
      /\ \A j \in 1..Len(s) : ChangedAt(s, i, e)[j] = IF j = i THEN e ELSE s[j]
  BY ExceptSeq DEF ChangedAt
<1> QED
  BY <1>1 DEF IsChanged

(* The data of a line, by its places. *)
LEMMA DataIs ==
    ASSUME NEW S, NEW text \in Seq(S), NEW data \in Seq(S), NEW n \in Nat, Len(data) = n,
           Len(text) = n + 4, \A k \in 1..n : text[1 + k] = data[k]
    PROVE  DataOf(text) = data
<1> DEFINE b == n + 1
           part == SubSeq(text, 2, b)
<1>1. DataOf(text) = part
  <2>1. Len(text) - 3 = n + 1
    OBVIOUS
  <2> QED
    BY <2>1 DEF DataOf
<1>2. 2 \in Int /\ b \in Int /\ b - 2 + 1 = n /\ (2 <= b <=> n >= 1) /\ \A k \in 2..b : text[k] \in S
  <2>1. \A k \in 1..(n + 4) : text[k] \in S
    BY ElementOfSeq
  <2> QED
    BY <2>1
<1> HIDE DEF b
<1>3. /\ part \in Seq(S) /\ Len(part) = IF 2 <= b THEN b - 2 + 1 ELSE 0
      /\ \A k \in 1..(b - 2 + 1) : part[k] = text[2 + k - 1]
  BY <1>2, SubSeqProperties
<1> HIDE DEF part
<1>4. Len(part) = n
  BY <1>2, <1>3
<1>5. \A k \in 1..n : part[k] = data[k]
  <2>1. \A k \in 1..n : 2 + k - 1 = 1 + k
    OBVIOUS
  <2> QED
    BY <1>2, <1>3, <2>1
<1>6. part = data
  BY <1>3, <1>4, <1>5, SeqEqual
<1> QED
  BY <1>1, <1>6

(* Damaged in one place, a line is no sentence or the same: DamageIsCaught, of any data. *)
LEMMA DamageOf ==
    ASSUME NEW data \in Seq(DOMAIN Code), Addressed(Split(data)[1]),
           NEW i \in DOMAIN LineOf(data), NEW c \in DOMAIN Code
    PROVE  LET damaged == [LineOf(data) EXCEPT ![i] = c]
           IN /\ Parse(LineOf(data)) = SentenceOf(data)
              /\ Parse(damaged).read = "sentence" => Parse(damaged) = SentenceOf(data)
<1> DEFINE n == Len(data)
           line == LineOf(data)
           damaged == ChangedAt(line, i, c)
           h == HexDigit(Computed(data) \div 16)
           l == HexDigit(Computed(data) % 16)
<1>1. n \in Nat
  BY LenProperties
<1>2. /\ line \in Seq(LineCharacters) /\ Len(line) = n + 4 /\ DOMAIN line = 1..(n + 4)
      /\ line[1] = "$" /\ \A k \in 1..n : line[1 + k] = data[k]
      /\ line[n + 2] = "*" /\ line[n + 3] = h /\ line[n + 4] = l
  BY <1>1, LineIs
<1>3. /\ h \in DOMAIN Hex /\ l \in DOMAIN Hex /\ 16 * Hex[h] + Hex[l] = Computed(data)
      /\ "*" \notin DOMAIN Hex /\ h # Space /\ l # Space
  <2>1. /\ Computed(data) \div 16 \in 0..15 /\ (Computed(data) % 16) \in 0..15
        /\ 16 * (Computed(data) \div 16) + (Computed(data) % 16) = Computed(data)
    BY ComputedType, TwoDigits
  <2>2. h \in DOMAIN Hex /\ Hex[h] = Computed(data) \div 16
    BY <2>1, HexReads
  <2>3. l \in DOMAIN Hex /\ Hex[l] = (Computed(data) % 16)
    BY <2>1, HexReads
  <2>4. "*" \notin DOMAIN Hex /\ Space \notin DOMAIN Hex
    BY HexReads, Zenon DEF Space
  <2> HIDE DEF h, l
  <2> QED
    BY <2>1, <2>2, <2>3, <2>4
<1>4. i \in 1..(n + 4)
  BY <1>2
<1>10. c # line[i] =>
         /\ damaged \in Seq(LineCharacters) /\ Len(damaged) = n + 4
         /\ damaged[i] = c /\ \A k \in 1..(n + 4) : k # i => damaged[k] = line[k]
  <2>1. c \in LineCharacters /\ i \in 1..Len(line)
    BY <1>2, <1>4 DEF LineCharacters
  <2>3. line \in Seq(LineCharacters)
    BY <1>2
  <2> HIDE DEF line
  <2>2. /\ damaged \in Seq(LineCharacters) /\ Len(damaged) = Len(line)
        /\ damaged[i] = c /\ \A k \in 1..Len(line) : k # i => damaged[k] = line[k]
    <3>1. IsChanged(LineCharacters, line, i, c, ChangedAt(line, i, c))
      BY <2>1, <2>3, ChangedIs, Zenon
    <3> QED
      BY <3>1, Zenon DEF IsChanged
  <2> QED
    BY <1>2, <1>4, <2>2
<1>11. c = line[i] => damaged = line
  <2> HIDE DEF line
  <2> QED
    BY <1>2, <1>4 DEF ChangedAt
<1> HIDE DEF line, h, l, n, damaged
<1>5. data \in Seq(LineCharacters) /\ Len(data) = n
  BY DEF LineCharacters, n
<1>6. \A text \in Seq(LineCharacters) :
        /\ (Accepts(text) <=> Proper(text))
        /\ (Accepts(text) => DataBefore(Tail(text)) = DataOf(text))
  BY <1>3, AcceptsIs
<1>7. \A text \in Seq(LineCharacters) :
        Len(text) = n + 4 /\ text[n + 4] # Space => Trimmed(text) = text
  <2> TAKE text \in Seq(LineCharacters)
  <2> HAVE Len(text) = n + 4 /\ text[n + 4] # Space
  <2>1. n + 4 \in Nat /\ n + 4 \in 1..(n + 4) /\ \A k \in ((n + 4) + 1)..(n + 4) : FALSE
    BY <1>1
  <2>2. Trimmed(text) = SubSeq(text, 1, n + 4)
    BY <2>1, TrimmedIs
  <2> QED
    BY <2>2, SubSeqFull
<1>8. Parse(line) = SentenceOf(data)
  <2>1. Trimmed(line) = line
    BY <1>2, <1>3, <1>7
  <2>2. DataOf(line) = data
    BY <1>1, <1>2, <1>5, DataIs
  <2>3. Len(line) >= 4 /\ Len(line) - 2 = n + 2 /\ Len(line) - 1 = n + 3
    BY <1>1, <1>2
  <2>4. Proper(line)
    BY <1>2, <1>3, <2>2, <2>3 DEF Proper
  <2> QED
    BY <1>2, <1>6, <2>1, <2>2, <2>4, ParseFrom
<1>9. ASSUME Parse(damaged).read = "sentence"
      PROVE  Parse(damaged) = SentenceOf(data)
  <2>1. CASE c = line[i]
    <3>1. damaged = line
      BY <1>11, <2>1
    <3> QED
      BY <1>8, <3>1
  <2>2. CASE c # line[i]
    <3>1. /\ damaged \in Seq(LineCharacters) /\ Len(damaged) = n + 4
          /\ damaged[i] = c /\ \A k \in 1..(n + 4) : k # i => damaged[k] = line[k]
      BY <1>10, <2>2
    <3>2. Accepts(Trimmed(damaged))
      BY <1>9, ParseFrom
    <3>3. n + 4 \in 1..(n + 4) /\ n + 3 \in 1..(n + 4) /\ n + 2 \in 1..(n + 4) /\ 1 \in 1..(n + 4)
          /\ \A k \in 1..n : 1 + k \in 1..(n + 4)
      BY <1>1
    <3>4. CASE damaged[n + 4] # Space
      <4>1. Trimmed(damaged) = damaged
        BY <1>7, <3>1, <3>4
      <4>2. Proper(damaged) /\ Parse(damaged) = SentenceOf(DataOf(damaged))
        BY <1>6, <3>1, <3>2, <4>1, ParseFrom
      <4>3. Len(damaged) - 2 = n + 2 /\ Len(damaged) - 1 = n + 3 /\ Len(damaged) = n + 4
        BY <1>1, <3>1
      <4>4. /\ damaged[n + 2] = "*"
            /\ 16 * Hex[damaged[n + 3]] + Hex[damaged[n + 4]] = Computed(DataOf(damaged))
        BY <4>2, <4>3 DEF Proper
      <4>5. i # n + 2
        BY <1>2, <2>2, <3>1, <4>4
      <4>6. ASSUME NEW k \in 1..n, i = 1 + k PROVE FALSE
        <5> DEFINE other == [data EXCEPT ![k] = c]
        <5>1. k \in DOMAIN data /\ c # data[k]
          BY <1>2, <1>5, <2>2, <4>6, LenProperties
        <5>2. other \in Seq(DOMAIN Code) /\ Len(other) = n
              /\ \A j \in 1..n : other[j] = IF j = k THEN c ELSE data[j]
          BY <1>5, <5>1
        <5>3. \A j \in 1..n : damaged[1 + j] = other[j]
          <6> HIDE DEF other
          <6>1. \A j \in 1..n : 1 + j = i <=> j = k
            BY <1>1, <4>6
          <6> QED
            BY <1>2, <3>1, <3>3, <5>2, <6>1
        <5>4. other \in Seq(LineCharacters)
          <6> HIDE DEF other
          <6> QED
            BY <5>2 DEF LineCharacters
        <5>5. DataOf(damaged) = other
          <6>1. Len(other) = n
            BY <5>2
          <6> HIDE DEF other
          <6> QED
            BY <1>1, <3>1, <5>3, <5>4, <6>1, DataIs, Zenon
        <5>6. damaged[n + 3] = h /\ damaged[n + 4] = l
          BY <1>1, <1>2, <3>1, <3>3, <4>6
        <5>7. Computed(other) = Computed(data)
          BY <1>3, <4>4, <5>5, <5>6
        <5> QED
          BY <5>1, <5>7, OneChangeIsSeen
      <4>7. \A k \in 1..n : damaged[1 + k] = data[k]
        BY <1>2, <3>1, <3>3, <4>6
      <4>8. DataOf(damaged) = data
        BY <1>1, <1>5, <3>1, <4>7, DataIs, Zenon
      <4> QED
        BY <4>2, <4>8
    <3>5. CASE damaged[n + 4] = Space
      <4> DEFINE text == Trimmed(damaged)
      <4>1. i = n + 4
        BY <1>2, <1>3, <3>1, <3>3, <3>5
      <4>2. damaged[n + 3] = h /\ damaged[n + 2] = "*"
        BY <1>1, <1>2, <3>1, <3>3, <4>1
      <4>3. text = SubSeq(damaged, 1, n + 3)
        <5>1. n + 4 \in Nat /\ n + 3 \in 1..(n + 4) /\ \A k \in ((n + 3) + 1)..(n + 4) : k = n + 4
          BY <1>1
        <5> QED
          <6>1. damaged[n + 3] # Space /\ \A k \in ((n + 3) + 1)..(n + 4) : damaged[k] = Space
            BY <1>3, <3>5, <4>2, <5>1
          <6> QED
            BY <3>1, <5>1, <6>1, TrimmedIs, Zenon
      <4>4. text \in Seq(LineCharacters) /\ Len(text) = n + 3 /\ text[n + 2] = "*"
        <5>1. n + 3 \in 1..Len(damaged) /\ n + 2 \in 1..(n + 3)
          BY <1>1, <3>1
        <5> HIDE DEF text
        <5>2. /\ text \in Seq(LineCharacters) /\ Len(text) = n + 3
              /\ \A k \in 1..(n + 3) : text[k] = damaged[k]
          BY <3>1, <4>3, <5>1, PrefixIs, Zenon
        <5> QED
          BY <4>2, <5>1, <5>2
      <4>5. Proper(text)
        BY <1>6, <3>2, <4>4
      <4> HIDE DEF text
      <4>6. text[Len(text) - 1] \in DOMAIN Hex
        BY <4>5, Zenon DEF Proper
      <4>7. Len(text) - 1 = n + 2
        BY <1>1, <4>4
      <4> QED
        BY <1>3, <4>4, <4>6, <4>7
    <3> QED
      BY <3>4, <3>5
  <2> QED
    BY <2>1, <2>2
<1> QED
  BY <1>8, <1>9, Zenon DEF line, damaged, ChangedAt

(* A damaged line picked is one of some sentence. *)
LEMMA ADamagedLineIsCaught == DamagedLine => DamageIsCaught'
<1> SUFFICES ASSUME DamagedLine PROVE DamageIsCaught'
  OBVIOUS
<1>1. PICK data \in Sentences, c \in DOMAIN Code : \E i \in DOMAIN LineOf(data) :
         input' = [what |-> "line", line |-> LineOf(data), damaged |-> ReplaceAt(LineOf(data), i, c)]
  BY DEF DamagedLine
<1>2. PICK i \in DOMAIN LineOf(data) :
         input' = [what |-> "line", line |-> LineOf(data), damaged |-> ReplaceAt(LineOf(data), i, c)]
  BY <1>1
<1> DEFINE damaged == [LineOf(data) EXCEPT ![i] = c]
<1>3. input'.line = LineOf(data) /\ input'.damaged = damaged
  BY <1>2 DEF ReplaceAt
<1>4. data \in Seq(DOMAIN Code) /\ Addressed(Split(data)[1])
  BY SentencesAssumption
<1>5. /\ Parse(LineOf(data)) = SentenceOf(data)
      /\ Parse(damaged).read = "sentence" => Parse(damaged) = SentenceOf(data)
  BY <1>4, DamageOf
<1>6. SentenceOf(data).read = "sentence"
  BY DEF SentenceOf
<1> HIDE DEF damaged
<1>7. /\ Parse(input'.line).read = "sentence"
      /\ Parse(input'.damaged).read = "sentence" => Parse(input'.damaged) = Parse(input'.line)
  BY <1>3, <1>5, <1>6
<1> QED
  BY <1>7, Zenon DEF DamageIsCaught

-----------------------------------------------------------------------------
(* What is not left out of a structure, as it is written. *)
Kept(s, types) ==
    [k \in {k \in DOMAIN s : Written(types[k], s[k]).t # "null"} |-> Written(types[k], s[k])]

(* The fix as it is written: its status beside what is kept of its place. *)
FixKept(fix) ==
    LET place == IF fix.place = Absent THEN [k \in {} |-> Null] ELSE Kept(fix.place[1], PlaceTypes)
    IN [k \in {"status"} \cup DOMAIN place |-> IF k = "status" THEN Str(fix.status) ELSE place[k]]

(* A list of structures, as it is written. *)
AllKept(list, types) == [i \in DOMAIN list |-> Obj(Kept(list[i], types))]

(* What without_nulls leaves of a value that holds no other. *)
LEMMA ScalarStays ==
    ASSUME NEW type, NEW x
    PROVE  /\ Written(type, x).t \notin {"obj", "arr"}
           /\ PrunedObject(Written(type, x)) = Written(type, x)
           /\ PrunedPart(Written(type, x)) = Written(type, x)
<1>1. Written(type, x).t \notin {"obj", "arr"}
  BY DEF Written, Str, Bool, Integer, Null, Num
<1> QED
  BY <1>1 DEF PrunedObject, PrunedPart, Pruned

(* What it leaves of a text, *)
LEMMA TextStays ==
    ASSUME NEW x
    PROVE  PrunedObject(Str(x)) = Str(x) /\ PrunedPart(Str(x)) = Str(x) /\ Str(x).t = "str"
  BY DEF PrunedObject, PrunedPart, Pruned, Str

(* of a list, *)
LEMMA ListKept ==
    ASSUME NEW list, NEW types
    PROVE  PrunedPart(List(list, types)) = Arr(AllKept(list, types))
<1> DEFINE f == [i \in DOMAIN list |-> Obj(Struct(list[i], types))]
<1>1. List(list, types) = Arr(f)
  BY DEF List
<1>2. PrunedPart(Arr(f)) = Arr([i \in DOMAIN f |-> PrunedObject(f[i])])
  BY DEF PrunedPart, Pruned, Arr
<1>3. ASSUME NEW i \in DOMAIN list
      PROVE  PrunedObject(Obj(Struct(list[i], types))) = Obj(Kept(list[i], types))
  <2> DEFINE s == Struct(list[i], types)
  <2>1. PrunedObject(Obj(s)) = Obj([k \in {k \in DOMAIN s : s[k].t # "null"} |-> s[k]])
    BY DEF PrunedObject, Pruned, Obj, Scalar
  <2>2. [k \in {k \in DOMAIN s : s[k].t # "null"} |-> s[k]] = Kept(list[i], types)
    BY DEF Kept, Struct
  <2> QED
    BY <2>1, <2>2
<1>4. [i \in DOMAIN f |-> PrunedObject(f[i])] = AllKept(list, types)
  BY <1>3 DEF AllKept
<1> QED
  BY <1>1, <1>2, <1>4

(* or of a fix. *)
LEMMA FixIsKept ==
    ASSUME NEW fix, fix.place # Absent => "status" \notin DOMAIN fix.place[1]
    PROVE  PrunedPart(FixWritten(fix)) = Obj(FixKept(fix))
<1> DEFINE place == IF fix.place = Absent THEN [k \in {} |-> Null] ELSE Struct(fix.place[1], PlaceTypes)
           kept == IF fix.place = Absent THEN [k \in {} |-> Null] ELSE Kept(fix.place[1], PlaceTypes)
           f == [k \in {"status"} \cup DOMAIN place |-> IF k = "status" THEN Str(fix.status) ELSE place[k]]
           g == [k \in {k \in DOMAIN f : f[k].t # "null"} |-> PrunedObject(f[k])]
<1>1. PrunedPart(Obj(f)) = Obj(g)
  BY DEF PrunedPart, Pruned, Obj
<1>2. /\ DOMAIN kept = {k \in DOMAIN place : place[k].t # "null"}
      /\ \A k \in DOMAIN kept : kept[k] = place[k]
      /\ "status" \notin DOMAIN place
      /\ \A k \in DOMAIN place : PrunedObject(place[k]) = place[k]
  <2>1. CASE fix.place = Absent
    BY <2>1
  <2>2. CASE fix.place # Absent
    <3> DEFINE p == fix.place[1]
    <3>1. place = [k \in DOMAIN p |-> Written(PlaceTypes[k], p[k])]
      BY <2>2 DEF Struct
    <3>2. kept = [k \in {k \in DOMAIN p : Written(PlaceTypes[k], p[k]).t # "null"} |->
                     Written(PlaceTypes[k], p[k])]
      BY <2>2 DEF Kept
    <3>3. "status" \notin DOMAIN p
      BY <2>2
    <3> HIDE DEF place, kept, p
    <3> QED
      BY <3>1, <3>2, <3>3, ScalarStays
  <2> QED
    BY <2>1, <2>2
<1>3. FixKept(fix) = [k \in {"status"} \cup DOMAIN kept |-> IF k = "status" THEN Str(fix.status) ELSE kept[k]]
  BY DEF FixKept
<1>4. FixWritten(fix) = Obj(f)
  BY DEF FixWritten
<1> HIDE DEF place, kept
<1>5. DOMAIN g = {"status"} \cup DOMAIN kept
  <2>1. f["status"] = Str(fix.status) /\ \A k \in DOMAIN place : f[k] = place[k]
    BY <1>2
  <2> QED
    BY <2>1, <1>2, TextStays
<1>6. \A k \in {"status"} \cup DOMAIN kept :
         g[k] = IF k = "status" THEN Str(fix.status) ELSE kept[k]
  BY <1>2, <1>5, TextStays
<1>7. g = FixKept(fix)
  BY <1>3, <1>5, <1>6
<1> QED
  BY <1>1, <1>4, <1>7

(* What a hub's line is, of each kind of message.  A hello: *)
LEMMA HelloLine ==
    ASSUME NEW m, m = [type |-> "hello", keel |-> m.keel]
    PROVE  ToLine(m) = Obj([type |-> Str("hello"), v |-> Integer(VERSION), keel |-> Str(m.keel)])
<1> DEFINE b == Body(m)
<1>1. DOMAIN m = {"type", "keel"} /\ m.type = "hello"
  OBVIOUS
<1>2. DOMAIN b = {"type", "v", "keel"}
  BY <1>1 DEF Body
<1>3. b["type"] = Str("hello") /\ b["v"] = Integer(VERSION) /\ b["keel"] = Str(m.keel)
  BY <1>1 DEF Body
<1>4. ToLine(m) = Obj([k \in {k \in DOMAIN b : b[k].t # "null"} |-> PrunedPart(b[k])])
  BY DEF ToLine, WithoutNulls, Pruned, Obj
<1> HIDE DEF b
<1>5. Integer(VERSION).t = "num" /\ PrunedPart(Integer(VERSION)) = Integer(VERSION)
  BY DEF Integer, PrunedPart, Pruned
<1> DEFINE g == [k \in {k \in DOMAIN b : b[k].t # "null"} |-> PrunedPart(b[k])]
<1>6. DOMAIN g = {"type", "v", "keel"}
  BY <1>2, <1>3, <1>5, TextStays
<1>7. g["type"] = Str("hello") /\ g["v"] = Integer(VERSION) /\ g["keel"] = Str(m.keel)
  BY <1>3, <1>5, <1>6, TextStays
<1>8. g = [type |-> Str("hello"), v |-> Integer(VERSION), keel |-> Str(m.keel)]
  BY <1>6, <1>7
<1> QED
  BY <1>4, <1>8

(* A state: *)
LEMMA StateLine ==
    ASSUME NEW m, m = [type |-> "state", fix |-> m.fix, sources |-> m.sources],
           m.fix.place # Absent => "status" \notin DOMAIN m.fix.place[1]
    PROVE  ToLine(m) = Obj([type |-> Str("state"), v |-> Integer(VERSION), fix |-> Obj(FixKept(m.fix)),
                            sources |-> Arr(AllKept(m.sources, SourceTypes))])
<1> DEFINE b == Body(m)
<1>1. DOMAIN m = {"type", "fix", "sources"} /\ m.type = "state"
  OBVIOUS
<1>2. DOMAIN b = {"type", "v", "fix", "sources"}
  BY <1>1 DEF Body
<1>3. b["type"] = Str("state") /\ b["v"] = Integer(VERSION) /\ b["fix"] = FixWritten(m.fix)
      /\ b["sources"] = List(m.sources, SourceTypes)
  BY <1>1 DEF Body
<1>4. ToLine(m) = Obj([k \in {k \in DOMAIN b : b[k].t # "null"} |-> PrunedPart(b[k])])
  BY DEF ToLine, WithoutNulls, Pruned, Obj
<1> HIDE DEF b
<1>5. Integer(VERSION).t = "num" /\ PrunedPart(Integer(VERSION)) = Integer(VERSION)
  BY DEF Integer, PrunedPart, Pruned
<1>6. FixWritten(m.fix).t = "obj" /\ PrunedPart(FixWritten(m.fix)) = Obj(FixKept(m.fix))
  BY FixIsKept DEF FixWritten, Obj
<1>7. List(m.sources, SourceTypes).t = "arr"
      /\ PrunedPart(List(m.sources, SourceTypes)) = Arr(AllKept(m.sources, SourceTypes))
  BY ListKept DEF List, Arr
<1> DEFINE g == [k \in {k \in DOMAIN b : b[k].t # "null"} |-> PrunedPart(b[k])]
<1>8. DOMAIN g = {"type", "v", "fix", "sources"}
  BY <1>2, <1>3, <1>5, <1>6, <1>7, TextStays
<1>9. g["type"] = Str("state") /\ g["v"] = Integer(VERSION) /\ g["fix"] = Obj(FixKept(m.fix))
      /\ g["sources"] = Arr(AllKept(m.sources, SourceTypes))
  BY <1>3, <1>5, <1>6, <1>7, <1>8, TextStays
<1>10. g = [type |-> Str("state"), v |-> Integer(VERSION), fix |-> Obj(FixKept(m.fix)),
            sources |-> Arr(AllKept(m.sources, SourceTypes))]
  BY <1>8, <1>9
<1> QED
  BY <1>4, <1>10

(* The targets: *)
LEMMA TargetsLine ==
    ASSUME NEW m, m = [type |-> "targets", targets |-> m.targets]
    PROVE  ToLine(m) = Obj([type |-> Str("targets"), v |-> Integer(VERSION),
                            targets |-> Arr(AllKept(m.targets, TargetTypes))])
<1> DEFINE b == Body(m)
<1>1. DOMAIN m = {"type", "targets"} /\ m.type = "targets"
  OBVIOUS
<1>2. DOMAIN b = {"type", "v", "targets"}
  BY <1>1 DEF Body
<1>3. b["type"] = Str("targets") /\ b["v"] = Integer(VERSION) /\ b["targets"] = List(m.targets, TargetTypes)
  BY <1>1 DEF Body
<1>4. ToLine(m) = Obj([k \in {k \in DOMAIN b : b[k].t # "null"} |-> PrunedPart(b[k])])
  BY DEF ToLine, WithoutNulls, Pruned, Obj
<1> HIDE DEF b
<1>5. Integer(VERSION).t = "num" /\ PrunedPart(Integer(VERSION)) = Integer(VERSION)
  BY DEF Integer, PrunedPart, Pruned
<1>6. List(m.targets, TargetTypes).t = "arr"
      /\ PrunedPart(List(m.targets, TargetTypes)) = Arr(AllKept(m.targets, TargetTypes))
  BY ListKept DEF List, Arr
<1> DEFINE g == [k \in {k \in DOMAIN b : b[k].t # "null"} |-> PrunedPart(b[k])]
<1>7. DOMAIN g = {"type", "v", "targets"}
  BY <1>2, <1>3, <1>5, <1>6, TextStays
<1>8. g["type"] = Str("targets") /\ g["v"] = Integer(VERSION)
      /\ g["targets"] = Arr(AllKept(m.targets, TargetTypes))
  BY <1>3, <1>5, <1>6, <1>7, TextStays
<1>9. g = [type |-> Str("targets"), v |-> Integer(VERSION), targets |-> Arr(AllKept(m.targets, TargetTypes))]
  BY <1>7, <1>8
<1> QED
  BY <1>4, <1>9

-----------------------------------------------------------------------------
(* A key that is in both of two objects with one value, or in neither. *)
Alike(keys, before, k) ==
    /\ k \in DOMAIN keys <=> k \in DOMAIN before
    /\ k \in DOMAIN keys => keys[k] = before[k]

(* The keys that are looked at of a message, and of a fix. *)
MessageKeys == {"v", "type", "keel", "fix", "sources", "targets"}
FixKeys == {"status"} \cup DOMAIN PlaceTypes

(* What is read of a line of this version is what is read of its kind of message. *)
LEMMA ReadByType ==
    ASSUME NEW keys, NEW type, {"v", "type"} \subseteq DOMAIN keys, keys["v"] = Integer(VERSION),
           keys["type"] = Str(type)
    PROVE  /\ type = "hello" => FromLine(Obj(keys)) = Hello(keys)
           /\ type = "state" => FromLine(Obj(keys)) = State(keys)
           /\ type = "targets" => FromLine(Obj(keys)) = Targets(keys)
<1>1. Get(keys, "v", AsU64) = Present(VERSION)
  <2>1. Get(keys, "v", AsU64) = AsU64(Integer(VERSION))
    BY DEF Get
  <2>2. VERSION = 1 /\ 2 \in 0..(2 * MaxCount)
    BY WireAssumption DEF VERSION
  <2>3. Integer(VERSION).t = "num" /\ Integer(VERSION).integer /\ Integer(VERSION).halves = 2
    BY <2>2 DEF Integer
  <2> QED
    BY <2>1, <2>2, <2>3 DEF AsU64
<1>2. Get(keys, "type", AsStr) = Present(type)
  BY DEF Get, AsStr, Str
<1>3. Obj(keys).t = "obj" /\ Obj(keys).keys = keys
  BY DEF Obj
<1>4. \A a, b : Present(a) = Present(b) => a = b
  BY DEF Present
<1>5. FromLine(Obj(keys)) = IF Present(type) = Present("hello") THEN Hello(keys)
                            ELSE IF Present(type) = Present("state") THEN State(keys)
                            ELSE IF Present(type) = Present("targets") THEN Targets(keys)
                            ELSE Ignored
  BY <1>1, <1>2, <1>3 DEF FromLine
<1> QED
  BY <1>4, <1>5

(* A line is read by the keys of a message, *)
LEMMA LinesReadAlike ==
    ASSUME NEW keys, NEW before, \A k \in MessageKeys : Alike(keys, before, k)
    PROVE  FromLine(Obj(keys)) = FromLine(Obj(before))
<1>1. Get(keys, "v", AsU64) = Get(before, "v", AsU64) /\ Get(keys, "type", AsStr) = Get(before, "type", AsStr)
  BY DEF Get, Alike, MessageKeys
<1>2. Hello(keys) = Hello(before)
  BY DEF Hello, Get, Alike, MessageKeys
<1>3. SourcesRead(keys) = SourcesRead(before)
  BY DEF SourcesRead, Alike, MessageKeys
<1>4. State(keys) = State(before)
  BY <1>3 DEF State, Alike, MessageKeys
<1>5. Targets(keys) = Targets(before)
  BY DEF Targets, Alike, MessageKeys
<1>6. \A o : Obj(o).t = "obj" /\ Obj(o).keys = o
  BY DEF Obj
<1> QED
  BY <1>1, <1>2, <1>4, <1>5, <1>6 DEF FromLine

(* and a fix, *)
LEMMA PlacesReadAlike ==
    ASSUME NEW keys, NEW before, \A k \in FixKeys : Alike(keys, before, k)
    PROVE  Place(keys) = Place(before)
<1>1. /\ Get(keys, "lat", AsFinite) = Get(before, "lat", AsFinite)
      /\ Get(keys, "lon", AsFinite) = Get(before, "lon", AsFinite)
      /\ Get(keys, "sogKn", AsFinite) = Get(before, "sogKn", AsFinite)
      /\ Get(keys, "cogDeg", AsFinite) = Get(before, "cogDeg", AsFinite)
      /\ Get(keys, "utc", AsStr) = Get(before, "utc", AsStr)
      /\ Get(keys, "satellites", SatelliteCount) = Get(before, "satellites", SatelliteCount)
      /\ Get(keys, "hdop", AsFinite) = Get(before, "hdop", AsFinite)
      /\ Get(keys, "ageSeconds", WholeU64) = Get(before, "ageSeconds", WholeU64)
  BY DEF Get, Alike, FixKeys, PlaceTypes
<1> QED
  BY <1>1 DEF Place

(* Its status with it. *)
LEMMA FixesReadAlike ==
    ASSUME NEW keys, NEW before, \A k \in FixKeys : Alike(keys, before, k)
    PROVE  FixRead(Obj(keys)) = FixRead(Obj(before))
<1>1. Place(keys) = Place(before)
  BY PlacesReadAlike
<1>2. Get(keys, "status", AsStr) = Get(before, "status", AsStr)
  BY DEF Get, Alike, FixKeys
<1>3. \A o : Obj(o).t = "obj" /\ Obj(o).keys = o
  BY DEF Obj
<1> QED
  BY <1>1, <1>2, <1>3 DEF FixRead

(* a source, *)
LEMMA SourceReadAlike ==
    ASSUME NEW keys, NEW before, \A k \in DOMAIN SourceTypes : Alike(keys, before, k)
    PROVE  SourceRead(Obj(keys)) = SourceRead(Obj(before))
<1>1. /\ Get(keys, "name", AsStr) = Get(before, "name", AsStr)
      /\ Get(keys, "status", AsStr) = Get(before, "status", AsStr)
      /\ Get(keys, "message", AsStr) = Get(before, "message", AsStr)
      /\ Get(keys, "sentences", WholeU64) = Get(before, "sentences", WholeU64)
      /\ Get(keys, "rejected", WholeU64) = Get(before, "rejected", WholeU64)
  BY DEF Get, Alike, SourceTypes
<1>2. \A o : Obj(o).t = "obj" /\ Obj(o).keys = o
  BY DEF Obj
<1> QED
  BY <1>1, <1>2 DEF SourceRead

(* and a target by theirs. *)
LEMMA TargetReadAlike ==
    ASSUME NEW keys, NEW before, \A k \in DOMAIN TargetTypes : Alike(keys, before, k)
    PROVE  /\ TargetFits(Obj(keys)) <=> TargetFits(Obj(before))
           /\ TargetRead(Obj(keys)) = TargetRead(Obj(before))
<1>1. \A o : Obj(o).t = "obj" /\ Obj(o).keys = o
  BY DEF Obj
<1>2. DOMAIN keys \cap DOMAIN TargetTypes = DOMAIN before \cap DOMAIN TargetTypes
  BY DEF Alike
<1>3. \A k \in DOMAIN keys \cap DOMAIN TargetTypes : keys[k] = before[k]
  BY DEF Alike
<1>4. TargetRead(Obj(keys)) = TargetRead(Obj(before))
  BY <1>1, <1>2, <1>3 DEF TargetRead
<1>5. Required \subseteq DOMAIN TargetTypes /\ "lat" \in DOMAIN TargetTypes /\ "lon" \in DOMAIN TargetTypes
  BY DEF Required, TargetTypes
<1>6. Required \subseteq DOMAIN keys <=> Required \subseteq DOMAIN before
  BY <1>2, <1>5
<1>7. /\ ("lat" \in DOMAIN keys /\ keys["lat"] # Null) <=> ("lat" \in DOMAIN before /\ before["lat"] # Null)
      /\ ("lon" \in DOMAIN keys /\ keys["lon"] # Null) <=> ("lon" \in DOMAIN before /\ before["lon"] # Null)
  BY <1>5 DEF Alike
<1>8. TargetFits(Obj(keys)) <=> TargetFits(Obj(before))
  BY <1>1, <1>2, <1>3, <1>6, <1>7 DEF TargetFits
<1> QED
  BY <1>4, <1>8

(* What an object has of each key but the one altered, and what it has of that. *)
LEMMA AlteredIs ==
    ASSUME NEW keys, NEW k, NEW v
    PROVE  LET altered == Altered(Obj(keys), k, v)
           IN /\ altered = Obj(altered.keys)
              /\ \A j : j # k => Alike(altered.keys, keys, j)
              /\ k \in DOMAIN altered.keys => v # Absent /\ altered.keys[k] = v[1]
<1> DEFINE left == [j \in DOMAIN keys \ {k} |-> keys[j]]
           given == [j \in DOMAIN keys \cup {k} |-> IF j = k THEN v[1] ELSE keys[j]]
<1>1. \A o : Obj(o).keys = o
  BY DEF Obj
<1>2. CASE v = Absent
  <2>1. Altered(Obj(keys), k, v) = Obj(left)
    BY <1>1, <1>2 DEF Altered, Restrict
  <2> QED
    BY <1>1, <2>1 DEF Alike
<1>3. CASE v # Absent
  <2>1. Altered(Obj(keys), k, v) = Obj(given)
    BY <1>1, <1>3 DEF Altered
  <2>2. \A j : j # k => Alike(given, keys, j)
    BY DEF Alike
  <2>3. given[k] = v[1]
    OBVIOUS
  <2> HIDE DEF given
  <2> QED
    BY <1>1, <1>3, <2>1, <2>2, <2>3
<1> QED
  BY <1>2, <1>3

(* The parts of a line that a key is altered in. *)
OthersAlike(a, b, key) == \A k : k # key => Alike(a, b, k)

LineAltered(line, keys, where, i, k, v) ==
    /\ line = Obj(line.keys)
    /\ Alike(line.keys, keys, "v") /\ Alike(line.keys, keys, "type")
    /\ where = "message" => line = Altered(Obj(keys), k, v)
    /\ where # "message" => OthersAlike(line.keys, keys, where)
    /\ where = "fix" => line.keys["fix"] = Altered(keys["fix"], k, v)
    /\ where \in {"sources", "targets"} => line.keys[where] = AlteredAt(keys[where], i, k, v)
    /\ where # "message" => where \in DOMAIN keys /\ where \in DOMAIN line.keys

LEMMA AlteredLineIs ==
    ASSUME NEW keys, NEW where \in {"message", "fix", "sources", "targets"},
           NEW i \in Objects(Obj(keys), where), NEW k \in KeysAt(where), NEW v
    PROVE  LineAltered(AlteredLine(Obj(keys), where, i, k, v), keys, where, i, k, v)
<1> DEFINE line == AlteredLine(Obj(keys), where, i, k, v)
<1>1. \A o : Obj(o).keys = o
  BY DEF Obj
<1>0. where # "message" => where \in DOMAIN keys
  BY <1>1 DEF Objects
<1>2. CASE where = "message"
  <2>1. line = Altered(Obj(keys), k, v)
    BY <1>2 DEF AlteredLine
  <2>2. k # "v" /\ k # "type"
    BY <1>2 DEF KeysAt
  <2>3. line = Obj(line.keys) /\ \A j : j # k => Alike(line.keys, keys, j)
    BY <2>1, AlteredIs
  <2> HIDE DEF line
  <2>4. LineAltered(line, keys, where, i, k, v)
    BY <1>2, <2>1, <2>2, <2>3 DEF LineAltered
  <2> QED
    BY <2>4 DEF line
<1>3. ASSUME where # "message", NEW new, line = [Obj(keys) EXCEPT !.keys[where] = new]
      PROVE  /\ line = Obj(line.keys) /\ line.keys[where] = new /\ where \in DOMAIN line.keys
             /\ OthersAlike(line.keys, keys, where)
  <2> DEFINE other == [keys EXCEPT ![where] = new]
  <2>1. line = Obj(other)
    BY <1>0, <1>3 DEF Obj
  <2>2. other[where] = new /\ DOMAIN other = DOMAIN keys /\ \A j \in DOMAIN keys : j # where => other[j] = keys[j]
    BY <1>0, <1>3
  <2> HIDE DEF other
  <2> QED
    BY <1>0, <1>1, <1>3, <2>1, <2>2 DEF Alike, OthersAlike
<1>4. CASE where = "fix"
  <2>1. line = [Obj(keys) EXCEPT !.keys["fix"] = Altered(keys["fix"], k, v)]
    BY <1>1, <1>4 DEF AlteredLine
  <2> HIDE DEF line
  <2>2. /\ line = Obj(line.keys) /\ line.keys[where] = Altered(keys["fix"], k, v) /\ where \in DOMAIN line.keys
        /\ OthersAlike(line.keys, keys, where)
    BY <1>3, <1>4, <2>1
  <2>3. Alike(line.keys, keys, "v") /\ Alike(line.keys, keys, "type")
    BY <1>4, <2>2 DEF OthersAlike
  <2>4. LineAltered(line, keys, where, i, k, v)
    BY <1>0, <1>4, <2>2, <2>3 DEF LineAltered
  <2> QED
    BY <2>4 DEF line
<1>5. CASE where \in {"sources", "targets"}
  <2>1. line = [Obj(keys) EXCEPT !.keys[where] = AlteredAt(keys[where], i, k, v)]
    BY <1>1, <1>5 DEF AlteredLine
  <2> HIDE DEF line
  <2>2. /\ line = Obj(line.keys) /\ line.keys[where] = AlteredAt(keys[where], i, k, v) /\ where \in DOMAIN line.keys
        /\ OthersAlike(line.keys, keys, where)
    BY <1>3, <1>5, <2>1
  <2>3. Alike(line.keys, keys, "v") /\ Alike(line.keys, keys, "type")
    BY <1>5, <2>2 DEF OthersAlike
  <2>4. LineAltered(line, keys, where, i, k, v)
    BY <1>0, <1>5, <2>2, <2>3 DEF LineAltered
  <2> QED
    BY <2>4 DEF line
<1> QED
  BY <1>2, <1>4, <1>5

(* A hub's line: of this version and its kind, with what is in it an object, or a list of
   them. *)
LEMMA HubsLine ==
    ASSUME NEW m \in HubMessages
    PROVE  LET line == ToLine(m)
               keys == line.keys
           IN /\ line = Obj(keys) /\ m.type \in {"hello", "state", "targets"}
              /\ {"v", "type"} \subseteq DOMAIN keys /\ keys["v"] = Integer(VERSION)
              /\ keys["type"] = Str(m.type)
              /\ "fix" \in DOMAIN keys =>
                    /\ m.type = "state" /\ keys["fix"] = Obj(FixKept(m.fix))
                    /\ FixKept(m.fix)["status"] = Str(m.fix.status)
              /\ m.type = "state" => "fix" \in DOMAIN keys
              /\ "sources" \in DOMAIN keys => keys["sources"] = Arr(AllKept(m.sources, SourceTypes))
              /\ "targets" \in DOMAIN keys => keys["targets"] = Arr(AllKept(m.targets, TargetTypes))
              /\ m.type # "targets" => "targets" \notin DOMAIN keys
              /\ m.type # "state" => "sources" \notin DOMAIN keys
<1>1. \A o : Obj(o).keys = o
  BY DEF Obj
<1>2. /\ m.type \in {"hello", "state", "targets"}
      /\ m.type = "hello" => m = [type |-> "hello", keel |-> m.keel]
      /\ m.type = "state" => m = [type |-> "state", fix |-> m.fix, sources |-> m.sources] /\ WritableFix(m.fix)
      /\ m.type = "targets" => m = [type |-> "targets", targets |-> m.targets]
  BY MessagesAssumption
<1>3. CASE m.type = "hello"
  <2>1. ToLine(m) = Obj([type |-> Str("hello"), v |-> Integer(VERSION), keel |-> Str(m.keel)])
    BY <1>2, <1>3, HelloLine
  <2> QED
    BY <1>1, <1>3, <2>1
<1>4. CASE m.type = "state"
  <2>1. m.fix.place # Absent => "status" \notin DOMAIN m.fix.place[1]
    BY <1>2, <1>4 DEF WritableFix, AllWritable, PlaceTypes
  <2>2. ToLine(m) = Obj([type |-> Str("state"), v |-> Integer(VERSION), fix |-> Obj(FixKept(m.fix)),
                         sources |-> Arr(AllKept(m.sources, SourceTypes))])
    BY <1>2, <1>4, <2>1, StateLine
  <2>3. FixKept(m.fix)["status"] = Str(m.fix.status)
    BY DEF FixKept
  <2> QED
    BY <1>1, <1>4, <2>2, <2>3
<1>5. CASE m.type = "targets"
  <2>1. ToLine(m) = Obj([type |-> Str("targets"), v |-> Integer(VERSION),
                         targets |-> Arr(AllKept(m.targets, TargetTypes))])
    BY <1>2, <1>5, TargetsLine
  <2> QED
    BY <1>1, <1>5, <2>1
<1> QED
  BY <1>2, <1>3, <1>4, <1>5

(* Each key that is something of a place, and what it is. *)
PlaceOptions(keys) ==
    [lat |-> Get(keys, "lat", AsFinite), lon |-> Get(keys, "lon", AsFinite),
     sogKn |-> Get(keys, "sogKn", AsFinite), cogDeg |-> Get(keys, "cogDeg", AsFinite),
     utc |-> Get(keys, "utc", AsStr), satellites |-> Get(keys, "satellites", SatelliteCount),
     hdop |-> Get(keys, "hdop", AsFinite), ageSeconds |-> OrZero(Get(keys, "ageSeconds", WholeU64))]

(* A place that is read is of two numbers of the line, within the world. *)
LEMMA PlaceIs ==
    ASSUME NEW keys, Place(keys) # Absent
    PROVE  /\ Place(keys) = Present(Said(PlaceOptions(keys)))
           /\ {"lat", "lon"} \subseteq DOMAIN keys
           /\ keys["lat"].t = "num" /\ keys["lat"].halves \in -180..180
           /\ keys["lon"].t = "num" /\ keys["lon"].halves \in -360..360
<1> DEFINE lat == Get(keys, "lat", AsFinite)
           lon == Get(keys, "lon", AsFinite)
<1>1. Place(keys) = IF lat = Absent \/ lon = Absent THEN Absent
                    ELSE IF lat[1] \notin -180..180 \/ lon[1] \notin -360..360 THEN Absent
                    ELSE Present(Said(PlaceOptions(keys)))
  BY Zenon DEF Place, PlaceOptions
<1>2. lat # Absent => "lat" \in DOMAIN keys /\ keys["lat"].t = "num" /\ lat[1] = keys["lat"].halves
  BY DEF Get, AsFinite, Present, Absent
<1>3. lon # Absent => "lon" \in DOMAIN keys /\ keys["lon"].t = "num" /\ lon[1] = keys["lon"].halves
  BY DEF Get, AsFinite, Present, Absent
<1> HIDE DEF lat, lon
<1> QED
  BY <1>1, <1>2, <1>3

(* What is said is what was read. *)
LEMMA SaidIs ==
    ASSUME NEW options, NEW k \in DOMAIN options
    PROVE  /\ k \in DOMAIN Said(options) <=> options[k] # Absent
           /\ options[k] # Absent => Said(options)[k] = options[k][1]
  BY DEF Said

(* A position is of a place as the line has it, and current if the line says so. *)
LEMMA PositionIs ==
    ASSUME NEW v, FixPosition(FixRead(v)) # Absent
    PROVE  LET position == FixPosition(FixRead(v))[1]
           IN /\ v.t = "obj" /\ Place(v.keys) # Absent /\ position.place = Place(v.keys)[1]
              /\ position.place.lat = v.keys["lat"].halves /\ position.place.lat \in -180..180
              /\ position.place.lon = v.keys["lon"].halves /\ position.place.lon \in -360..360
              /\ position.current => /\ "status" \in DOMAIN v.keys /\ v.keys["status"].t = "str"
                                     /\ v.keys["status"].is = "ok"
<1> DEFINE fix == FixRead(v)
           place == Place(v.keys)
           status == Get(v.keys, "status", AsStr)
           position == FixPosition(fix)[1]
<1>1. fix = IF v.t # "obj" THEN NoFix
            ELSE IF status = Absent THEN NoFix
            ELSE IF status[1] \in FixStatuses THEN Fix(status[1], place)
            ELSE IF place = Absent THEN NoFix
            ELSE Fix("stale", place)
  BY Zenon DEF FixRead
<1>2. fix.place # Absent /\ position.place = fix.place[1] /\ (position.current <=> fix.status = "ok")
  <2>1. FixPosition(fix) = IF fix.place = Absent THEN Absent
                           ELSE Present([place |-> fix.place[1], current |-> fix.status = "ok"])
    BY DEF FixPosition
  <2>2. fix.place # Absent
    BY <2>1
  <2>3. position = [place |-> fix.place[1], current |-> fix.status = "ok"]
    BY <2>1, <2>2 DEF Present
  <2> HIDE DEF position, fix
  <2>4. position.place = fix.place[1]
    BY <2>3
  <2>5. position.current <=> fix.status = "ok"
    BY <2>3
  <2> QED
    BY <2>2, <2>4, <2>5
<1>3. NoFix.place = Absent
  BY DEF NoFix, Fix
<1>4. \A s, p : /\ Fix(s, p).place # Absent => Fix(s, p).place = p
                /\ Fix(s, p).status = s
  BY DEF Fix
<1>5. status # Absent => /\ "status" \in DOMAIN v.keys /\ v.keys["status"].t = "str"
                         /\ status[1] = v.keys["status"].is
  BY DEF Get, AsStr, Present, Absent
<1>6. v.t = "obj" /\ fix.place = place /\ status # Absent /\ (fix.status = "ok" => status[1] = "ok")
  <2> HIDE DEF fix, place, status
  <2> QED
    BY <1>1, <1>2, <1>3, <1>4
<1>7. place # Absent
  BY <1>2, <1>6
<1>8. /\ place = Present(Said(PlaceOptions(v.keys)))
      /\ {"lat", "lon"} \subseteq DOMAIN v.keys
      /\ v.keys["lat"].t = "num" /\ v.keys["lat"].halves \in -180..180
      /\ v.keys["lon"].t = "num" /\ v.keys["lon"].halves \in -360..360
  BY <1>7, PlaceIs
<1>9. place[1] = Said(PlaceOptions(v.keys))
  BY <1>8 DEF Present
<1>10. /\ PlaceOptions(v.keys).lat = Present(v.keys["lat"].halves)
       /\ PlaceOptions(v.keys).lon = Present(v.keys["lon"].halves)
  BY <1>8 DEF PlaceOptions, Get, AsFinite
<1>11. {"lat", "lon"} \subseteq DOMAIN PlaceOptions(v.keys)
  BY DEF PlaceOptions
<1>12. \A x : Present(x) # Absent /\ Present(x)[1] = x
  BY DEF Present, Absent
<1>13. place[1].lat = v.keys["lat"].halves /\ place[1].lon = v.keys["lon"].halves
  <2> DEFINE options == PlaceOptions(v.keys)
  <2>1. Said(options)["lat"] = options["lat"][1] /\ Said(options)["lon"] = options["lon"][1]
    BY <1>10, <1>11, <1>12, SaidIs
  <2> QED
    BY <1>9, <1>10, <1>12, <2>1
<1> HIDE DEF fix, place, status, position
<1>14. position.place = place[1]
  BY <1>2, <1>6
<1>15. position.current => status[1] = "ok"
  BY <1>2, <1>6
<1> QED
  BY <1>5, <1>6, <1>7, <1>8, <1>13, <1>14, <1>15 DEF position, fix, place

(* What is alike in two objects is alike in what is said of them, *)
LEMMA SaidAlike ==
    ASSUME NEW a, NEW b, NEW k, k \in DOMAIN a, k \in DOMAIN b, a[k] = b[k]
    PROVE  Alike(Said(a), Said(b), k)
<1>1. /\ k \in DOMAIN Said(a) <=> a[k] # Absent
      /\ a[k] # Absent => Said(a)[k] = a[k][1]
      /\ k \in DOMAIN Said(b) <=> b[k] # Absent
      /\ b[k] # Absent => Said(b)[k] = b[k][1]
  BY SaidIs
<1> QED
  BY <1>1 DEF Alike

(* and so in the places read of them. *)
LEMMA PlacesAlike ==
    ASSUME NEW keys, NEW before, Place(keys) # Absent, Place(before) # Absent,
           NEW k \in DOMAIN PlaceTypes, Alike(keys, before, k)
    PROVE  Alike(Place(keys)[1], Place(before)[1], k)
<1>1. Place(keys)[1] = Said(PlaceOptions(keys)) /\ Place(before)[1] = Said(PlaceOptions(before))
  BY PlaceIs DEF Present
<1>2. PlaceOptions(keys)[k] = PlaceOptions(before)[k]
  BY DEF PlaceOptions, Get, Alike, PlaceTypes
<1>3. k \in DOMAIN PlaceOptions(keys) /\ k \in DOMAIN PlaceOptions(before)
  BY DEF PlaceOptions, PlaceTypes
<1> QED
  BY <1>1, <1>2, <1>3, SaidAlike

(* What is said of two things is the same, but of one key, if all the others are alike. *)
LEMMA ButIs ==
    ASSUME NEW a, NEW b, NEW key, \A k \in (DOMAIN a \cup DOMAIN b) \ {key} : Alike(a, b, k)
    PROVE  But(a, key) = But(b, key)
<1>1. DOMAIN a \ {key} = DOMAIN b \ {key}
  BY DEF Alike
<1>2. \A k \in DOMAIN a \ {key} : a[k] = b[k]
  BY DEF Alike
<1> QED
  BY <1>1, <1>2 DEF But, Restrict

(* A key no app knows changes nothing, wherever it is. *)
LEMMA LaterKey ==
    ASSUME NEW m \in HubMessages, NEW where \in {"message", "fix", "sources", "targets"},
           NEW i \in Objects(ToLine(m), where), NEW v
    PROVE  FromLine(AlteredLine(ToLine(m), where, i, "later", v)) = FromLine(ToLine(m))
<1> DEFINE keys == ToLine(m).keys
           line == AlteredLine(ToLine(m), where, i, "later", v)
<1>1. ToLine(m) = Obj(keys)
  BY HubsLine
<1>2. /\ "fix" \in DOMAIN keys => keys["fix"] = Obj(FixKept(m.fix))
      /\ "sources" \in DOMAIN keys => keys["sources"] = Arr(AllKept(m.sources, SourceTypes))
      /\ "targets" \in DOMAIN keys => keys["targets"] = Arr(AllKept(m.targets, TargetTypes))
      /\ {"v", "type"} \subseteq DOMAIN keys /\ keys["v"] = Integer(VERSION) /\ keys["type"] = Str(m.type)
      /\ m.type \in {"hello", "state", "targets"}
      /\ "fix" \in DOMAIN keys => m.type = "state"
      /\ m.type = "state" => "fix" \in DOMAIN keys
      /\ m.type # "targets" => "targets" \notin DOMAIN keys
      /\ m.type # "state" => "sources" \notin DOMAIN keys
  BY HubsLine
<1> HIDE DEF keys
<1>3. "later" \in KeysAt(where)
  BY DEF KeysAt
<1>4. /\ line = Obj(line.keys)
      /\ Alike(line.keys, keys, "v") /\ Alike(line.keys, keys, "type")
      /\ where = "message" => line = Altered(Obj(keys), "later", v)
      /\ where # "message" => OthersAlike(line.keys, keys, where)
      /\ where = "fix" => line.keys["fix"] = Altered(keys["fix"], "later", v)
      /\ where \in {"sources", "targets"} => line.keys[where] = AlteredAt(keys[where], i, "later", v)
      /\ where # "message" => where \in DOMAIN keys /\ where \in DOMAIN line.keys
  <2>1. i \in Objects(Obj(keys), where)
    BY <1>1
  <2>2. LineAltered(AlteredLine(Obj(keys), where, i, "later", v), keys, where, i, "later", v)
    BY <1>3, <2>1, AlteredLineIs
  <2>3. line = AlteredLine(Obj(keys), where, i, "later", v)
    BY <1>1
  <2>4. LineAltered(line, keys, where, i, "later", v)
    BY <2>2, <2>3
  <2> HIDE DEF line
  <2> QED
    BY <2>4 DEF LineAltered
<1> DEFINE after == line.keys
<1>5. /\ {"v", "type"} \subseteq DOMAIN after /\ after["v"] = Integer(VERSION) /\ after["type"] = Str(m.type)
  BY <1>2, <1>4 DEF Alike
<1>6. /\ m.type = "state" => FromLine(ToLine(m)) = State(keys) /\ FromLine(line) = State(after)
      /\ m.type = "targets" => FromLine(ToLine(m)) = Targets(keys) /\ FromLine(line) = Targets(after)
  <2> HIDE DEF line
  <2>1. line = Obj(after)
    BY <1>4
  <2> HIDE DEF after
  <2> QED
    BY <1>1, <1>2, <1>5, <2>1, ReadByType
<1> SUFFICES FromLine(line) = FromLine(ToLine(m))
  OBVIOUS
<1> HIDE DEF line
<1>7. CASE where = "message"
  <2>1. \A j : j # "later" => Alike(after, keys, j)
    BY <1>4, <1>7, AlteredIs
  <2>2. \A j \in MessageKeys : Alike(after, keys, j)
    BY <2>1 DEF MessageKeys
  <2> QED
    BY <1>1, <1>4, <2>2, LinesReadAlike
<1>8. CASE where = "fix"
  <2>1. m.type = "state" /\ "fix" \in DOMAIN keys /\ "fix" \in DOMAIN after
    BY <1>2, <1>4, <1>8
  <2> DEFINE altered == Altered(Obj(FixKept(m.fix)), "later", v)
  <2>2. after["fix"] = altered /\ keys["fix"] = Obj(FixKept(m.fix))
    BY <1>2, <1>4, <1>8, <2>1
  <2>3. altered = Obj(altered.keys) /\ \A j : j # "later" => Alike(altered.keys, FixKept(m.fix), j)
    BY AlteredIs
  <2> HIDE DEF altered
  <2>4. \A j \in FixKeys : Alike(altered.keys, FixKept(m.fix), j)
    BY <2>3 DEF FixKeys, PlaceTypes
  <2>5. FixRead(after["fix"]) = FixRead(keys["fix"])
    BY <2>2, <2>3, <2>4, FixesReadAlike
  <2>6. SourcesRead(after) = SourcesRead(keys)
    BY <1>4, <1>8 DEF SourcesRead, Alike, OthersAlike
  <2>7. State(after) = State(keys)
    BY <2>1, <2>5, <2>6 DEF State
  <2> QED
    BY <1>6, <2>1, <2>7
<1>9. CASE where = "sources"
  <2>1. m.type = "state" /\ "sources" \in DOMAIN keys /\ "sources" \in DOMAIN after
    BY <1>2, <1>4, <1>9
  <2> DEFINE list == AllKept(m.sources, SourceTypes)
             changed == [list EXCEPT ![i] = Altered(list[i], "later", v)]
  <2>2. keys["sources"] = Arr(list) /\ after["sources"] = Arr(changed)
    BY <1>2, <1>4, <1>9, <2>1 DEF AlteredAt, Arr
  <2>3. \A n \in DOMAIN list : SourceRead(changed[n]) = SourceRead(list[n])
    <3> SUFFICES ASSUME NEW n \in DOMAIN list, n = i PROVE SourceRead(changed[n]) = SourceRead(list[n])
      OBVIOUS
    <3> DEFINE o == Kept(m.sources[i], SourceTypes)
               altered == Altered(Obj(o), "later", v)
    <3>1. list[i] = Obj(o) /\ changed[i] = altered
      BY DEF AllKept
    <3>2. altered = Obj(altered.keys) /\ \A j : j # "later" => Alike(altered.keys, o, j)
      BY AlteredIs
    <3> HIDE DEF altered, o
    <3>3. \A j \in DOMAIN SourceTypes : Alike(altered.keys, o, j)
      BY <3>2 DEF SourceTypes
    <3>4. SourceRead(altered) = SourceRead(Obj(o))
      BY <3>2, <3>3, SourceReadAlike
    <3> QED
      BY <3>1, <3>4
  <2>4. DOMAIN changed = DOMAIN list
    OBVIOUS
  <2> HIDE DEF list, changed
  <2>5. [n \in DOMAIN changed |-> SourceRead(changed[n])] = [n \in DOMAIN list |-> SourceRead(list[n])]
    BY <2>3, <2>4
  <2>6. SourcesRead(after) = SourcesRead(keys)
    <3>1. keys["sources"].items = list /\ keys["sources"].t = "arr"
          /\ after["sources"].items = changed /\ after["sources"].t = "arr"
      BY <2>2 DEF Arr
    <3> DEFINE a == [n \in DOMAIN changed |-> SourceRead(changed[n])]
               b == [n \in DOMAIN list |-> SourceRead(list[n])]
    <3>2. SourcesRead(after) = FlattenSeq(a) /\ SourcesRead(keys) = FlattenSeq(b)
      BY <2>1, <3>1 DEF SourcesRead
    <3> HIDE DEF a, b
    <3>3. a = b
      BY <2>5 DEF a, b
    <3> QED
      BY <3>2, <3>3
  <2>7. "fix" \in DOMAIN keys /\ Alike(after, keys, "fix")
    BY <1>2, <1>4, <1>9, <2>1 DEF OthersAlike
  <2>8. State(after) = State(keys)
    BY <2>6, <2>7 DEF State, Alike
  <2> QED
    BY <1>6, <2>1, <2>8
<1>10. CASE where = "targets"
  <2>1. m.type = "targets" /\ "targets" \in DOMAIN keys /\ "targets" \in DOMAIN after
    BY <1>2, <1>4, <1>10
  <2> DEFINE list == AllKept(m.targets, TargetTypes)
             changed == [list EXCEPT ![i] = Altered(list[i], "later", v)]
  <2>2. keys["targets"] = Arr(list) /\ after["targets"] = Arr(changed)
    BY <1>2, <1>4, <1>10, <2>1 DEF AlteredAt, Arr
  <2>3. \A n \in DOMAIN list : /\ TargetFits(changed[n]) <=> TargetFits(list[n])
                               /\ TargetRead(changed[n]) = TargetRead(list[n])
    <3> SUFFICES ASSUME NEW n \in DOMAIN list, n = i
                 PROVE  /\ TargetFits(changed[n]) <=> TargetFits(list[n])
                        /\ TargetRead(changed[n]) = TargetRead(list[n])
      OBVIOUS
    <3> DEFINE o == Kept(m.targets[i], TargetTypes)
               altered == Altered(Obj(o), "later", v)
    <3>1. list[i] = Obj(o) /\ changed[i] = altered
      BY DEF AllKept
    <3>2. altered = Obj(altered.keys) /\ \A j : j # "later" => Alike(altered.keys, o, j)
      BY AlteredIs
    <3> HIDE DEF altered, o
    <3>3. \A j \in DOMAIN TargetTypes : Alike(altered.keys, o, j)
      BY <3>2 DEF TargetTypes
    <3>4. (TargetFits(altered) <=> TargetFits(Obj(o))) /\ TargetRead(altered) = TargetRead(Obj(o))
      BY <3>2, <3>3, TargetReadAlike
    <3> QED
      BY <3>1, <3>4
  <2>4. DOMAIN changed = DOMAIN list
    OBVIOUS
  <2> HIDE DEF list, changed
  <2>5. /\ keys["targets"].items = list /\ keys["targets"].t = "arr"
        /\ after["targets"].items = changed /\ after["targets"].t = "arr"
    BY <2>2 DEF Arr
  <2>6. [n \in DOMAIN changed |-> TargetRead(changed[n])] = [n \in DOMAIN list |-> TargetRead(list[n])]
    BY <2>3, <2>4
  <2>7. (\E n \in DOMAIN changed : ~TargetFits(changed[n])) <=> (\E n \in DOMAIN list : ~TargetFits(list[n]))
    BY <2>3, <2>4
  <2>8. Targets(after) = Targets(keys)
    BY <2>1, <2>5, <2>6, <2>7 DEF Targets
  <2> QED
    BY <1>6, <2>1, <2>8
<1> QED
  BY <1>7, <1>8, <1>9, <1>10

-----------------------------------------------------------------------------
(* Of places that have something there is a first. *)
LEMMA HasAFirst ==
    ASSUME NEW P, P \subseteq Nat, P # {}
    PROVE  \E k \in P : \A i \in P : k <= i
<1>1. PICK k \in P : \A i \in P : ~(<<i, k>> \in OpToRel(<, Nat))
  BY NatLessThanWellFounded, WFMin
<1>2. \A i \in P : ~(i < k)
  BY <1>1, Zenon DEF OpToRel
<1> QED
  BY <1>2

(* What FlattenSeq makes of a list of lists, a list at a time. *)
Gathered(part, each, n) ==
    /\ part = [i \in 1..n |-> part[i]]
    /\ \A i \in 1..n : part[i] = IF i = 1 THEN each[i] ELSE part[i - 1] \o each[i]

LEMMA FlattensTo ==
    ASSUME NEW each, NEW n \in Nat \ {0}, Len(each) = n, NEW part, Gathered(part, each, n)
    PROVE  FlattenSeq(each) = part[n]
<1> DEFINE Step(g, i) == IF i = 1 THEN each[i] ELSE g[i - 1] \o each[i]
           f == CHOOSE g : g = [i \in 1..n |-> Step(g, i)]
<1>1. part = [i \in 1..n |-> Step(part, i)]
  BY DEF Gathered
<1>2. f = [i \in 1..n |-> Step(f, i)]
  <2>1. \E g : g = [i \in 1..n |-> Step(g, i)]
    BY <1>1
  <2> QED
    BY <2>1, Zenon
<1>3. FlattenSeq(each) = f[n]
  BY DEF FlattenSeq
<1>4. \A i \in 1..n : f[i] = part[i]
  <2> DEFINE P == {i \in 1..n : f[i] # part[i]}
  <2> SUFFICES ASSUME P # {} PROVE FALSE
    OBVIOUS
  <2>1. P \subseteq Nat
    OBVIOUS
  <2> HIDE DEF P
  <2>2. PICK k \in P : \A i \in P : k <= i
    BY <2>1, HasAFirst
  <2> HIDE DEF f
  <2>3. k \in 1..n /\ f[k] # part[k]
    BY DEF P
  <2>4. f[k] = Step(f, k) /\ part[k] = Step(part, k)
    <3>1. f[k] = Step(f, k)
      BY <1>2, <2>3
    <3>2. part[k] = Step(part, k)
      BY <2>3 DEF Gathered
    <3> QED
      BY <3>1, <3>2
  <2>5. k # 1 => f[k - 1] = part[k - 1]
    <3>1. k # 1 => k - 1 \in 1..n /\ k - 1 < k
      BY <2>3
    <3> QED
      BY <2>2, <3>1 DEF P
  <2> QED
    BY <2>3, <2>4, <2>5
<1> HIDE DEF f
<1> QED
  BY <1>3, <1>4

(* A list's beginnings, each with one more. *)
LEMMA OneMore ==
    ASSUME NEW S, NEW s \in Seq(S), NEW m \in 1..Len(s), NEW n \in m..Len(s)
    PROVE  SubSeq(s, m, n) = SubSeq(s, m, n - 1) \o <<s[n]>>
  BY SubSeqRecursiveSecond

LEMMA FirstAlone ==
    ASSUME NEW S, NEW s \in Seq(S), 1 \in 1..Len(s)
    PROVE  SubSeq(s, 1, 1) = <<s[1]>>
<1>1. SubSeq(s, 1, 1) = SubSeq(s, 1, 0) \o <<s[1]>>
  <2>1. SubSeq(s, 1, 1) = SubSeq(s, 1, 1 - 1) \o <<s[1]>>
    BY OneMore
  <2> QED
    BY <2>1
<1>2. SubSeq(s, 1, 0) = <<>>
  BY SubSeqEmpty
<1>3. <<s[1]>> \in Seq(S)
  <2>1. s[1] \in S
    BY ElementOfSeq
  <2> QED
    BY <2>1
<1>4. <<>> \o <<s[1]>> = <<s[1]>>
  BY <1>3, ConcatEmptySeq
<1> QED
  BY <1>1, <1>2, <1>4

(* A list of each of which something is read, put together again, is what was read; *)
LEMMA Flattened ==
    ASSUME NEW S, NEW s \in Seq(S), NEW n \in Nat, Len(s) = n
    PROVE  FlattenSeq([i \in 1..n |-> <<s[i]>>]) = s
<1> DEFINE each == [i \in 1..n |-> <<s[i]>>]
           part == [i \in 1..n |-> SubSeq(s, 1, i)]
<1>1. CASE n = 0
  <2>1. s = <<>> /\ each = <<>>
    BY <1>1, EmptySeq
  <2>2. FlattenSeq(<<>>) = <<>>
    BY DEF FlattenSeq
  <2> QED
    BY <2>1, <2>2
<1>2. CASE n # 0
  <2>1. Len(each) = n
    OBVIOUS
  <2>2. ASSUME NEW i \in 1..n PROVE part[i] = IF i = 1 THEN each[i] ELSE part[i - 1] \o each[i]
    <3>1. CASE i = 1
      BY <3>1, FirstAlone
    <3>2. CASE i # 1
      <4>1. SubSeq(s, 1, i) = SubSeq(s, 1, i - 1) \o <<s[i]>>
        BY OneMore
      <4> QED
        BY <3>2, <4>1
    <3> QED
      BY <3>1, <3>2
  <2>3. part[n] = s
    BY <1>2, SubSeqFull
  <2>4. part = [i \in 1..n |-> part[i]]
    OBVIOUS
  <2> HIDE DEF part, each
  <2>5. FlattenSeq(each) = part[n]
    <3>1. Gathered(part, each, n)
      BY <2>2, <2>4 DEF Gathered
    <3> QED
      BY <1>2, <2>1, <3>1, FlattensTo
  <2> QED
    BY <2>3, <2>5 DEF each
<1> QED
  BY <1>1, <1>2

(* and if nothing is read of one, the others. *)
LEMMA FlattenedWithout ==
    ASSUME NEW S, NEW s \in Seq(S), NEW n \in Nat, Len(s) = n, NEW i \in 1..n
    PROVE  FlattenSeq([j \in 1..n |-> IF j = i THEN <<>> ELSE <<s[j]>>]) = RemoveAt(s, i)
<1> DEFINE each == [j \in 1..n |-> IF j = i THEN <<>> ELSE <<s[j]>>]
           first == SubSeq(s, 1, i - 1)
           part == [k \in 1..n |-> IF k < i THEN SubSeq(s, 1, k) ELSE first \o SubSeq(s, i + 1, k)]
<1>1. Len(each) = n /\ part = [k \in 1..n |-> part[k]]
  OBVIOUS
<1>2. \A k \in 1..n : s[k] \in S
  BY ElementOfSeq
<1>3. first \in Seq(S) /\ first \o <<>> = first
  <2>1. first \in Seq(S)
    BY <1>2, SubSeqProperties
  <2> HIDE DEF first
  <2> QED
    BY <2>1, ConcatEmptySeq
<1>4. ASSUME NEW k \in 1..n PROVE part[k] = IF k = 1 THEN each[k] ELSE part[k - 1] \o each[k]
  <2>1. CASE k < i
    <3>1. CASE k = 1
      BY <2>1, <3>1, FirstAlone
    <3>2. CASE k # 1
      <4>1. SubSeq(s, 1, k) = SubSeq(s, 1, k - 1) \o <<s[k]>>
        BY OneMore
      <4>2. k - 1 \in 1..n /\ k - 1 < i
        BY <2>1, <3>2
      <4>3. part[k] = SubSeq(s, 1, k) /\ part[k - 1] = SubSeq(s, 1, k - 1)
        BY <2>1, <4>2
      <4>4. each[k] = <<s[k]>>
        BY <2>1
      <4> HIDE DEF part, each
      <4> QED
        BY <3>2, <4>1, <4>3, <4>4
    <3> QED
      BY <3>1, <3>2
  <2>2. CASE k = i
    <3>1. SubSeq(s, i + 1, k) = <<>>
      BY <2>2, SubSeqEmpty
    <3>2. part[k] = first /\ each[k] = <<>>
      BY <1>3, <2>2, <3>1
    <3>3. k = 1 => first = <<>>
      BY <2>2, SubSeqEmpty
    <3>4. k # 1 => part[k - 1] = first
      BY <2>2
    <3> HIDE DEF part, each, first
    <3> QED
      BY <1>3, <3>2, <3>3, <3>4
  <2>3. CASE k > i
    <3> DEFINE middle == SubSeq(s, i + 1, k - 1)
    <3>1. SubSeq(s, i + 1, k) = middle \o <<s[k]>>
      BY <2>3, OneMore
    <3>2. middle \in Seq(S)
      BY <1>2, <2>3, SubSeqProperties
    <3>3. <<s[k]>> \in Seq(S)
      BY <1>2
    <3>4. part[k - 1] = first \o middle /\ part[k] = first \o (middle \o <<s[k]>>) /\ each[k] = <<s[k]>>
      <4>1. k - 1 \in 1..n /\ ~(k - 1 < i) /\ ~(k < i)
        BY <2>3
      <4>2. part[k] = first \o SubSeq(s, i + 1, k) /\ part[k - 1] = first \o middle
        <5> HIDE DEF first
        <5> QED
          BY <4>1
      <4>3. each[k] = <<s[k]>>
        BY <2>3
      <4> HIDE DEF part, each, first, middle
      <4> QED
        BY <3>1, <4>2, <4>3
    <3>5. k # 1
      BY <2>3
    <3> HIDE DEF part, each, first, middle
    <3>6. (first \o middle) \o <<s[k]>> = first \o (middle \o <<s[k]>>)
      BY <1>3, <3>2, <3>3, ConcatAssociative
    <3> QED
      BY <3>4, <3>5, <3>6
  <2> QED
    BY <2>1, <2>2, <2>3
<1>5. part[n] = RemoveAt(s, i)
  <2>1. n \in 1..n /\ ~(n < i)
    OBVIOUS
  <2>2. part[n] = first \o SubSeq(s, i + 1, n)
    <3> HIDE DEF first
    <3> QED
      BY <2>1
  <2> HIDE DEF part
  <2> QED
    BY <2>2 DEF RemoveAt
<1> HIDE DEF part, each, first
<1>6. FlattenSeq(each) = part[n]
  <2>1. Gathered(part, each, n)
    BY <1>1, <1>4 DEF Gathered
  <2> QED
    BY <1>1, <2>1, FlattensTo
<1> QED
  BY <1>5, <1>6 DEF each

(* What is written of a value is no null unless it is no number, and is read as the value. *)
LEMMA WrittenReads ==
    ASSUME NEW x
    PROVE  /\ Written("str", x).t = "str" /\ AsStr(Written("str", x)) = Present(x)
           /\ Written("bool", x).t = "bool" /\ Written("bool", x).is = x
           /\ x = NotFinite => Written("f64", x) = Null
           /\ x # NotFinite => Written("f64", x).t = "num" /\ Written("f64", x).halves = x
                               /\ AsFinite(Written("f64", x)) = Present(x)
           /\ \A type \in DOMAIN Largest : x \in 0..Largest[type] =>
                 /\ Written(type, x).t = "num" /\ Written(type, x).integer
                 /\ Written(type, x).halves \in 0..(2 * Largest[type])
                 /\ Written(type, x).halves \div 2 = x
           /\ x \in 0..255 => SatelliteCount(Written("u8", x)) = Present(x)
           /\ x \in 0..MaxCount => WholeU64(Written("u64", x)) = Present(x)
<1>1. Written("str", x).t = "str" /\ AsStr(Written("str", x)) = Present(x)
  BY DEF Written, Str, AsStr
<1>2. Written("bool", x).t = "bool" /\ Written("bool", x).is = x
  BY DEF Written, Bool
<1>3. /\ x = NotFinite => Written("f64", x) = Null
      /\ x # NotFinite => Written("f64", x) = Num(x)
  BY DEF Written, Largest
<1>4. Num(x).t = "num" /\ Num(x).halves = x /\ AsFinite(Num(x)) = Present(x)
  BY DEF Num, AsFinite
<1>5. ASSUME NEW type \in DOMAIN Largest
      PROVE  Written(type, x) = Integer(x)
  BY DEF Written, Largest
<1>6. Integer(x).t = "num" /\ Integer(x).integer /\ Integer(x).halves = 2 * x
  BY DEF Integer
<1>7. \A n \in Nat : (2 * n) \div 2 = n /\ (2 * n) % 2 = 0
  OBVIOUS
<1>8. Largest["u8"] = 255 /\ Largest["u16"] = 65535 /\ Largest["u32"] = MaxCount /\ Largest["u64"] = MaxCount
      /\ DOMAIN Largest = {"u8", "u16", "u32", "u64"}
  BY DEF Largest
<1>9. MaxCount \in Nat /\ \A type \in DOMAIN Largest : Largest[type] \in Nat
  BY <1>8, WireAssumption
<1>10. ASSUME NEW type \in DOMAIN Largest, x \in 0..Largest[type]
       PROVE  /\ Written(type, x).t = "num" /\ Written(type, x).integer
              /\ Written(type, x).halves \in 0..(2 * Largest[type])
              /\ Written(type, x).halves \div 2 = x
  <2>1. x \in Nat /\ 2 * x \in 0..(2 * Largest[type])
    BY <1>9, <1>10
  <2> QED
    BY <1>5, <1>6, <1>7, <2>1
<1>11. x \in 0..255 => SatelliteCount(Written("u8", x)) = Present(x)
  <2> SUFFICES ASSUME x \in 0..255 PROVE SatelliteCount(Written("u8", x)) = Present(x)
    OBVIOUS
  <2>1. 2 * x \in 0..(2 * 255) /\ (2 * x) \div 2 = x
    OBVIOUS
  <2>2. Written("u8", x) = Integer(x)
    BY <1>5, <1>8
  <2> QED
    BY <1>6, <2>1, <2>2 DEF SatelliteCount
<1>12. x \in 0..MaxCount => WholeU64(Written("u64", x)) = Present(x)
  <2> SUFFICES ASSUME x \in 0..MaxCount PROVE WholeU64(Written("u64", x)) = Present(x)
    OBVIOUS
  <2>1. 2 * x \in 0..(2 * MaxCount) /\ (2 * x) \div 2 = x /\ (2 * x) % 2 = 0
    BY <1>9
  <2>2. Written("u64", x) = Integer(x)
    BY <1>5, <1>8
  <2> QED
    BY <1>6, <2>1, <2>2 DEF WholeU64
<1> QED
  BY <1>1, <1>2, <1>3, <1>4, <1>10, <1>11, <1>12

(* What is kept of a structure is what is not no number. *)
LEMMA KeptIs ==
    ASSUME NEW s, NEW types, NEW required, AllWritable(s, types, required),
           \A k \in DOMAIN types : types[k] \in {"str", "bool", "f64", "u8", "u16", "u32", "u64"}
    PROVE  /\ DOMAIN Kept(s, types) = {k \in DOMAIN s : s[k] # NotFinite}
           /\ \A k \in DOMAIN Kept(s, types) : Kept(s, types)[k] = Written(types[k], s[k])
           /\ \A k \in DOMAIN s : types[k] # "f64" => s[k] # NotFinite
           /\ Finite(s) = [k \in DOMAIN Kept(s, types) |-> s[k]]
<1>1. DOMAIN s \subseteq DOMAIN types /\ \A k \in DOMAIN s : Writable(types[k], s[k])
  BY DEF AllWritable
<1>2. \A k \in DOMAIN s : Written(types[k], s[k]).t = "null" <=> s[k] = NotFinite
  <2> TAKE k \in DOMAIN s
  <2>1. Writable(types[k], s[k]) /\ types[k] \in {"str", "bool", "f64", "u8", "u16", "u32", "u64"}
    BY <1>1
  <2>2. types[k] # "f64" => s[k] # NotFinite
    BY <2>1 DEF Writable
  <2>3. CASE types[k] = "f64"
    BY <2>3, WrittenReads DEF Null
  <2>4. CASE types[k] # "f64"
    BY <2>1, <2>2, <2>4 DEF Written, Largest, Str, Bool, Integer
  <2> QED
    BY <2>3, <2>4
<1>3. \A k \in DOMAIN s : types[k] # "f64" => s[k] # NotFinite
  BY <1>1 DEF Writable
<1>4. DOMAIN Kept(s, types) = {k \in DOMAIN s : s[k] # NotFinite}
  BY <1>2 DEF Kept
<1>5. \A k \in DOMAIN Kept(s, types) : Kept(s, types)[k] = Written(types[k], s[k])
  BY DEF Kept
<1>6. Finite(s) = [k \in {k \in DOMAIN s : s[k] # NotFinite} |-> s[k]]
  BY DEF Finite, RestrictValues, Restrict
<1> QED
  BY <1>3, <1>4, <1>5, <1>6

(* A source is read as it was. *)
LEMMA SourceAsSent ==
    ASSUME NEW s, AllWritable(s, SourceTypes, {"name", "status", "sentences", "rejected"}),
           s.status \in SourceStatuses
    PROVE  SourceRead(Obj(Kept(s, SourceTypes))) = Present(s)
<1> DEFINE keys == Kept(s, SourceTypes)
<1>1. \A k \in DOMAIN SourceTypes : SourceTypes[k] \in {"str", "u64"}
  BY DEF SourceTypes
<1>2. /\ DOMAIN keys = {k \in DOMAIN s : s[k] # NotFinite}
      /\ \A k \in DOMAIN keys : keys[k] = Written(SourceTypes[k], s[k])
      /\ \A k \in DOMAIN s : SourceTypes[k] # "f64" => s[k] # NotFinite
  BY <1>1, KeptIs
<1>3. /\ s = [k \in DOMAIN s |-> s[k]] /\ {"name", "status", "sentences", "rejected"} \subseteq DOMAIN s
      /\ DOMAIN s \subseteq DOMAIN SourceTypes
      /\ \A k \in DOMAIN s : Writable(SourceTypes[k], s[k])
  BY DEF AllWritable
<1> HIDE DEF keys
<1>4. DOMAIN keys = DOMAIN s
  BY <1>1, <1>2, <1>3
<1> DEFINE options == [name |-> Get(keys, "name", AsStr), status |-> Get(keys, "status", AsStr),
                       message |-> Get(keys, "message", AsStr),
                       sentences |-> OrZero(Get(keys, "sentences", WholeU64)),
                       rejected |-> OrZero(Get(keys, "rejected", WholeU64))]
<1>5. ASSUME NEW k \in DOMAIN s, SourceTypes[k] = "str"
      PROVE  Get(keys, k, AsStr) = Present(s[k])
  BY <1>2, <1>4, <1>5, WrittenReads DEF Get
<1>6. ASSUME NEW k \in DOMAIN s, SourceTypes[k] = "u64"
      PROVE  OrZero(Get(keys, k, WholeU64)) = Present(s[k])
  <2>1. s[k] \in 0..MaxCount
    BY <1>3, <1>6 DEF Writable, Largest
  <2>2. Get(keys, k, WholeU64) = Present(s[k])
    BY <1>2, <1>4, <1>6, <2>1, WrittenReads DEF Get
  <2> QED
    BY <2>2 DEF OrZero, Present, Absent
<1>7. /\ SourceTypes["name"] = "str" /\ SourceTypes["status"] = "str" /\ SourceTypes["message"] = "str"
      /\ SourceTypes["sentences"] = "u64" /\ SourceTypes["rejected"] = "u64"
      /\ DOMAIN SourceTypes = {"name", "status", "message", "sentences", "rejected"}
  BY DEF SourceTypes
<1>8. options["message"] = IF "message" \in DOMAIN s THEN Present(s["message"]) ELSE Absent
  <2>1. "message" \notin DOMAIN s => Get(keys, "message", AsStr) = Absent
    BY <1>4 DEF Get
  <2> QED
    BY <1>5, <1>7, <2>1
<1>9. /\ options["name"] = Present(s["name"]) /\ options["status"] = Present(s["status"])
      /\ options["sentences"] = Present(s["sentences"]) /\ options["rejected"] = Present(s["rejected"])
  BY <1>3, <1>5, <1>6, <1>7
<1>10. DOMAIN options = DOMAIN SourceTypes
  BY <1>7
<1>11. \A x : Present(x) # Absent /\ Present(x)[1] = x
  BY DEF Present, Absent
<1>12. SourceRead(Obj(keys)) = Present(Said(options))
  <2>1. Obj(keys).t = "obj" /\ Obj(keys).keys = keys
    BY DEF Obj
  <2>2. Get(keys, "name", AsStr) = Present(s["name"]) /\ Get(keys, "status", AsStr) = Present(s["status"])
    BY <1>3, <1>5, <1>7
  <2>3. s["status"] \in SourceStatuses
    OBVIOUS
  <2> QED
    BY <1>11, <2>1, <2>2, <2>3 DEF SourceRead
<1> HIDE DEF options
<1>13. \A k \in DOMAIN SourceTypes : /\ options[k] # Absent <=> k \in DOMAIN s
                                     /\ k \in DOMAIN s => options[k] = Present(s[k])
  BY <1>3, <1>7, <1>8, <1>9, <1>11
<1>14. Said(options) = s
  <2>1. {k \in DOMAIN options : options[k] # Absent} = DOMAIN s
    BY <1>3, <1>10, <1>13
  <2>2. Said(options) = [k \in {k \in DOMAIN options : options[k] # Absent} |-> options[k][1]]
    BY DEF Said
  <2>3. \A k \in DOMAIN s : options[k][1] = s[k]
    BY <1>3, <1>11, <1>13
  <2>4. Said(options) = [k \in DOMAIN s |-> s[k]]
    BY <2>1, <2>2, <2>3
  <2> QED
    BY <1>3, <2>4
<1> QED
  BY <1>12, <1>14 DEF keys

(* A fix is read as it was, with a place that lost one of its two numbers lost. *)
LEMMA FixAsSent ==
    ASSUME NEW fix, WritableFix(fix)
    PROVE  FixRead(Obj(FixKept(fix))) = [status |-> fix.status, place |-> PlaceSent(fix)]
<1> DEFINE keys == FixKept(fix)
           p == fix.place[1]
           kept == IF fix.place = Absent THEN [k \in {} |-> Null] ELSE Kept(p, PlaceTypes)
           options == PlaceOptions(keys)
<1>1. keys = [k \in {"status"} \cup DOMAIN kept |-> IF k = "status" THEN Str(fix.status) ELSE kept[k]]
  BY DEF FixKept
<1>2. fix.status \in FixStatuses
  BY DEF WritableFix
<1> HIDE DEF keys, kept
<1>3. Get(keys, "status", AsStr) = Present(fix.status)
  BY <1>1 DEF Get, AsStr, Str
<1>4. FixRead(Obj(keys)) = Fix(fix.status, Place(keys))
  <2>1. Obj(keys).t = "obj" /\ Obj(keys).keys = keys
    BY DEF Obj
  <2>2. Present(fix.status) # Absent /\ Present(fix.status)[1] = fix.status
    BY DEF Present, Absent
  <2> QED
    BY <1>2, <1>3, <2>1, <2>2 DEF FixRead
<1>5. CASE fix.place = Absent
  <2>1. DOMAIN keys = {"status"}
    BY <1>1, <1>5 DEF kept
  <2>2. Get(keys, "lat", AsFinite) = Absent
    BY <2>1 DEF Get
  <2>3. Place(keys) = Absent
    BY <2>2 DEF Place
  <2>4. PlaceSent(fix) = Absent
    BY <1>5 DEF PlaceSent
  <2> QED
    BY <1>4, <2>3, <2>4 DEF Fix, keys
<1>6. CASE fix.place # Absent
  <2>1. /\ fix.status # "none"
        /\ AllWritable(p, PlaceTypes, {"lat", "lon", "ageSeconds"})
        /\ p.lat = NotFinite \/ p.lat \in -180..180
        /\ p.lon = NotFinite \/ p.lon \in -360..360
    BY <1>6 DEF WritableFix
  <2>2. \A k \in DOMAIN PlaceTypes : PlaceTypes[k] \in {"str", "f64", "u8", "u64"}
    BY DEF PlaceTypes
  <2>3. /\ DOMAIN kept = {k \in DOMAIN p : p[k] # NotFinite}
        /\ \A k \in DOMAIN kept : kept[k] = Written(PlaceTypes[k], p[k])
        /\ \A k \in DOMAIN p : PlaceTypes[k] # "f64" => p[k] # NotFinite
        /\ Finite(p) = [k \in DOMAIN kept |-> p[k]]
    <3> DEFINE other == Kept(p, PlaceTypes)
    <3>1. \A k \in DOMAIN PlaceTypes : PlaceTypes[k] \in {"str", "bool", "f64", "u8", "u16", "u32", "u64"}
      BY <2>2
    <3> HIDE DEF p
    <3>2. /\ DOMAIN other = {k \in DOMAIN p : p[k] # NotFinite}
          /\ \A k \in DOMAIN other : other[k] = Written(PlaceTypes[k], p[k])
          /\ \A k \in DOMAIN p : PlaceTypes[k] # "f64" => p[k] # NotFinite
          /\ Finite(p) = [k \in DOMAIN other |-> p[k]]
      BY <2>1, <3>1, KeptIs
    <3>3. kept = other
      BY <1>6 DEF kept
    <3> HIDE DEF other
    <3> QED
      BY <3>2, <3>3
  <2>4. /\ {"lat", "lon", "ageSeconds"} \subseteq DOMAIN p /\ DOMAIN p \subseteq DOMAIN PlaceTypes
        /\ \A k \in DOMAIN p : Writable(PlaceTypes[k], p[k])
    BY <2>1 DEF AllWritable
  <2>5. "status" \notin DOMAIN PlaceTypes
    BY DEF PlaceTypes
  <2>6. \A k \in DOMAIN PlaceTypes : /\ k \in DOMAIN keys <=> k \in DOMAIN p /\ p[k] # NotFinite
                                     /\ k \in DOMAIN keys => keys[k] = Written(PlaceTypes[k], p[k])
    BY <1>1, <2>3, <2>5
  <2>7. PlaceSent(fix) = IF {"lat", "lon"} \subseteq DOMAIN Finite(p) THEN Present(Finite(p)) ELSE Absent
    BY <1>6 DEF PlaceSent
  <2>8. DOMAIN Finite(p) = DOMAIN kept
    BY <2>3
  <2>9. /\ PlaceTypes["lat"] = "f64" /\ PlaceTypes["lon"] = "f64" /\ PlaceTypes["sogKn"] = "f64"
        /\ PlaceTypes["cogDeg"] = "f64" /\ PlaceTypes["utc"] = "str" /\ PlaceTypes["satellites"] = "u8"
        /\ PlaceTypes["hdop"] = "f64" /\ PlaceTypes["ageSeconds"] = "u64"
        /\ DOMAIN PlaceTypes = {"lat", "lon", "sogKn", "cogDeg", "utc", "satellites", "hdop", "ageSeconds"}
    BY DEF PlaceTypes
  <2>10. \A x : Present(x) # Absent /\ Present(x)[1] = x
    BY DEF Present, Absent
  <2>11. ASSUME NEW k \in DOMAIN PlaceTypes, PlaceTypes[k] = "f64"
         PROVE  Get(keys, k, AsFinite) = IF k \in DOMAIN kept THEN Present(p[k]) ELSE Absent
    BY <2>3, <2>6, <2>11, WrittenReads DEF Get
  <2>12. Get(keys, "utc", AsStr) = IF "utc" \in DOMAIN kept THEN Present(p["utc"]) ELSE Absent
    BY <2>3, <2>6, <2>9, WrittenReads DEF Get
  <2>13. Get(keys, "satellites", SatelliteCount)
            = IF "satellites" \in DOMAIN kept THEN Present(p["satellites"]) ELSE Absent
    <3>1. "satellites" \in DOMAIN kept => p["satellites"] \in 0..255
      BY <2>3, <2>4, <2>9 DEF Writable, Largest
    <3> QED
      BY <2>3, <2>6, <2>9, <3>1, WrittenReads DEF Get
  <2>14. OrZero(Get(keys, "ageSeconds", WholeU64)) = Present(p["ageSeconds"]) /\ "ageSeconds" \in DOMAIN kept
    <3>1. "ageSeconds" \in DOMAIN kept /\ p["ageSeconds"] \in 0..MaxCount
      BY <2>3, <2>4, <2>9 DEF Writable, Largest
    <3>2. Get(keys, "ageSeconds", WholeU64) = Present(p["ageSeconds"])
      BY <2>3, <2>6, <2>9, <3>1, WrittenReads DEF Get
    <3> QED
      BY <2>10, <3>1, <3>2 DEF OrZero
  <2>15. DOMAIN options = DOMAIN PlaceTypes
    BY <2>9 DEF PlaceOptions
  <2>16. \A k \in DOMAIN PlaceTypes : options[k] = IF k \in DOMAIN kept THEN Present(p[k]) ELSE Absent
    <3>1. /\ options["lat"] = Get(keys, "lat", AsFinite) /\ options["lon"] = Get(keys, "lon", AsFinite)
          /\ options["sogKn"] = Get(keys, "sogKn", AsFinite)
          /\ options["cogDeg"] = Get(keys, "cogDeg", AsFinite) /\ options["utc"] = Get(keys, "utc", AsStr)
          /\ options["satellites"] = Get(keys, "satellites", SatelliteCount)
          /\ options["hdop"] = Get(keys, "hdop", AsFinite)
          /\ options["ageSeconds"] = OrZero(Get(keys, "ageSeconds", WholeU64))
      BY DEF PlaceOptions
    <3> HIDE DEF options
    <3> QED
      BY <2>9, <2>11, <2>12, <2>13, <2>14, <3>1
  <2>17. Said(options) = Finite(p)
    <3> HIDE DEF options
    <3>1. {k \in DOMAIN options : options[k] # Absent} = DOMAIN kept
      BY <2>3, <2>4, <2>10, <2>15, <2>16
    <3>2. Said(options) = [k \in {k \in DOMAIN options : options[k] # Absent} |-> options[k][1]]
      BY DEF Said
    <3>3. \A k \in DOMAIN kept : options[k][1] = p[k]
      BY <2>3, <2>4, <2>10, <2>16
    <3> QED
      BY <2>3, <3>1, <3>2, <3>3
  <2>18. Place(keys) = PlaceSent(fix)
    <3> DEFINE lat == Get(keys, "lat", AsFinite)
               lon == Get(keys, "lon", AsFinite)
    <3>1. Place(keys) = IF lat = Absent \/ lon = Absent THEN Absent
                        ELSE IF lat[1] \notin -180..180 \/ lon[1] \notin -360..360 THEN Absent
                        ELSE Present(Said(options))
      BY Zenon DEF Place, PlaceOptions
    <3>2. /\ lat = IF "lat" \in DOMAIN kept THEN Present(p["lat"]) ELSE Absent
          /\ lon = IF "lon" \in DOMAIN kept THEN Present(p["lon"]) ELSE Absent
      BY <2>9, <2>11
    <3>3. /\ "lat" \in DOMAIN kept => p["lat"] \in -180..180
          /\ "lon" \in DOMAIN kept => p["lon"] \in -360..360
      BY <2>1, <2>3
    <3> HIDE DEF lat, lon, options, p
    <3>4. /\ "lat" \in DOMAIN kept => lat # Absent /\ lat[1] \in -180..180
          /\ "lon" \in DOMAIN kept => lon # Absent /\ lon[1] \in -360..360
          /\ "lat" \notin DOMAIN kept => lat = Absent
          /\ "lon" \notin DOMAIN kept => lon = Absent
      BY <2>10, <3>2, <3>3
    <3>5. PlaceSent(fix) = IF "lat" \in DOMAIN kept /\ "lon" \in DOMAIN kept THEN Present(Finite(p)) ELSE Absent
      BY <2>7, <2>8
    <3> QED
      BY <2>17, <3>1, <3>4, <3>5
  <2> QED
    BY <1>4, <2>1, <2>18 DEF Fix, keys
<1> QED
  BY <1>5, <1>6

(* A target fits, and is read as it was. *)
LEMMA TargetAsSent ==
    ASSUME NEW t, AllWritable(t, TargetTypes, Required),
           ("lat" \in DOMAIN t /\ t["lat"] # NotFinite) = ("lon" \in DOMAIN t /\ t["lon"] # NotFinite)
    PROVE  TargetFits(Obj(Kept(t, TargetTypes))) /\ TargetRead(Obj(Kept(t, TargetTypes))) = Finite(t)
<1> DEFINE keys == Kept(t, TargetTypes)
<1>1. \A k \in DOMAIN TargetTypes : TargetTypes[k] \in {"str", "bool", "f64", "u8", "u16", "u32", "u64"}
  BY DEF TargetTypes
<1>2. /\ DOMAIN keys = {k \in DOMAIN t : t[k] # NotFinite}
      /\ \A k \in DOMAIN keys : keys[k] = Written(TargetTypes[k], t[k])
      /\ \A k \in DOMAIN t : TargetTypes[k] # "f64" => t[k] # NotFinite
      /\ Finite(t) = [k \in DOMAIN keys |-> t[k]]
  BY <1>1, KeptIs
<1>3. /\ Required \subseteq DOMAIN t /\ DOMAIN t \subseteq DOMAIN TargetTypes
      /\ \A k \in DOMAIN t : Writable(TargetTypes[k], t[k])
  BY DEF AllWritable
<1> HIDE DEF keys
<1>4. Obj(keys).t = "obj" /\ Obj(keys).keys = keys
  BY DEF Obj
<1>5. DOMAIN Largest = {"u8", "u16", "u32", "u64"}
  BY DEF Largest
<1>6. ASSUME NEW k \in DOMAIN keys
      PROVE  /\ Fits(TargetTypes[k], keys[k]) /\ keys[k] # Null
             /\ Value(TargetTypes[k], keys[k]) = t[k]
  <2> DEFINE type == TargetTypes[k]
             x == t[k]
  <2>1. keys[k] = Written(type, x) /\ x # NotFinite /\ Writable(type, x)
        /\ type \in {"str", "bool", "f64", "u8", "u16", "u32", "u64"}
    BY <1>1, <1>2, <1>3
  <2> HIDE DEF type, x
  <2>2. CASE type = "str"
    <3>1. Written(type, x) = Str(x)
      BY <2>2 DEF Written
    <3> QED
      BY <2>1, <2>2, <3>1 DEF Fits, Value, Str, Null, type, x
  <2>3. CASE type = "bool"
    <3>1. Written(type, x) = Bool(x)
      BY <2>3 DEF Written
    <3> QED
      BY <2>1, <2>3, <3>1 DEF Fits, Value, Bool, Null, type, x
  <2>4. CASE type = "f64"
    <3>1. Written(type, x).t = "num" /\ Written(type, x).halves = x
      BY <2>1, <2>4, WrittenReads
    <3> QED
      BY <1>5, <2>1, <2>4, <3>1 DEF Fits, Value, Null, type, x
  <2>5. CASE type \in DOMAIN Largest
    <3>1. x \in 0..Largest[type]
      BY <2>1, <2>5 DEF Writable
    <3>2. /\ Written(type, x).t = "num" /\ Written(type, x).integer
          /\ Written(type, x).halves \in 0..(2 * Largest[type])
          /\ Written(type, x).halves \div 2 = x
      BY <2>5, <3>1, WrittenReads
    <3> QED
      BY <1>5, <2>1, <2>5, <3>2 DEF Fits, Value, Null, type, x
  <2> QED
    BY <1>5, <2>1, <2>2, <2>3, <2>4, <2>5
<1>7. DOMAIN keys \cap DOMAIN TargetTypes = DOMAIN keys
  BY <1>2, <1>3
<1>8. Required \subseteq DOMAIN keys
  <2>1. TargetTypes["mmsi"] # "f64" /\ TargetTypes["danger"] # "f64"
    BY DEF TargetTypes
  <2> QED
    BY <1>2, <1>3, <2>1 DEF Required
<1>9. ("lat" \in DOMAIN keys /\ keys["lat"] # Null) = ("lon" \in DOMAIN keys /\ keys["lon"] # Null)
  <2>1. ("lat" \in DOMAIN keys /\ keys["lat"] # Null) <=> "lat" \in DOMAIN keys
    BY <1>6
  <2>2. ("lon" \in DOMAIN keys /\ keys["lon"] # Null) <=> "lon" \in DOMAIN keys
    BY <1>6
  <2>3. "lat" \in DOMAIN keys <=> "lon" \in DOMAIN keys
    BY <1>2
  <2> QED
    BY <2>1, <2>2, <2>3
<1>10. TargetFits(Obj(keys))
  BY <1>4, <1>6, <1>7, <1>8, <1>9 DEF TargetFits
<1>11. TargetRead(Obj(keys)) = Finite(t)
  <2>1. {k \in DOMAIN keys \cap DOMAIN TargetTypes : keys[k] # Null} = DOMAIN keys
    BY <1>6, <1>7
  <2>2. TargetRead(Obj(keys)) = [k \in {k \in DOMAIN keys \cap DOMAIN TargetTypes : keys[k] # Null} |->
                                    Value(TargetTypes[k], keys[k])]
    BY <1>4 DEF TargetRead
  <2> QED
    BY <1>2, <1>6, <2>1, <2>2
<1> QED
  BY <1>10, <1>11 DEF keys

(* A state is read as it was sent, *)
LEMMA StateAsSent ==
    ASSUME NEW m \in HubMessages, m.type = "state"
    PROVE  FromLine(ToLine(m)) = Message(Sent(m))
<1> DEFINE keys == ToLine(m).keys
           items == AllKept(m.sources, SourceTypes)
           n == Len(m.sources)
<1>1. /\ ToLine(m) = Obj(keys) /\ {"v", "type"} \subseteq DOMAIN keys
      /\ keys["v"] = Integer(VERSION) /\ keys["type"] = Str("state")
      /\ "fix" \in DOMAIN keys /\ keys["fix"] = Obj(FixKept(m.fix))
  BY HubsLine
<1>2. "sources" \in DOMAIN keys /\ keys["sources"] = Arr(items)
  <2>1. m.fix.place # Absent => "status" \notin DOMAIN m.fix.place[1]
    BY MessagesAssumption DEF WritableFix, AllWritable, PlaceTypes
  <2>2. ToLine(m) = Obj([type |-> Str("state"), v |-> Integer(VERSION), fix |-> Obj(FixKept(m.fix)),
                         sources |-> Arr(items)])
    BY <2>1, MessagesAssumption, StateLine
  <2> HIDE DEF items
  <2> QED
    BY <2>2 DEF Obj
<1>3. /\ m = [type |-> "state", fix |-> m.fix, sources |-> m.sources]
      /\ WritableFix(m.fix) /\ m.fix = [status |-> m.fix.status, place |-> m.fix.place]
      /\ m.sources \in Seq({m.sources[i] : i \in DOMAIN m.sources})
      /\ \A i \in DOMAIN m.sources :
            /\ AllWritable(m.sources[i], SourceTypes, {"name", "status", "sentences", "rejected"})
            /\ m.sources[i].status \in SourceStatuses
  <2>1. /\ m = [type |-> "state", fix |-> m.fix, sources |-> m.sources]
        /\ WritableFix(m.fix)
        /\ EachWritable(m.sources, SourceTypes, {"name", "status", "sentences", "rejected"})
        /\ \A i \in DOMAIN m.sources : m.sources[i].status \in SourceStatuses
    BY MessagesAssumption
  <2>2. m.fix = [status |-> m.fix.status, place |-> m.fix.place]
    BY <2>1 DEF WritableFix
  <2>3. /\ m.sources \in Seq({m.sources[i] : i \in DOMAIN m.sources})
        /\ \A i \in DOMAIN m.sources :
              AllWritable(m.sources[i], SourceTypes, {"name", "status", "sentences", "rejected"})
    BY <2>1, Zenon DEF EachWritable
  <2> QED
    BY <2>1, <2>2, <2>3
<1>4. FromLine(ToLine(m)) = Message([type |-> "state", fix |-> FixRead(keys["fix"]), sources |-> SourcesRead(keys)])
  <2> HIDE DEF keys
  <2>1. FromLine(Obj(keys)) = State(keys)
    BY <1>1, ReadByType
  <2> QED
    BY <1>1, <2>1 DEF State
<1>5. FixRead(keys["fix"]) = [status |-> m.fix.status, place |-> PlaceSent(m.fix)]
  BY <1>1, <1>3, FixAsSent
<1>6. SourcesRead(keys) = m.sources
  <2> DEFINE each == [i \in DOMAIN items |-> SourceRead(items[i])]
             S == {m.sources[i] : i \in DOMAIN m.sources}
  <2>1. n \in Nat /\ DOMAIN m.sources = 1..n /\ m.sources \in Seq(S)
    BY <1>3, LenProperties
  <2>2. DOMAIN items = 1..n
    BY <2>1 DEF AllKept
  <2>3. \A i \in 1..n : items[i] = Obj(Kept(m.sources[i], SourceTypes))
    BY <2>1 DEF AllKept
  <2>4. \A i \in 1..n : SourceRead(items[i]) = <<m.sources[i]>>
    <3> HIDE DEF items
    <3>1. \A i \in 1..n : SourceRead(Obj(Kept(m.sources[i], SourceTypes))) = Present(m.sources[i])
      BY <1>3, <2>1, SourceAsSent
    <3> QED
      BY <2>3, <3>1 DEF Present
  <2>5. SourcesRead(keys) = FlattenSeq(each)
    <3>1. Arr(items).t = "arr" /\ Arr(items).items = items
      BY DEF Arr
    <3> HIDE DEF keys, items
    <3> QED
      BY <1>2, <3>1 DEF SourcesRead
  <2> HIDE DEF items
  <2>6. each = [i \in 1..n |-> <<m.sources[i]>>]
    BY <2>2, <2>4
  <2> HIDE DEF each, n, S
  <2>7. FlattenSeq([i \in 1..n |-> <<m.sources[i]>>]) = m.sources
    <3>1. Len(m.sources) = n
      BY DEF n
    <3> QED
      BY <2>1, <3>1, Flattened
  <2> QED
    BY <2>5, <2>6, <2>7
<1>7. Sent(m) = [type |-> "state", fix |-> [status |-> m.fix.status, place |-> PlaceSent(m.fix)],
                 sources |-> m.sources]
  <2>1. Sent(m) = [m EXCEPT !.fix.place = PlaceSent(m.fix)]
    BY DEF Sent
  <2>2. [m EXCEPT !.fix.place = PlaceSent(m.fix)] = [m EXCEPT !.fix = [m.fix EXCEPT !.place = PlaceSent(m.fix)]]
    OBVIOUS
  <2> DEFINE f == [m.fix EXCEPT !.place = PlaceSent(m.fix)]
  <2>3. f = [status |-> m.fix.status, place |-> PlaceSent(m.fix)]
    BY <1>3
  <2> HIDE DEF f
  <2>4. [m EXCEPT !.fix = f] = [type |-> "state", fix |-> f, sources |-> m.sources]
    BY <1>3
  <2> QED
    BY <2>1, <2>2, <2>3, <2>4 DEF f
<1> QED
  BY <1>4, <1>5, <1>6, <1>7

(* and so are the targets. *)
LEMMA TargetsAsSent ==
    ASSUME NEW m \in HubMessages, m.type = "targets"
    PROVE  FromLine(ToLine(m)) = Message(Sent(m))
<1> DEFINE keys == ToLine(m).keys
           items == AllKept(m.targets, TargetTypes)
<1>1. m = [type |-> "targets", targets |-> m.targets] /\ WritableTargets(m.targets)
  BY MessagesAssumption
<1>2. keys = [type |-> Str("targets"), v |-> Integer(VERSION), targets |-> Arr(items)] /\ ToLine(m) = Obj(keys)
  <2>1. ToLine(m) = Obj([type |-> Str("targets"), v |-> Integer(VERSION), targets |-> Arr(items)])
    BY <1>1, TargetsLine
  <2> HIDE DEF items
  <2> QED
    BY <2>1 DEF Obj
<1> HIDE DEF keys
<1>3. FromLine(ToLine(m)) = Targets(keys)
  <2>1. {"v", "type"} \subseteq DOMAIN keys /\ keys["v"] = Integer(VERSION) /\ keys["type"] = Str("targets")
    BY <1>2
  <2> QED
    BY <1>2, <2>1, ReadByType
<1>4. \A i \in DOMAIN m.targets :
        /\ AllWritable(m.targets[i], TargetTypes, Required)
        /\ ("lat" \in DOMAIN m.targets[i] /\ m.targets[i]["lat"] # NotFinite)
              = ("lon" \in DOMAIN m.targets[i] /\ m.targets[i]["lon"] # NotFinite)
  BY <1>1 DEF WritableTargets, EachWritable
<1>5. DOMAIN items = DOMAIN m.targets
      /\ \A i \in DOMAIN m.targets : TargetFits(items[i]) /\ TargetRead(items[i]) = Finite(m.targets[i])
  <2>1. \A i \in DOMAIN m.targets : items[i] = Obj(Kept(m.targets[i], TargetTypes))
    BY DEF AllKept
  <2>2. DOMAIN items = DOMAIN m.targets
    BY DEF AllKept
  <2> HIDE DEF items
  <2>3. ASSUME NEW i \in DOMAIN m.targets
        PROVE  TargetFits(items[i]) /\ TargetRead(items[i]) = Finite(m.targets[i])
    <3> DEFINE t == m.targets[i]
    <3>1. AllWritable(t, TargetTypes, Required)
          /\ ("lat" \in DOMAIN t /\ t["lat"] # NotFinite) = ("lon" \in DOMAIN t /\ t["lon"] # NotFinite)
      BY <1>4
    <3>2. items[i] = Obj(Kept(t, TargetTypes))
      BY <2>1
    <3> HIDE DEF t
    <3>3. TargetFits(Obj(Kept(t, TargetTypes))) /\ TargetRead(Obj(Kept(t, TargetTypes))) = Finite(t)
      BY <3>1, TargetAsSent
    <3> QED
      BY <3>2, <3>3 DEF t
  <2> QED
    BY <2>2, <2>3
<1>6. Targets(keys) = Message([type |-> "targets", targets |-> [i \in DOMAIN items |-> TargetRead(items[i])]])
  <2> HIDE DEF items
  <2>1. Arr(items).t = "arr" /\ Arr(items).items = items
    BY DEF Arr
  <2>2. "targets" \in DOMAIN keys /\ keys["targets"] = Arr(items)
    BY <1>2
  <2> QED
    BY <1>5, <2>1, <2>2 DEF Targets
<1>7. Sent(m) = [type |-> "targets", targets |-> [i \in DOMAIN m.targets |-> Finite(m.targets[i])]]
  <2>1. Sent(m) = [m EXCEPT !.targets = [i \in DOMAIN m.targets |-> Finite(m.targets[i])]]
    BY DEF Sent
  <2> DEFINE ts == [i \in DOMAIN m.targets |-> Finite(m.targets[i])]
  <2> HIDE DEF ts
  <2>2. [m EXCEPT !.targets = ts] = [type |-> "targets", targets |-> ts]
    BY <1>1
  <2> QED
    BY <2>1, <2>2 DEF ts
<1> HIDE DEF items
<1>8. [i \in DOMAIN items |-> TargetRead(items[i])] = [i \in DOMAIN m.targets |-> Finite(m.targets[i])]
  BY <1>5
<1> QED
  BY <1>3, <1>6, <1>7, <1>8

(* No line says null of anything. *)
LEMMA NoNulls ==
    ASSUME NEW m \in HubMessages
    PROVE  /\ NullFree(ToLine(m))
           /\ \A k \in DOMAIN ToLine(m).keys :
                 /\ ToLine(m).keys[k].t = "obj" => NullFree(ToLine(m).keys[k])
                 /\ ToLine(m).keys[k].t = "arr" =>
                       \A i \in DOMAIN ToLine(m).keys[k].items : NullFree(ToLine(m).keys[k].items[i])
<1> DEFINE keys == ToLine(m).keys
<1>1. \A o : Obj(o).keys = o /\ Obj(o).t = "obj" /\ Arr(o).items = o /\ Arr(o).t = "arr" /\ Str(o).t = "str"
             /\ Integer(o).t = "num"
  BY DEF Obj, Arr, Str, Integer
<1>2. \A s, types : NullFree(Obj(Kept(s, types)))
  BY <1>1 DEF NullFree, Kept
<1>3. NullFree(Obj(FixKept(m.fix)))
  <2> DEFINE place == IF m.fix.place = Absent THEN [k \in {} |-> Null] ELSE Kept(m.fix.place[1], PlaceTypes)
  <2>1. \A k \in DOMAIN place : place[k].t # "null"
    BY DEF Kept
  <2>2. FixKept(m.fix) = [k \in {"status"} \cup DOMAIN place |->
                             IF k = "status" THEN Str(m.fix.status) ELSE place[k]]
    BY DEF FixKept
  <2> HIDE DEF place
  <2>3. \A k \in DOMAIN FixKept(m.fix) : FixKept(m.fix)[k].t # "null"
    <3> TAKE k \in DOMAIN FixKept(m.fix)
    <3>1. CASE k = "status"
      BY <1>1, <2>2, <3>1
    <3>2. CASE k # "status"
      BY <2>1, <2>2, <3>2
    <3> QED
      BY <3>1, <3>2
  <2> QED
    BY <1>1, <2>3 DEF NullFree
<1>4. \A list, types : \A i \in DOMAIN AllKept(list, types) : NullFree(AllKept(list, types)[i])
  BY <1>2 DEF AllKept
<1>5. \A k \in DOMAIN keys :
         \/ keys[k].t \in {"str", "num"}
         \/ keys[k] = Obj(FixKept(m.fix))
         \/ \E list, types : keys[k] = Arr(AllKept(list, types))
  <2>1. CASE m.type = "hello"
    <3>1. keys = [type |-> Str("hello"), v |-> Integer(VERSION), keel |-> Str(m.keel)]
      BY <1>1, <2>1, MessagesAssumption, HelloLine
    <3> HIDE DEF keys
    <3> QED
      BY <1>1, <3>1
  <2>2. CASE m.type = "state"
    <3>1. m.fix.place # Absent => "status" \notin DOMAIN m.fix.place[1]
      BY <2>2, MessagesAssumption DEF WritableFix, AllWritable, PlaceTypes
    <3>2. keys = [type |-> Str("state"), v |-> Integer(VERSION), fix |-> Obj(FixKept(m.fix)),
                  sources |-> Arr(AllKept(m.sources, SourceTypes))]
      BY <1>1, <2>2, <3>1, MessagesAssumption, StateLine
    <3> HIDE DEF keys
    <3> QED
      BY <1>1, <3>2
  <2>3. CASE m.type = "targets"
    <3>1. keys = [type |-> Str("targets"), v |-> Integer(VERSION),
                  targets |-> Arr(AllKept(m.targets, TargetTypes))]
      BY <1>1, <2>3, MessagesAssumption, TargetsLine
    <3> HIDE DEF keys
    <3> QED
      BY <1>1, <3>1
  <2>4. m.type \in {"hello", "state", "targets"}
    BY MessagesAssumption
  <2> QED
    BY <2>1, <2>2, <2>3, <2>4
<1> HIDE DEF keys
<1>6. \A k \in DOMAIN keys :
         /\ keys[k].t # "null"
         /\ keys[k].t = "obj" => NullFree(keys[k])
         /\ keys[k].t = "arr" => \A i \in DOMAIN keys[k].items : NullFree(keys[k].items[i])
  BY <1>1, <1>3, <1>4, <1>5
<1> QED
  BY <1>6 DEF NullFree, keys

(* A message picked is one of the hub's. *)
LEMMA AHubMessageIsRead == AHubMessage => HubIsRead'
<1> SUFFICES ASSUME AHubMessage PROVE HubIsRead'
  OBVIOUS
<1>1. PICK m \in HubMessages : input' = [what |-> "message", message |-> m]
  BY DEF AHubMessage
<1>2. input'.message = m
  BY <1>1
<1>3. FromLine(ToLine(m)) = Message(Sent(m))
  <2>1. CASE m.type = "hello"
    <3> DEFINE keys == [type |-> Str("hello"), v |-> Integer(VERSION), keel |-> Str(m.keel)]
    <3>1. m = [type |-> "hello", keel |-> m.keel]
      BY <2>1, MessagesAssumption
    <3>2. ToLine(m) = Obj(keys)
      BY <3>1, HelloLine
    <3>3. {"v", "type"} \subseteq DOMAIN keys /\ keys["v"] = Integer(VERSION) /\ keys["type"] = Str("hello")
          /\ "keel" \in DOMAIN keys /\ keys["keel"] = Str(m.keel)
      OBVIOUS
    <3> HIDE DEF keys
    <3>4. FromLine(Obj(keys)) = Hello(keys)
      BY <3>3, ReadByType
    <3>5. Get(keys, "keel", AsStr) = Present(m.keel)
      BY <3>3 DEF Get, AsStr, Str
    <3>6. Hello(keys) = Message([type |-> "hello", keel |-> m.keel])
      BY <3>5 DEF Hello, Present, Absent
    <3>7. Sent(m) = m
      BY <2>1 DEF Sent
    <3> QED
      BY <3>1, <3>2, <3>4, <3>6, <3>7
  <2>2. CASE m.type = "state"
    BY <2>2, StateAsSent
  <2>3. CASE m.type = "targets"
    BY <2>3, TargetsAsSent
  <2> QED
    BY <2>1, <2>2, <2>3, MessagesAssumption
<1>4. /\ NullFree(ToLine(m))
      /\ \A k \in DOMAIN ToLine(m).keys :
            /\ ToLine(m).keys[k].t = "obj" => NullFree(ToLine(m).keys[k])
            /\ ToLine(m).keys[k].t = "arr" =>
                  \A i \in DOMAIN ToLine(m).keys[k].items : NullFree(ToLine(m).keys[k].items[i])
  BY NoNulls
<1> QED
  BY <1>2, <1>3, <1>4 DEF HubIsRead

-----------------------------------------------------------------------------
(* The status of an altered line is one text: the hub's, or that of a value. *)
LEMMA StatusIsText ==
    ASSUME NEW m \in HubMessages, m.type = "state",
           NEW where \in {"message", "fix", "sources"}, NEW k \in KeysAt(where),
           NEW v, v = Absent \/ v[1] \in Values, NEW keys,
           where = "message" => keys = Altered(ToLine(m), k, v).keys,
           where # "message" => \A j : j # where => Alike(keys, ToLine(m).keys, j),
           where = "fix" => keys["fix"] = Altered(ToLine(m).keys["fix"], k, v),
           "fix" \in DOMAIN keys, keys["fix"].t = "obj", "status" \in DOMAIN keys["fix"].keys
    PROVE  OneText(keys["fix"].keys["status"])
<1> DEFINE written == ToLine(m).keys
<1>1. /\ ToLine(m) = Obj(written) /\ written["fix"] = Obj(FixKept(m.fix)) /\ "fix" \in DOMAIN written
      /\ FixKept(m.fix)["status"] = Str(m.fix.status)
  BY HubsLine
<1>2. \A x : OneText(Str(x)) /\ Obj(x).keys = x /\ Obj(x).t = "obj"
  BY DEF OneText, Str, Obj
<1>3. \A x \in Values : OneText(x) /\ (x.t = "obj" => \A j \in DOMAIN x.keys : OneText(x.keys[j]))
  BY MessagesAssumption
<1> HIDE DEF written
<1>4. CASE keys["fix"] = written["fix"]
  BY <1>1, <1>2, <1>4
<1>5. CASE where = "fix"
  <2> DEFINE altered == Altered(Obj(FixKept(m.fix)), k, v)
  <2>1. /\ \A j : j # k => Alike(altered.keys, FixKept(m.fix), j)
        /\ k \in DOMAIN altered.keys => v # Absent /\ altered.keys[k] = v[1]
    BY AlteredIs
  <2>2. keys["fix"] = altered
    BY <1>1, <1>5 DEF written
  <2> HIDE DEF altered
  <2>3. CASE k = "status"
    BY <1>3, <2>1, <2>2, <2>3
  <2>4. CASE k # "status"
    <3>1. altered.keys["status"] = Str(m.fix.status)
      BY <1>1, <2>1, <2>2, <2>4 DEF Alike
    <3> QED
      BY <1>2, <2>2, <3>1
  <2> QED
    BY <2>3, <2>4
<1>6. CASE where = "message"
  <2> DEFINE altered == Altered(Obj(written), k, v)
  <2>1. /\ \A j : j # k => Alike(altered.keys, written, j)
        /\ k \in DOMAIN altered.keys => v # Absent /\ altered.keys[k] = v[1]
    BY AlteredIs
  <2>2. keys = altered.keys
    BY <1>1, <1>6
  <2> HIDE DEF altered
  <2>3. CASE k = "fix"
    BY <1>3, <2>1, <2>2, <2>3
  <2>4. CASE k # "fix"
    BY <1>4, <2>1, <2>2, <2>4 DEF Alike
  <2> QED
    BY <2>3, <2>4
<1>7. CASE where = "sources"
  BY <1>4, <1>7 DEF Alike, written
<1> QED
  BY <1>5, <1>6, <1>7

(* What a place is of, and nothing else. *)
LEMMA PlaceHasKeys ==
    ASSUME NEW keys, Place(keys) # Absent
    PROVE  DOMAIN Place(keys)[1] \subseteq DOMAIN PlaceTypes
<1>1. Place(keys)[1] = Said(PlaceOptions(keys))
  BY PlaceIs DEF Present
<1>2. DOMAIN PlaceOptions(keys) = DOMAIN PlaceTypes
  BY DEF PlaceOptions, PlaceTypes
<1>3. DOMAIN Said(PlaceOptions(keys)) \subseteq DOMAIN PlaceOptions(keys)
  BY DEF Said
<1> QED
  BY <1>1, <1>2, <1>3

(* Two numbers make a place, whatever else is there. *)
LEMMA PlacesThere ==
    ASSUME NEW keys, NEW before, Alike(keys, before, "lat"), Alike(keys, before, "lon")
    PROVE  Place(keys) = Absent <=> Place(before) = Absent
<1>1. /\ Get(keys, "lat", AsFinite) = Get(before, "lat", AsFinite)
      /\ Get(keys, "lon", AsFinite) = Get(before, "lon", AsFinite)
  BY DEF Get, Alike
<1> DEFINE lat(o) == Get(o, "lat", AsFinite)
           lon(o) == Get(o, "lon", AsFinite)
<1>2. \A o : Place(o) = IF lat(o) = Absent \/ lon(o) = Absent THEN Absent
                        ELSE IF lat(o)[1] \notin -180..180 \/ lon(o)[1] \notin -360..360 THEN Absent
                        ELSE Present(Said(PlaceOptions(o)))
  BY Zenon DEF Place, PlaceOptions
<1>3. \A x : Present(x) # Absent
  BY DEF Present, Absent
<1>4. lat(keys) = lat(before) /\ lon(keys) = lon(before)
  BY <1>1
<1> HIDE DEF lat, lon
<1> QED
  BY <1>2, <1>3, <1>4

(* What is read of a fix with a status: that, and its place. *)
LEMMA FixOf ==
    ASSUME NEW keys, "status" \in DOMAIN keys, keys["status"].t = "str"
    PROVE  LET status == keys["status"].is
               fix == FixRead(Obj(keys))
           IN /\ status \in FixStatuses => fix = Fix(status, Place(keys))
              /\ status \notin FixStatuses => fix.place = Place(keys)
<1>1. Obj(keys).t = "obj" /\ Obj(keys).keys = keys
  BY DEF Obj
<1>2. Get(keys, "status", AsStr) = Present(keys["status"].is)
  BY DEF Get, AsStr
<1>3. \A x : Present(x) # Absent /\ Present(x)[1] = x
  BY DEF Present, Absent
<1>4. FixRead(Obj(keys)) = IF keys["status"].is \in FixStatuses THEN Fix(keys["status"].is, Place(keys))
                           ELSE IF Place(keys) = Absent THEN NoFix
                           ELSE Fix("stale", Place(keys))
  BY <1>1, <1>2, <1>3 DEF FixRead
<1>5. NoFix.place = Absent /\ Fix("stale", Place(keys)).place = Place(keys)
  BY DEF NoFix, Fix
<1> QED
  BY <1>4, <1>5

(* A fix of the hub with a key altered is what it was but for that. *)
LEMMA AlteredFix ==
    ASSUME NEW kept, NEW k, NEW v, "status" \in DOMAIN kept, kept["status"].t = "str",
           kept["status"].is \in FixStatuses, kept["status"].is = "none" => Place(kept) = Absent,
           v # Absent => OneText(v[1])
    PROVE  LET altered == Altered(Obj(kept), k, v)
           IN FixIsLeft(FixRead(Obj(kept)), FixRead(altered), altered.keys, k)
<1> DEFINE altered == Altered(Obj(kept), k, v)
           keys == altered.keys
           before == FixRead(Obj(kept))
           after == FixRead(altered)
           is == kept["status"].is
<1>1. /\ altered = Obj(keys) /\ \A j : j # k => Alike(keys, kept, j)
      /\ k \in DOMAIN keys => v # Absent /\ keys[k] = v[1]
  BY AlteredIs
<1> HIDE DEF altered
<1>2. before = Fix(is, Place(kept))
  BY FixOf
<1>3. /\ Fix(is, Place(kept)).status = is
      /\ Fix(is, Place(kept)).place = Place(kept)
  BY DEF Fix
<1>4. before.status = is /\ before.place = Place(kept)
  BY <1>2, <1>3
<1>5. ASSUME k # "status"
      PROVE  /\ after.status = before.status
             /\ k \notin {"lat", "lon"} => (after.place = Absent <=> before.place = Absent)
             /\ after.place # Absent /\ before.place # Absent =>
                   But(after.place[1], k) = But(before.place[1], k)
  <2>1. "status" \in DOMAIN keys /\ keys["status"] = kept["status"]
    BY <1>1, <1>5 DEF Alike
  <2>2. after = Fix(is, Place(keys))
    BY <1>1, <2>1, FixOf
  <2>3. after.status = is /\ after.place = IF is = "none" THEN Absent ELSE Place(keys)
    BY <2>2 DEF Fix
  <2>4. k \notin {"lat", "lon"} => (after.place = Absent <=> before.place = Absent)
    <3>1. k \notin {"lat", "lon"} => (Place(keys) = Absent <=> Place(kept) = Absent)
      BY <1>1, PlacesThere
    <3> HIDE DEF before, after, keys, is
    <3> QED
      BY <1>4, <2>3, <3>1 DEF is
  <2>5. ASSUME after.place # Absent, before.place # Absent
        PROVE  But(after.place[1], k) = But(before.place[1], k)
    <3>1. /\ Place(keys) # Absent /\ after.place = Place(keys)
          /\ Place(kept) # Absent /\ before.place = Place(kept)
      BY <1>4, <2>3, <2>5
    <3>2. /\ DOMAIN Place(keys)[1] \subseteq DOMAIN PlaceTypes
          /\ DOMAIN Place(kept)[1] \subseteq DOMAIN PlaceTypes
      BY <3>1, PlaceHasKeys
    <3>3. \A j \in DOMAIN PlaceTypes \ {k} : Alike(Place(keys)[1], Place(kept)[1], j)
      BY <1>1, <3>1, PlacesAlike
    <3>4. But(Place(keys)[1], k) = But(Place(kept)[1], k)
      BY <3>2, <3>3, ButIs
    <3> QED
      BY <3>1, <3>4
  <2> QED
    BY <1>4, <2>3, <2>4, <2>5
<1>6. ASSUME k = "status", "status" \in DOMAIN keys, keys["status"].t = "str", keys["status"] # Str("none")
      PROVE  after.place = before.place
  <2>1. keys["status"].is # "none"
    BY <1>1, <1>6 DEF OneText
  <2>2. Place(keys) = Place(kept)
    <3>1. \A j \in DOMAIN PlaceTypes : Alike(keys, kept, j)
      BY <1>1, <1>6 DEF PlaceTypes
    <3>2. /\ Get(keys, "lat", AsFinite) = Get(kept, "lat", AsFinite)
          /\ Get(keys, "lon", AsFinite) = Get(kept, "lon", AsFinite)
          /\ Get(keys, "sogKn", AsFinite) = Get(kept, "sogKn", AsFinite)
          /\ Get(keys, "cogDeg", AsFinite) = Get(kept, "cogDeg", AsFinite)
          /\ Get(keys, "utc", AsStr) = Get(kept, "utc", AsStr)
          /\ Get(keys, "satellites", SatelliteCount) = Get(kept, "satellites", SatelliteCount)
          /\ Get(keys, "hdop", AsFinite) = Get(kept, "hdop", AsFinite)
          /\ Get(keys, "ageSeconds", WholeU64) = Get(kept, "ageSeconds", WholeU64)
      BY <3>1 DEF Get, Alike, PlaceTypes
    <3> QED
      BY <3>2 DEF Place
  <2>3. after.place = Place(keys)
    <3>1. CASE keys["status"].is \in FixStatuses
      <4>1. after = Fix(keys["status"].is, Place(keys))
        BY <1>1, <1>6, <3>1, FixOf
      <4> QED
        BY <2>1, <4>1 DEF Fix
    <3>2. CASE keys["status"].is \notin FixStatuses
      BY <1>1, <1>6, <3>2, FixOf
    <3> QED
      BY <3>1, <3>2
  <2> QED
    BY <1>4, <2>2, <2>3
<1> HIDE DEF before, after, keys
<1>7. FixIsLeft(before, after, keys, k)
  BY <1>5, <1>6 DEF FixIsLeft
<1> QED
  BY <1>7 DEF before, after, keys, altered

(* Each key that is something of a source, and what it is. *)
SourceOptions(keys) ==
    [name |-> Get(keys, "name", AsStr), status |-> Get(keys, "status", AsStr),
     message |-> Get(keys, "message", AsStr),
     sentences |-> OrZero(Get(keys, "sentences", WholeU64)),
     rejected |-> OrZero(Get(keys, "rejected", WholeU64))]

LEMMA SourceIs ==
    ASSUME NEW keys
    PROVE  LET options == SourceOptions(keys)
           IN SourceRead(Obj(keys)) = IF options.name = Absent \/ options.status = Absent THEN Absent
                                      ELSE IF options.status[1] \notin SourceStatuses THEN Absent
                                      ELSE Present(Said(options))
<1>1. Obj(keys).t = "obj" /\ Obj(keys).keys = keys
  BY DEF Obj
<1> QED
  BY <1>1 DEF SourceRead, SourceOptions

(* A source of the hub with a key altered is what it was but for that, or is none. *)
LEMMA AlteredSource ==
    ASSUME NEW s, AllWritable(s, SourceTypes, {"name", "status", "sentences", "rejected"}),
           s.status \in SourceStatuses, NEW k, NEW v
    PROVE  LET read == SourceRead(Altered(Obj(Kept(s, SourceTypes)), k, v))
           IN \/ read = Absent /\ k \in {"name", "status"}
              \/ read = Present(read[1]) /\ But(read[1], k) = But(s, k)
<1> DEFINE kept == Kept(s, SourceTypes)
           altered == Altered(Obj(kept), k, v)
           keys == altered.keys
           read == SourceRead(altered)
           options == SourceOptions(keys)
           were == SourceOptions(kept)
<1>2. SourceRead(Obj(kept)) = Present(s)
  BY SourceAsSent
<1> HIDE DEF kept
<1>1. altered = Obj(keys) /\ \A j : j # k => Alike(keys, kept, j)
  BY AlteredIs
<1> HIDE DEF altered
<1>3. \A x : Present(x) # Absent /\ Present(x)[1] = x
  BY DEF Present, Absent
<1>4. /\ were.name # Absent /\ were.status # Absent /\ were.status[1] \in SourceStatuses
      /\ s = Said(were)
  <2>1. SourceRead(Obj(kept)) = IF were.name = Absent \/ were.status = Absent THEN Absent
                                ELSE IF were.status[1] \notin SourceStatuses THEN Absent
                                ELSE Present(Said(were))
    BY SourceIs
  <2> HIDE DEF were
  <2> QED
    BY <1>2, <1>3, <2>1
<1>5. read = IF options.name = Absent \/ options.status = Absent THEN Absent
             ELSE IF options.status[1] \notin SourceStatuses THEN Absent
             ELSE Present(Said(options))
  BY <1>1, SourceIs
<1>6. /\ DOMAIN options = DOMAIN SourceTypes /\ DOMAIN were = DOMAIN SourceTypes
      /\ \A j \in DOMAIN SourceTypes \ {k} : options[j] = were[j]
  <2>1. DOMAIN options = DOMAIN SourceTypes /\ DOMAIN were = DOMAIN SourceTypes
    BY DEF SourceOptions, SourceTypes
  <2> HIDE DEF keys
  <2>2. ASSUME NEW j \in DOMAIN SourceTypes \ {k} PROVE options[j] = were[j]
    <3>1. Alike(keys, kept, j)
      BY <1>1
    <3> QED
      BY <3>1 DEF SourceOptions, Get, Alike, SourceTypes
  <2> QED
    BY <2>1, <2>2
<1> HIDE DEF options, were, keys, read
<1>7. CASE read = Absent
  <2>1. {"name", "status"} \subseteq DOMAIN SourceTypes
    BY DEF SourceTypes
  <2>2. k \in {"name", "status"}
    BY <1>3, <1>4, <1>5, <1>6, <1>7, <2>1
  <2> QED
    BY <1>7, <2>2 DEF read, altered, kept
<1>8. CASE read # Absent
  <2>1. read = Present(Said(options))
    BY <1>5, <1>8
  <2>2. read[1] = Said(options)
    BY <1>3, <2>1
  <2>3. \A j \in DOMAIN SourceTypes \ {k} : Alike(Said(options), Said(were), j)
    BY <1>6, SaidAlike
  <2>4. DOMAIN Said(options) \subseteq DOMAIN SourceTypes /\ DOMAIN Said(were) \subseteq DOMAIN SourceTypes
    BY <1>6 DEF Said
  <2>5. But(Said(options), k) = But(Said(were), k)
    BY <2>3, <2>4, ButIs
  <2> QED
    BY <1>4, <2>1, <2>2, <2>5 DEF read, altered, kept
<1> QED
  BY <1>7, <1>8

(* The sources of the hub, one of them with a key altered. *)
LEMMA AlteredSources ==
    ASSUME NEW m \in HubMessages, m.type = "state", NEW i \in DOMAIN m.sources, NEW k, NEW v, NEW keys,
           "sources" \in DOMAIN keys,
           keys["sources"] = AlteredAt(Arr(AllKept(m.sources, SourceTypes)), i, k, v)
    PROVE  SourcesAreLeft(m.sources, SourcesRead(keys), i, k)
<1> DEFINE list == AllKept(m.sources, SourceTypes)
           changed == [list EXCEPT ![i] = Altered(list[i], k, v)]
           each == [j \in DOMAIN changed |-> SourceRead(changed[j])]
           S == {m.sources[j] : j \in DOMAIN m.sources}
           n == Len(m.sources)
           x == SourceRead(Altered(list[i], k, v))
<1>1. /\ m.sources \in Seq(S)
      /\ \A j \in DOMAIN m.sources :
            /\ AllWritable(m.sources[j], SourceTypes, {"name", "status", "sentences", "rejected"})
            /\ m.sources[j].status \in SourceStatuses
  BY MessagesAssumption, Zenon DEF EachWritable
<1>2. n \in Nat /\ DOMAIN m.sources = 1..n
  BY <1>1, LenProperties
<1>3. DOMAIN list = 1..n /\ \A j \in 1..n : list[j] = Obj(Kept(m.sources[j], SourceTypes))
  BY <1>2 DEF AllKept
<1>4. SourcesRead(keys) = FlattenSeq(each)
  <2>1. keys["sources"].t = "arr" /\ keys["sources"].items = changed
    BY DEF AlteredAt, Arr
  <2> HIDE DEF changed, list
  <2> QED
    BY <2>1 DEF SourcesRead
<1>5. \A j \in 1..n : SourceRead(Obj(Kept(m.sources[j], SourceTypes))) = <<m.sources[j]>>
  <2>1. \A j \in 1..n : SourceRead(Obj(Kept(m.sources[j], SourceTypes))) = Present(m.sources[j])
    BY <1>1, <1>2, SourceAsSent
  <2> QED
    BY <2>1 DEF Present
<1>6. /\ DOMAIN each = 1..n /\ i \in 1..n /\ each[i] = x
      /\ \A j \in 1..n : j # i => each[j] = <<m.sources[j]>>
  <2> HIDE DEF list
  <2> QED
    BY <1>2, <1>3, <1>5
<1>7. \/ x = Absent /\ k \in {"name", "status"}
      \/ x = Present(x[1]) /\ But(x[1], k) = But(m.sources[i], k)
  <2>1. list[i] = Obj(Kept(m.sources[i], SourceTypes))
    BY <1>2, <1>3
  <2> HIDE DEF list
  <2> QED
    BY <1>1, <2>1, AlteredSource
<1>8. each = [j \in DOMAIN each |-> each[j]]
  OBVIOUS
<1> HIDE DEF each, x
<1>9. CASE x = Absent /\ k \in {"name", "status"}
  <2> DEFINE left == [j \in 1..n |-> IF j = i THEN <<>> ELSE <<m.sources[j]>>]
  <2>1. each = left
    BY <1>6, <1>8, <1>9 DEF Absent
  <2> HIDE DEF left, n
  <2>2. Len(m.sources) = n
    BY DEF n
  <2>3. FlattenSeq(left) = RemoveAt(m.sources, i)
    <3> HIDE DEF S
    <3> QED
      BY <1>1, <1>2, <1>6, <2>2, FlattenedWithout DEF left
  <2> QED
    BY <1>4, <1>9, <2>1, <2>3 DEF SourcesAreLeft
<1>10. CASE x = Present(x[1]) /\ But(x[1], k) = But(m.sources[i], k)
  <2> DEFINE t == [m.sources EXCEPT ![i] = x[1]]
             T == S \cup {x[1]}
             left == [j \in 1..n |-> <<t[j]>>]
  <2>1. DOMAIN t = 1..n /\ t[i] = x[1] /\ \A j \in 1..n : j # i => t[j] = m.sources[j]
    BY <1>2, <1>6
  <2>2. t \in Seq(T) /\ Len(t) = n
    <3>1. t = [j \in 1..n |-> t[j]]
      BY <1>2
    <3>2. \A j \in 1..n : t[j] \in T
      BY <1>2, <2>1
    <3> HIDE DEF t, T, n
    <3> QED
      BY <1>2, <3>1, <3>2
  <2>3. each = left
    <3> HIDE DEF t
    <3> QED
      BY <1>6, <1>8, <1>10, <2>1 DEF Present
  <2> HIDE DEF t, T, n
  <2>4. FlattenSeq(left) = t
    BY <1>2, <2>2, Flattened
  <2>5. OneIsAltered(m.sources, t, i, k)
    BY <1>2, <1>6, <1>10, <2>1 DEF OneIsAltered
  <2> HIDE DEF left
  <2> QED
    BY <1>4, <2>3, <2>4, <2>5 DEF SourcesAreLeft
<1> QED
  BY <1>7, <1>9, <1>10

(* A state with a key altered is a state, its position the line's, and nothing but what the
   key is of is read otherwise. *)
LEMMA AlteredState ==
    ASSUME NEW m \in HubMessages, m.type = "state",
           NEW where \in {"message", "fix", "sources", "targets"},
           NEW i \in Objects(ToLine(m), where), NEW k \in KeysAt(where),
           NEW v, v = Absent \/ v[1] \in Values,
           NEW line, line = AlteredLine(ToLine(m), where, i, k, v), "fix" \in DOMAIN line.keys,
           NEW it, it.where = where, it.at = i, it.key = k
    PROVE  StateIsRead(FromLine(ToLine(m)), FromLine(line), line.keys["fix"].keys, it)
<1> DEFINE keys == ToLine(m).keys
           now == line.keys
           before == FromLine(ToLine(m))
           after == FromLine(line)
           position == FixPosition(after.message.fix)
           was == FixPosition(before.message.fix)
           fix == now["fix"]
<1>1. /\ ToLine(m) = Obj(keys) /\ {"v", "type"} \subseteq DOMAIN keys
      /\ keys["v"] = Integer(VERSION) /\ keys["type"] = Str("state")
      /\ "fix" \in DOMAIN keys /\ keys["fix"] = Obj(FixKept(m.fix))
      /\ "targets" \notin DOMAIN keys
  BY HubsLine
<1>2. where \in {"message", "fix", "sources"}
  <2>1. ASSUME where = "targets" PROVE FALSE
    BY <1>1, <2>1 DEF Objects
  <2> QED
    BY <2>1
<1>3. /\ line = Obj(now)
      /\ Alike(now, keys, "v") /\ Alike(now, keys, "type")
      /\ where = "message" => line = Altered(ToLine(m), k, v)
      /\ where # "message" => \A j : j # where => Alike(now, keys, j)
      /\ where = "fix" => fix = Altered(keys["fix"], k, v)
      /\ where = "sources" => /\ "sources" \in DOMAIN keys /\ "sources" \in DOMAIN now
                              /\ now["sources"] = AlteredAt(keys["sources"], i, k, v)
  <2> DEFINE other == AlteredLine(Obj(keys), where, i, k, v)
  <2>3. i \in Objects(Obj(keys), where)
    BY <1>1
  <2> HIDE DEF keys
  <2>1. LineAltered(other, keys, where, i, k, v)
    BY <2>3, AlteredLineIs
  <2>2. line = other
    BY <1>1 DEF keys
  <2> HIDE DEF other
  <2> QED
    <3>1. where # "message" => OthersAlike(now, keys, where)
      BY <2>1, <2>2 DEF LineAltered
    <3> QED
      BY <1>1, <1>2, <2>1, <2>2, <3>1 DEF LineAltered, OthersAlike
<1>4. /\ after = State(now) /\ before = State(keys)
  <2>1. {"v", "type"} \subseteq DOMAIN now /\ now["v"] = Integer(VERSION) /\ now["type"] = Str("state")
    BY <1>1, <1>3 DEF Alike
  <2> HIDE DEF now, keys
  <2> QED
    BY <1>1, <1>3, <2>1, ReadByType
<1>5. \A o : Message(o).read = "message" /\ Message(o).message = o
  BY DEF Message
<1>6. /\ after.read = "message" /\ after.message.type = "state"
      /\ after.message.fix = FixRead(fix) /\ after.message.sources = SourcesRead(now)
      /\ before.message.fix = FixRead(keys["fix"]) /\ before.message.sources = SourcesRead(keys)
  <2>1. "fix" \in DOMAIN now
    OBVIOUS
  <2>2. after = Message([type |-> "state", fix |-> FixRead(fix), sources |-> SourcesRead(now)])
    <3> HIDE DEF now, after
    <3> QED
      BY <1>4, <2>1 DEF State
  <2>3. before = Message([type |-> "state", fix |-> FixRead(keys["fix"]), sources |-> SourcesRead(keys)])
    <3> HIDE DEF keys, before
    <3> QED
      BY <1>1, <1>4 DEF State
  <2> HIDE DEF after, before, now, keys
  <2> QED
    BY <1>5, <2>2, <2>3
<1>7. position # Absent =>
         /\ position[1].place.lat \in -180..180 /\ position[1].place.lon \in -360..360
         /\ \A j \in {"lat", "lon"} : fix.keys[j].halves = position[1].place[j]
         /\ position[1].current => fix.keys["status"] = Str("ok")
  <2> SUFFICES ASSUME position # Absent
               PROVE  /\ position[1].place.lat \in -180..180 /\ position[1].place.lon \in -360..360
                      /\ \A j \in {"lat", "lon"} : fix.keys[j].halves = position[1].place[j]
                      /\ position[1].current => fix.keys["status"] = Str("ok")
    OBVIOUS
  <2> HIDE DEF after, fix
  <2>1. position = FixPosition(FixRead(fix))
    BY <1>6
  <2> DEFINE there == FixPosition(FixRead(fix))
  <2>4. there # Absent
    BY <2>1
  <2>5. /\ fix.t = "obj" /\ Place(fix.keys) # Absent /\ there[1].place = Place(fix.keys)[1]
        /\ there[1].place.lat = fix.keys["lat"].halves /\ there[1].place.lat \in -180..180
        /\ there[1].place.lon = fix.keys["lon"].halves /\ there[1].place.lon \in -360..360
        /\ there[1].current => /\ "status" \in DOMAIN fix.keys /\ fix.keys["status"].t = "str"
                               /\ fix.keys["status"].is = "ok"
    BY <2>4, PositionIs
  <2>6. position = there
    BY <2>1
  <2> HIDE DEF position, there
  <2>2. /\ fix.t = "obj"
        /\ position[1].place.lat = fix.keys["lat"].halves /\ position[1].place.lat \in -180..180
        /\ position[1].place.lon = fix.keys["lon"].halves /\ position[1].place.lon \in -360..360
        /\ position[1].current => /\ "status" \in DOMAIN fix.keys /\ fix.keys["status"].t = "str"
                                  /\ fix.keys["status"].is = "ok"
    BY <2>5, <2>6
  <2>3. fix.t = "obj" /\ "status" \in DOMAIN fix.keys => OneText(fix.keys["status"])
    <3> HIDE DEF now
    <3>1. where = "message" => now = Altered(ToLine(m), k, v).keys
      BY <1>3 DEF now
    <3>2. where # "message" => \A j : j # where => Alike(now, ToLine(m).keys, j)
      BY <1>3
    <3>3. where = "fix" => now["fix"] = Altered(ToLine(m).keys["fix"], k, v)
      BY <1>3 DEF fix
    <3>4. "fix" \in DOMAIN now
      BY DEF now
    <3> QED
      BY <1>2, <3>1, <3>2, <3>3, <3>4, StatusIsText DEF fix
  <2> QED
    BY <2>2, <2>3 DEF OneText
<1> DEFINE part == IF where = "message" THEN k ELSE where
<1>8. ASSUME NEW j, j # part PROVE Alike(now, keys, j)
  <2>1. CASE where = "message"
    <3> DEFINE altered == Altered(Obj(keys), k, v)
    <3> HIDE DEF keys
    <3>1. \A l : l # k => Alike(altered.keys, keys, l)
      BY AlteredIs
    <3>2. line = altered
      BY <1>1, <1>3, <2>1
    <3> HIDE DEF altered
    <3> QED
      BY <1>8, <2>1, <3>1, <3>2
  <2>2. CASE where # "message"
    BY <1>3, <1>8, <2>2
  <2> QED
    BY <2>1, <2>2
<1>9. part # "fix" => after.message.fix = before.message.fix
  <2>1. part # "fix" => now["fix"] = keys["fix"]
    BY <1>8 DEF Alike
  <2> HIDE DEF after, before, now, keys, part
  <2> QED
    BY <1>6, <2>1 DEF now
<1>10. part # "sources" => after.message.sources = before.message.sources
  <2> HIDE DEF now, keys
  <2>1. part # "sources" => SourcesRead(now) = SourcesRead(keys)
    BY <1>8 DEF Alike, SourcesRead
  <2> HIDE DEF after, before, part
  <2> QED
    BY <1>6, <2>1
<1>11. where = "fix" => FixIsLeft(before.message.fix, after.message.fix, fix.keys, k)
  <2> SUFFICES ASSUME where = "fix" PROVE FixIsLeft(before.message.fix, after.message.fix, fix.keys, k)
    OBVIOUS
  <2> DEFINE kept == FixKept(m.fix)
             altered == Altered(Obj(kept), k, v)
  <2>1. /\ "status" \in DOMAIN kept /\ kept["status"] = Str(m.fix.status) /\ m.fix.status \in FixStatuses
        /\ m.fix.status = "none" => m.fix.place = Absent
    <3>1. WritableFix(m.fix)
      BY MessagesAssumption
    <3>2. kept["status"] = Str(m.fix.status) /\ "status" \in DOMAIN kept
      BY DEF FixKept
    <3> QED
      BY <3>1, <3>2 DEF WritableFix
  <2>2. kept["status"].t = "str" /\ kept["status"].is = m.fix.status
    BY <2>1 DEF Str
  <2>3. m.fix.status = "none" => Place(kept) = Absent
    <3>1. m.fix.status = "none" => DOMAIN kept = {"status"}
      BY <2>1 DEF FixKept
    <3> HIDE DEF kept
    <3>2. Place(kept) # Absent => "lat" \in DOMAIN kept
      BY PlaceIs
    <3> QED
      BY <3>1, <3>2
  <2>4. v # Absent => OneText(v[1])
    BY MessagesAssumption
  <2>5. fix = altered /\ keys["fix"] = Obj(kept)
    BY <1>1, <1>3
  <2> HIDE DEF kept
  <2>6. FixIsLeft(FixRead(Obj(kept)), FixRead(altered), altered.keys, k)
    BY <2>1, <2>2, <2>3, <2>4, AlteredFix
  <2> HIDE DEF after, before, fix, keys, altered
  <2> QED
    BY <1>6, <2>5, <2>6
<1>12. where = "sources" => SourcesAreLeft(before.message.sources, after.message.sources, i, k)
  <2> SUFFICES ASSUME where = "sources"
               PROVE  SourcesAreLeft(before.message.sources, after.message.sources, i, k)
    OBVIOUS
  <2>1. keys["sources"] = Arr(AllKept(m.sources, SourceTypes))
    BY <1>3, HubsLine
  <2>2. i \in DOMAIN m.sources
    <3>1. i \in DOMAIN keys["sources"].items
      BY <1>3 DEF Objects
    <3> HIDE DEF keys
    <3>2. DOMAIN keys["sources"].items = DOMAIN m.sources
      BY <2>1 DEF Arr, AllKept
    <3> QED
      BY <3>1, <3>2
  <2>3. before.message.sources = m.sources
    <3>1. before = Message(Sent(m))
      BY StateAsSent
    <3>2. m = [type |-> "state", fix |-> m.fix, sources |-> m.sources]
      BY MessagesAssumption
    <3>3. Sent(m).sources = m.sources
      BY <3>2 DEF Sent
    <3> HIDE DEF before
    <3> QED
      BY <1>5, <3>1, <3>3
  <2>4. "sources" \in DOMAIN now /\ now["sources"] = AlteredAt(Arr(AllKept(m.sources, SourceTypes)), i, k, v)
    BY <1>3, <2>1
  <2> HIDE DEF after, before, now, keys
  <2>5. SourcesAreLeft(m.sources, SourcesRead(now), i, k)
    BY <2>2, <2>4, AlteredSources
  <2> QED
    BY <1>6, <2>3, <2>5
<1> DEFINE stated == fix.keys
<1>13. PositionIsStated(FixPosition(after.message.fix), stated)
  <2> HIDE DEF after, fix
  <2> QED
    BY <1>7 DEF PositionIsStated
<1>14. StateIsRead(before, after, stated, it)
  <2> HIDE DEF before, after, fix
  <2> QED
    BY <1>6, <1>9, <1>10, <1>11, <1>12, <1>13 DEF StateIsRead
<1> QED
  BY <1>14

(* Targets that are read are those of the line, each with a whole position or none. *)
LEMMA TargetsAreWhole ==
    ASSUME NEW keys, FromLine(Obj(keys)).read = "message", FromLine(Obj(keys)).message.type = "targets"
    PROVE  LET read == FromLine(Obj(keys)).message.targets
               items == keys["targets"].items
           IN /\ read = [j \in DOMAIN items |-> TargetRead(items[j])]
              /\ \A i \in DOMAIN read : ("lat" \in DOMAIN read[i]) = ("lon" \in DOMAIN read[i])
<1> DEFINE after == FromLine(Obj(keys))
           list == keys["targets"]
           read == [j \in DOMAIN list.items |-> TargetRead(list.items[j])]
<1>1. \A o : Message(o).read = "message" /\ Message(o).message = o
  BY DEF Message
<1>2. after \in {Ignored, NotJson, Hello(keys), State(keys), Targets(keys)}
         \/ \E found : after = OtherVersion(found)
  BY DEF FromLine, Obj
<1>3. after = Targets(keys)
  <2>1. Ignored.read # "message" /\ NotJson.read # "message" /\ \A x : OtherVersion(x).read # "message"
    BY DEF Ignored, NotJson, OtherVersion
  <2>2. Hello(keys).read = "message" => Hello(keys).message.type = "hello"
    BY <1>1, <2>1 DEF Hello
  <2>3. State(keys).read = "message" => State(keys).message.type = "state"
    BY <1>1, <2>1 DEF State
  <2> HIDE DEF after
  <2>4. after.read = "message" /\ after.message.type = "targets"
    BY DEF after
  <2> QED
    BY <1>2, <2>1, <2>2, <2>3, <2>4
<1>4. /\ after = Message([type |-> "targets", targets |-> read])
      /\ \A j \in DOMAIN list.items : TargetFits(list.items[j])
  <2>1. Targets(keys) # NotJson
    <3>1. NotJson.read # "message" /\ after.read = "message"
      BY DEF NotJson
    <3> HIDE DEF after
    <3> QED
      BY <1>3, <3>1
  <2> HIDE DEF after
  <2>2. Targets(keys) = IF "targets" \notin DOMAIN keys THEN NotJson
                        ELSE IF list.t # "arr" THEN NotJson
                        ELSE IF \E j \in DOMAIN list.items : ~TargetFits(list.items[j]) THEN NotJson
                        ELSE Message([type |-> "targets", targets |-> read])
    BY DEF Targets
  <2> HIDE DEF list, read
  <2> QED
    BY <1>3, <2>1, <2>2
<1>5. after.message.targets = read
  <2> HIDE DEF list
  <2> QED
    BY <1>1, <1>4
<1>6. ASSUME NEW i \in DOMAIN list.items PROVE ("lat" \in DOMAIN read[i]) = ("lon" \in DOMAIN read[i])
  <2> DEFINE o == list.items[i]
  <2>1. read[i] = TargetRead(o) /\ TargetFits(o)
    BY <1>4
  <2> HIDE DEF o, list
  <2>2. ("lat" \in DOMAIN TargetRead(o)) = ("lat" \in DOMAIN o.keys /\ o.keys["lat"] # Null)
    BY DEF TargetRead, TargetTypes
  <2>3. ("lon" \in DOMAIN TargetRead(o)) = ("lon" \in DOMAIN o.keys /\ o.keys["lon"] # Null)
    BY DEF TargetRead, TargetTypes
  <2>4. ("lat" \in DOMAIN o.keys /\ o.keys["lat"] # Null) = ("lon" \in DOMAIN o.keys /\ o.keys["lon"] # Null)
    BY <2>1 DEF TargetFits
  <2> QED
    BY <2>1, <2>2, <2>3, <2>4
<1>7. DOMAIN read = DOMAIN list.items
  OBVIOUS
<1>8. \A i \in DOMAIN read : ("lat" \in DOMAIN read[i]) = ("lon" \in DOMAIN read[i])
  <2> HIDE DEF read, list
  <2> QED
    BY <1>6, <1>7
<1> HIDE DEF after
<1> QED
  BY <1>5, <1>8 DEF after

(* A target with a key altered, if it is read, is what it was but for that. *)
LEMMA AlteredTarget ==
    ASSUME NEW kept, NEW k, NEW v
    PROVE  But(TargetRead(Altered(Obj(kept), k, v)), k) = But(TargetRead(Obj(kept)), k)
<1> DEFINE altered == Altered(Obj(kept), k, v)
           keys == altered.keys
<1>1. altered = Obj(keys) /\ \A j : j # k => Alike(keys, kept, j)
  BY AlteredIs
<1> HIDE DEF altered
<1>2. \A o : Obj(o).keys = o
  BY DEF Obj
<1> DEFINE a == TargetRead(Obj(keys))
           b == TargetRead(Obj(kept))
<1>3. \A j : j # k => Alike(a, b, j)
  <2> SUFFICES ASSUME NEW j, j # k PROVE Alike(a, b, j)
    OBVIOUS
  <2> HIDE DEF keys
  <2>1. Alike(keys, kept, j)
    BY <1>1
  <2> QED
    BY <1>2, <2>1 DEF TargetRead, Alike
<1> HIDE DEF a, b
<1>4. But(a, k) = But(b, k)
  BY <1>3, ButIs
<1> QED
  BY <1>1, <1>4 DEF a, b, altered

(* Targets with a key altered are as they were but for that, or are not read. *)
LEMMA AlteredTargets ==
    ASSUME NEW m \in HubMessages, m.type = "targets",
           NEW where \in {"message", "fix", "sources", "targets"},
           NEW i \in Objects(ToLine(m), where), NEW k \in KeysAt(where), NEW v,
           NEW line, line = AlteredLine(ToLine(m), where, i, k, v),
           NEW it, it.where = where, it.at = i, it.key = k
    PROVE  TargetsAreRead(FromLine(ToLine(m)), FromLine(line), it)
<1> DEFINE keys == ToLine(m).keys
           now == line.keys
           before == FromLine(ToLine(m))
           after == FromLine(line)
           other == AlteredLine(Obj(keys), where, i, k, v)
<1>1. /\ ToLine(m) = Obj(keys) /\ {"v", "type"} \subseteq DOMAIN keys
      /\ keys["v"] = Integer(VERSION) /\ keys["type"] = Str("targets")
      /\ "targets" \in DOMAIN keys => keys["targets"] = Arr(AllKept(m.targets, TargetTypes))
  BY HubsLine
<1> HIDE DEF keys
<1>2. /\ other = Obj(other.keys)
      /\ Alike(other.keys, keys, "v") /\ Alike(other.keys, keys, "type")
      /\ where = "targets" => /\ other.keys["targets"] = AlteredAt(keys["targets"], i, k, v)
                              /\ "targets" \in DOMAIN keys
  <2>1. i \in Objects(Obj(keys), where)
    BY <1>1
  <2>2. LineAltered(other, keys, where, i, k, v)
    BY <2>1, AlteredLineIs
  <2> HIDE DEF other
  <2> QED
    BY <2>2 DEF LineAltered
<1>3. line = other
  BY <1>1
<1> HIDE DEF other
<1>4. line = Obj(now) /\ {"v", "type"} \subseteq DOMAIN now /\ now["v"] = Integer(VERSION)
      /\ now["type"] = Str("targets")
  BY <1>1, <1>2, <1>3 DEF Alike
<1>5. after = Targets(now) /\ before = Targets(keys)
  <2> HIDE DEF now
  <2> QED
    BY <1>1, <1>4, ReadByType
<1>6. \A o : Message(o).read = "message" /\ Message(o).message = o
  BY DEF Message
<1>7. after.read = "message" => after.message.type = "targets"
  <2>1. NotJson.read # "message"
    BY DEF NotJson
  <2> HIDE DEF after, now
  <2> QED
    BY <1>5, <1>6, <2>1 DEF Targets
<1> SUFFICES ASSUME after.read = "message" PROVE TargetsAreRead(before, after, it)
  BY DEF TargetsAreRead
<1> DEFINE targets == after.message.targets
<1>8. /\ targets = [j \in DOMAIN now["targets"].items |-> TargetRead(now["targets"].items[j])]
      /\ \A j \in DOMAIN targets : ("lat" \in DOMAIN targets[j]) = ("lon" \in DOMAIN targets[j])
  <2>1. after = FromLine(Obj(now))
    BY <1>4
  <2> HIDE DEF after, now
  <2> QED
    BY <1>7, <2>1, TargetsAreWhole
<1>9. where = "targets" => OneIsAltered(before.message.targets, targets, i, k)
  <2> SUFFICES ASSUME where = "targets" PROVE OneIsAltered(before.message.targets, targets, i, k)
    OBVIOUS
  <2> DEFINE list == AllKept(m.targets, TargetTypes)
             changed == [list EXCEPT ![i] = Altered(list[i], k, v)]
             was == before.message.targets
  <2>1. keys["targets"] = Arr(list) /\ Arr(list).items = list
    BY <1>1, <1>2 DEF Arr
  <2>2. now["targets"].items = changed
    BY <1>2, <1>3, <2>1 DEF AlteredAt, Arr
  <2>3. i \in DOMAIN list
    <3>1. i \in DOMAIN keys["targets"].items
      BY <1>2 DEF Objects, keys
    <3> QED
      BY <2>1, <3>1
  <2>4. before.read = "message" /\ before.message.type = "targets"
    <3>1. before = Message(Sent(m))
      BY TargetsAsSent
    <3>2. m = [type |-> "targets", targets |-> m.targets]
      BY MessagesAssumption
    <3>3. Sent(m).type = "targets"
      BY <3>2 DEF Sent
    <3> HIDE DEF before
    <3> QED
      BY <1>6, <3>1, <3>3
  <2>5. was = [j \in DOMAIN list |-> TargetRead(list[j])]
    <3>1. before = FromLine(Obj(keys))
      BY <1>1
    <3> HIDE DEF before, list
    <3>2. before.message.targets = [j \in DOMAIN keys["targets"].items |-> TargetRead(keys["targets"].items[j])]
      BY <2>4, <3>1, TargetsAreWhole
    <3> QED
      BY <2>1, <3>2
  <2>6. targets = [j \in DOMAIN changed |-> TargetRead(changed[j])]
    <3> HIDE DEF changed, now, after
    <3> QED
      BY <1>8, <2>2
  <2>7. But(TargetRead(changed[i]), k) = But(TargetRead(list[i]), k)
    <3>1. list[i] = Obj(Kept(m.targets[i], TargetTypes)) /\ changed[i] = Altered(list[i], k, v)
      BY <2>3 DEF AllKept
    <3> HIDE DEF list, changed
    <3> QED
      BY <3>1, AlteredTarget
  <2> HIDE DEF list, was, targets
  <2>8. /\ DOMAIN targets = DOMAIN was /\ targets[i] = TargetRead(changed[i]) /\ was[i] = TargetRead(list[i])
        /\ \A j \in DOMAIN was \ {i} : targets[j] = was[j]
    BY <2>3, <2>5, <2>6
  <2> QED
    BY <2>7, <2>8 DEF OneIsAltered, was
<1> HIDE DEF after, before, now, targets
<1> QED
  BY <1>7, <1>8, <1>9 DEF TargetsAreRead, targets

(* A key that a kind of message has none of changes nothing of it. *)
LEMMA UnreadKey ==
    ASSUME NEW m \in HubMessages, NEW k \in KeysAt("message"), k \notin KeysOf(m.type), NEW i, NEW v
    PROVE  FromLine(AlteredLine(ToLine(m), "message", i, k, v)) = FromLine(ToLine(m))
<1> DEFINE keys == ToLine(m).keys
           altered == Altered(Obj(keys), k, v)
           now == altered.keys
<1>1. /\ ToLine(m) = Obj(keys) /\ m.type \in {"hello", "state", "targets"}
      /\ {"v", "type"} \subseteq DOMAIN keys
      /\ keys["v"] = Integer(VERSION) /\ keys["type"] = Str(m.type)
  BY HubsLine
<1> HIDE DEF keys
<1>2. AlteredLine(ToLine(m), "message", i, k, v) = altered
  BY <1>1 DEF AlteredLine
<1>3. altered = Obj(now) /\ \A j : j # k => Alike(now, keys, j)
  BY AlteredIs
<1> HIDE DEF altered
<1>4. k # "v" /\ k # "type"
  BY DEF KeysAt
<1>5. {"v", "type"} \subseteq DOMAIN now /\ now["v"] = Integer(VERSION) /\ now["type"] = Str(m.type)
  BY <1>1, <1>3, <1>4 DEF Alike
<1> HIDE DEF now
<1>6. CASE m.type = "hello"
  <2>1. k # "keel"
    BY <1>6 DEF KeysOf
  <2>2. Hello(now) = Hello(keys)
    BY <1>3, <2>1 DEF Hello, Get, Alike
  <2> QED
    BY <1>1, <1>2, <1>3, <1>5, <1>6, <2>2, ReadByType
<1>7. CASE m.type = "state"
  <2>1. k # "fix" /\ k # "sources"
    BY <1>7 DEF KeysOf
  <2>2. SourcesRead(now) = SourcesRead(keys)
    BY <1>3, <2>1 DEF SourcesRead, Alike
  <2>3. State(now) = State(keys)
    BY <1>3, <2>1, <2>2 DEF State, Alike
  <2> QED
    BY <1>1, <1>2, <1>3, <1>5, <1>7, <2>3, ReadByType
<1>8. CASE m.type = "targets"
  <2>1. k # "targets"
    BY <1>8 DEF KeysOf
  <2>2. Targets(now) = Targets(keys)
    BY <1>3, <2>1 DEF Targets, Alike
  <2> QED
    BY <1>1, <1>2, <1>3, <1>5, <1>8, <2>2, ReadByType
<1> QED
  BY <1>1, <1>6, <1>7, <1>8

(* An altered message picked is one of some message of the hub. *)
LEMMA AnAlteredMessageIsNeverMisread == AnAlteredMessage => NeverMisread'
<1> SUFFICES ASSUME AnAlteredMessage PROVE NeverMisread'
  OBVIOUS
<1>1. PICK m \in HubMessages, where \in {"message", "fix", "sources", "targets"},
           v \in {Absent} \cup {Present(x) : x \in Values} :
        \E k \in KeysAt(where), i \in Objects(ToLine(m), where) :
            input' = [what |-> "altered", message |-> m, where |-> where, at |-> i, key |-> k,
                      line |-> AlteredLine(ToLine(m), where, i, k, v)]
  BY DEF AnAlteredMessage
<1>2. PICK k \in KeysAt(where), i \in Objects(ToLine(m), where) :
            input' = [what |-> "altered", message |-> m, where |-> where, at |-> i, key |-> k,
                      line |-> AlteredLine(ToLine(m), where, i, k, v)]
  BY <1>1
<1> DEFINE line == AlteredLine(ToLine(m), where, i, k, v)
           before == FromLine(ToLine(m))
           after == FromLine(line)
           stated == line.keys["fix"].keys
<1>3. /\ input'.message = m /\ input'.where = where /\ input'.key = k /\ input'.at = i
      /\ input'.line = line
  BY <1>2
<1>4. v = Absent \/ v[1] \in Values
  BY DEF Present
<1>5. k = "later" \/ (where = "message" /\ k \notin KeysOf(m.type)) => after = before
  BY LaterKey, UnreadKey
<1> HIDE DEF line
<1>6. m.type = "state" /\ "fix" \in DOMAIN line.keys => StateIsRead(before, after, stated, input')
  BY <1>3, <1>4, AlteredState DEF line
<1>7. m.type = "targets" => TargetsAreRead(before, after, input')
  BY <1>3, AlteredTargets DEF line
<1>8. /\ FromLine(ToLine(input'.message)) = before /\ FromLine(input'.line) = after
      /\ input'.line.keys["fix"].keys = stated
  BY <1>3
<1> HIDE DEF before, after, stated
<1> QED
  BY <1>3, <1>5, <1>6, <1>7, <1>8 DEF NeverMisread

-----------------------------------------------------------------------------
(* Powers of ten, as many as a field asks for. *)
LEMMA TensAre ==
    ASSUME NEW n \in 0..3
    PROVE  TenTo(n) = IF n = 0 THEN 1 ELSE IF n = 1 THEN 10 ELSE IF n = 2 THEN 100 ELSE 1000
<1> DEFINE g == [i \in 0..n |-> IF i = 0 THEN 1 ELSE IF i = 1 THEN 10 ELSE IF i = 2 THEN 100 ELSE 1000]
           f == CHOOSE power : power = [i \in 0..n |-> IF i = 0 THEN 1 ELSE 10 * power[i - 1]]
<1>1. g = [i \in 0..n |-> IF i = 0 THEN 1 ELSE 10 * g[i - 1]]
  <2>1. \A i \in 0..n : g[i] = IF i = 0 THEN 1 ELSE 10 * g[i - 1]
    OBVIOUS
  <2> QED
    BY <2>1
<1>2. f = [i \in 0..n |-> IF i = 0 THEN 1 ELSE 10 * f[i - 1]]
  <2> HIDE DEF g
  <2>1. \E h : h = [i \in 0..n |-> IF i = 0 THEN 1 ELSE 10 * h[i - 1]]
    BY <1>1
  <2> QED
    BY <2>1, Zenon
<1>3. TenTo(n) = f[n]
  BY DEF TenTo
<1> HIDE DEF f
<1>4. \A i \in 0..n : f[i] = IF i = 0 THEN 1 ELSE 10 * f[i - 1]
  BY <1>2
<1> HIDE DEF g
<1>5. f[0] = 1
  BY <1>4
<1>6. n >= 1 => f[1] = 10
  BY <1>4, <1>5
<1>7. n >= 2 => f[2] = 100
  BY <1>4, <1>6
<1>8. n >= 3 => f[3] = 1000
  BY <1>4, <1>7
<1> QED
  BY <1>3, <1>5, <1>6, <1>7, <1>8

(* The number of two digits, and of three. *)
LEMMA WholeIs ==
    ASSUME NEW s, NEW n \in 2..3, Len(s) = n, \A i \in 1..n : Hex[s[i]] \in Nat
    PROVE  Whole(s) = IF n = 2 THEN 10 * Hex[s[1]] + Hex[s[2]]
                      ELSE 100 * Hex[s[1]] + 10 * Hex[s[2]] + Hex[s[3]]
<1> DEFINE g == [i \in 0..n |->
                    IF i = 0 THEN 0
                    ELSE IF i = 1 THEN 10 * 0 + Hex[s[1]]
                    ELSE IF i = 2 THEN 10 * (10 * 0 + Hex[s[1]]) + Hex[s[2]]
                    ELSE 10 * (10 * (10 * 0 + Hex[s[1]]) + Hex[s[2]]) + Hex[s[3]]]
           f == CHOOSE h : h = [i \in 0..n |-> IF i = 0 THEN 0 ELSE 10 * h[i - 1] + Hex[s[i]]]
<1>1. g = [i \in 0..n |-> IF i = 0 THEN 0 ELSE 10 * g[i - 1] + Hex[s[i]]]
  <2>1. \A i \in 0..n : g[i] = IF i = 0 THEN 0 ELSE 10 * g[i - 1] + Hex[s[i]]
    OBVIOUS
  <2> QED
    BY <2>1
<1>2. f = [i \in 0..n |-> IF i = 0 THEN 0 ELSE 10 * f[i - 1] + Hex[s[i]]]
  <2> HIDE DEF g
  <2>1. \E h : h = [i \in 0..n |-> IF i = 0 THEN 0 ELSE 10 * h[i - 1] + Hex[s[i]]]
    BY <1>1
  <2> QED
    BY <2>1, Zenon
<1>3. Whole(s) = f[n]
  BY DEF Whole
<1> HIDE DEF f
<1>4. \A i \in 0..n : f[i] = IF i = 0 THEN 0 ELSE 10 * f[i - 1] + Hex[s[i]]
  BY <1>2
<1> HIDE DEF g
<1>5. f[0] = 0
  BY <1>4
<1>6. f[1] = Hex[s[1]]
  BY <1>4, <1>5
<1>7. f[2] = 10 * Hex[s[1]] + Hex[s[2]]
  BY <1>4, <1>6
<1>8. n = 3 => f[3] = 100 * Hex[s[1]] + 10 * Hex[s[2]] + Hex[s[3]]
  BY <1>4, <1>7
<1> QED
  BY <1>3, <1>7, <1>8

(* A digit is written as itself, and no other sign is a digit. *)
LEMMA DigitReads ==
    /\ \A k \in 0..9 : Digit[1 + k] \in Range(Digit) /\ Hex[Digit[1 + k]] = k
    /\ \A c \in Range(Digit) : c \in DOMAIN Hex
    /\ "." \notin Range(Digit)
<1>1. \A k \in 0..9 : Digit[1 + k] = HexDigit(k)
  BY DEF Digit, HexDigit, HexUpper
<1>2. DOMAIN Digit = 1..10
  BY DEF Digit
<1>3. \A c \in Range(Digit) : \E k \in 0..9 : c = Digit[1 + k]
  <2>1. \A c \in Range(Digit) : \E i \in 1..10 : c = Digit[i]
    BY <1>2 DEF Range
  <2>2. \A i \in 1..10 : i - 1 \in 0..9 /\ 1 + (i - 1) = i
    OBVIOUS
  <2> QED
    BY <2>1, <2>2
<1>4. \A k \in 0..9 : Digit[1 + k] \in Range(Digit)
  BY <1>2 DEF Range
<1>5. \A k \in 0..9 : HexDigit(k) \in DOMAIN Hex /\ Hex[HexDigit(k)] = k
  <2>1. \A k \in 0..9 : k \in 0..15
    OBVIOUS
  <2> QED
    BY <2>1, HexReads, Zenon
<1>6. \A i \in 1..10 : Digit[i] # "."
  BY DEF Digit
<1>7. "." \notin Range(Digit)
  BY <1>2, <1>6 DEF Range
<1> QED
  BY <1>1, <1>3, <1>4, <1>5, <1>7

(* A text of digits alone is a number. *)
LEMMA OnlyDigits ==
    ASSUME NEW s \in Seq(Range(Digit)), Len(s) > 0
    PROVE  Digits(s)
<1>1. \A c \in Range(s) : c \in Range(Digit)
  <2>1. \A c \in Range(s) : \E i \in 1..Len(s) : c = s[i]
    BY DEF Range
  <2> QED
    BY <2>1, ElementOfSeq
<1>2. s # <<>>
  OBVIOUS
<1> QED
  BY <1>1, <1>2 DEF Digits, All

(* A text of digits, and what it tells. *)
Tells(p, width, n) == p \in Seq(Range(Digit)) /\ Len(p) = width /\ Whole(p) = n

(* A number written with leading zeros reads as itself. *)
LEMMA PaddedReads ==
    ASSUME NEW width \in 2..3, NEW n \in 0..999, width = 2 => n < 100
    PROVE  Tells(Padded(n, width), width, n)
<1> DEFINE p == Padded(n, width)
           digit(i) == (n \div TenTo(width - i)) % 10
<1>1. p = [i \in 1..width |-> Digit[1 + digit(i)]]
  BY DEF Padded
<1>2. TenTo(0) = 1 /\ TenTo(1) = 10 /\ TenTo(2) = 100
  BY TensAre
<1>3. width = 2 => digit(1) = (n \div 10) % 10 /\ digit(2) = n % 10
  <2>1. width = 2 => width - 1 = 1 /\ width - 2 = 0 /\ n \div 1 = n
    OBVIOUS
  <2> QED
    BY <1>2, <2>1
<1>4. width = 3 => digit(1) = (n \div 100) % 10 /\ digit(2) = (n \div 10) % 10 /\ digit(3) = n % 10
  <2>1. width = 3 => width - 1 = 2 /\ width - 2 = 1 /\ width - 3 = 0 /\ n \div 1 = n
    OBVIOUS
  <2> QED
    BY <1>2, <2>1
<1>5. \A i \in 1..width : digit(i) \in 0..9
  <2>1. ((n \div 10) % 10) \in 0..9 /\ (n % 10) \in 0..9 /\ ((n \div 100) % 10) \in 0..9
    OBVIOUS
  <2>2. \A i \in 1..width : i \in {1, 2, 3} /\ (width = 2 => i # 3)
    OBVIOUS
  <2> HIDE DEF digit
  <2> QED
    BY <1>3, <1>4, <2>1, <2>2
<1>6. width = 2 => 10 * digit(1) + digit(2) = n
  <2>1. width = 2 => 10 * ((n \div 10) % 10) + (n % 10) = n
    OBVIOUS
  <2> HIDE DEF digit
  <2> QED
    BY <1>3, <2>1
<1>7. width = 3 => 100 * digit(1) + 10 * digit(2) + digit(3) = n
  <2>1. 100 * ((n \div 100) % 10) + 10 * ((n \div 10) % 10) + (n % 10) = n
    OBVIOUS
  <2> HIDE DEF digit
  <2> QED
    BY <1>4, <2>1
<1> HIDE DEF digit, p
<1>8. \A i \in 1..width : p[i] \in Range(Digit) /\ Hex[p[i]] = digit(i)
  BY <1>1, <1>5, DigitReads
<1>9. DOMAIN p = 1..width /\ Len(p) = width /\ p \in Seq(Range(Digit))
  <2>1. p \in [1..width -> Range(Digit)]
    BY <1>1, <1>8
  <2> QED
    BY <2>1
<1>10. Whole(p) = n
  <2>1. \A i \in 1..width : Hex[p[i]] \in Nat
    BY <1>5, <1>8
  <2>2. Whole(p) = IF width = 2 THEN 10 * Hex[p[1]] + Hex[p[2]]
                   ELSE 100 * Hex[p[1]] + 10 * Hex[p[2]] + Hex[p[3]]
    BY <1>9, <2>1, WholeIs
  <2>3. 1 \in 1..width /\ 2 \in 1..width /\ (width = 3 => 3 \in 1..width) /\ (width = 2 \/ width = 3)
    OBVIOUS
  <2> QED
    BY <1>6, <1>7, <1>8, <2>2, <2>3
<1> QED
  BY <1>9, <1>10 DEF p, Tells

-----------------------------------------------------------------------------
(* So many characters of s behind the m-th. *)
IsCut(t, S, s, m, k) == t \in Seq(S) /\ Len(t) = k /\ \A i \in 1..k : t[i] = s[m + i]

(* What SubSeq gives is such a cut. *)
LEMMA CutIs ==
    ASSUME NEW S, NEW s \in Seq(S), NEW m \in Nat, NEW k \in Nat, m + k <= Len(s),
           NEW a \in Int, NEW b \in Int, a = m + 1, b = m + k
    PROVE  IsCut(SubSeq(s, a, b), S, s, m, k)
<1> DEFINE t == SubSeq(s, a, b)
<1>1. \A i \in a..b : s[i] \in S
  <2>1. \A i \in a..b : i \in 1..Len(s)
    BY LenProperties
  <2> QED
    BY <2>1, ElementOfSeq
<1>2. /\ t \in Seq(S) /\ Len(t) = IF a <= b THEN b - a + 1 ELSE 0
      /\ \A i \in 1..(b - a + 1) : t[i] = s[a + i - 1]
  BY <1>1, SubSeqProperties
<1> HIDE DEF t
<1>3. Len(t) = k /\ b - a + 1 = k
  BY <1>2
<1>4. \A i \in 1..k : t[i] = s[m + i]
  <2>1. \A i \in 1..k : i \in 1..(b - a + 1) /\ a + i - 1 = m + i
    BY <1>3
  <2> QED
    BY <1>2, <2>1
<1> QED
  BY <1>2, <1>3, <1>4 DEF IsCut, t

(* There is one such cut. *)
LEMMA CutsAgree ==
    ASSUME NEW S, NEW s, NEW m, NEW k \in Nat, NEW t, NEW p,
           IsCut(t, S, s, m, k), IsCut(p, S, s, m, k)
    PROVE  t = p
<1>1. t \in Seq(S) /\ p \in Seq(S) /\ Len(t) = Len(p) /\ \A i \in 1..Len(t) : t[i] = p[i]
  BY DEF IsCut
<1> QED
  BY <1>1, SeqEqual

(* Three fields, one behind the other. *)
IsOfThree(s, S, p, q, r) ==
    /\ s \in Seq(S) /\ Len(s) = Len(p) + Len(q) + Len(r)
    /\ \A i \in 1..Len(p) : s[i] = p[i]
    /\ \A i \in 1..Len(q) : s[Len(p) + i] = q[i]
    /\ \A i \in 1..Len(r) : s[Len(p) + Len(q) + i] = r[i]

(* Joined they are that. *)
LEMMA ThreeJoined ==
    ASSUME NEW S, NEW p \in Seq(S), NEW q \in Seq(S), NEW r \in Seq(S)
    PROVE  IsOfThree(p \o q \o r, S, p, q, r)
<1> DEFINE u == p \o q
           s == u \o r
<1>1. u \in Seq(S) /\ Joined(p, q)
  BY JoinedIs
<1>2. s \in Seq(S) /\ Joined(u, r)
  BY <1>1, JoinedIs
<1>3. Len(u) = Len(p) + Len(q) /\ \A i \in 1..Len(p) : u[i] = p[i]
  BY <1>1 DEF Joined
<1>4. \A i \in 1..Len(q) : u[Len(p) + i] = q[i]
  BY <1>1 DEF Joined
<1>5. Len(s) = Len(u) + Len(r) /\ \A i \in 1..Len(u) : s[i] = u[i]
  BY <1>2 DEF Joined
<1>6. \A i \in 1..Len(r) : s[Len(u) + i] = r[i]
  BY <1>2 DEF Joined
<1>7. Len(p) \in Nat /\ Len(q) \in Nat /\ Len(r) \in Nat
  BY LenProperties
<1> HIDE DEF u, s
<1>8. \A i \in 1..Len(p) : s[i] = p[i]
  BY <1>3, <1>5, <1>7
<1>9. \A i \in 1..Len(q) : s[Len(p) + i] = q[i]
  <2>1. \A i \in 1..Len(q) : Len(p) + i \in 1..Len(u)
    BY <1>3, <1>7
  <2> QED
    BY <1>4, <1>5, <2>1
<1> QED
  BY <1>2, <1>3, <1>5, <1>6, <1>8, <1>9 DEF IsOfThree, u, s

(* A text with another sign than digits is no number. *)
LEMMA NoDigits ==
    ASSUME NEW C, NEW s \in Seq(C), NEW i \in 1..Len(s), s[i] \notin Range(Digit)
    PROVE  ~Digits(s)
<1>1. s[i] \in Range(s)
  BY LenProperties DEF Range
<1> QED
  BY <1>1 DEF Digits, All

(* Where the point is, and where the digits are. *)
Signs == Range(Digit) \cup {"."}
IsPointed(v, d, n) ==
    /\ v \in Seq(Signs) /\ Len(v) = Len(d) + 1 /\ v[n + 1] = "."
    /\ \A i \in 1..n : v[i] = d[i]
    /\ \A i \in (n + 1)..Len(d) : v[i + 1] = d[i]

(* WithPoint puts it there. *)
LEMMA WithPointIs ==
    ASSUME NEW d \in Seq(Range(Digit)), NEW n \in Nat, n <= Len(d)
    PROVE  IsPointed(WithPoint(d, n), d, n)
<1> DEFINE u == SubSeq(d, 1, n) w == SubSeq(d, n + 1, Len(d)) v == WithPoint(d, n)
           l == Len(d) - n
           dot == <<".">>
<1>1. d \in Seq(Signs) /\ Len(d) \in Nat /\ l \in Nat
  <2>1. Range(Digit) \subseteq Signs
    BY DEF Signs
  <2>2. Len(d) \in Nat
    BY LenProperties
  <2> QED
    BY <2>1, <2>2
<1>2. dot \in Seq(Signs) /\ Len(dot) = 1 /\ dot[1] = "."
  <2>1. "." \in Signs
    BY DEF Signs
  <2> QED
    BY <2>1
<1>3. IsCut(u, Signs, d, 0, n)
  <2>1. 1 = 0 + 1 /\ n = 0 + n /\ 0 + n <= Len(d) /\ 0 \in Nat /\ 1 \in Int /\ n \in Int
    OBVIOUS
  <2> QED
    BY <1>1, <2>1, CutIs, Zenon
<1>4. IsCut(w, Signs, d, n, l)
  <2>1. Len(d) = n + l /\ n + l <= Len(d) /\ n + 1 \in Int /\ Len(d) \in Int
    BY <1>1
  <2> QED
    BY <1>1, <2>1, CutIs, Zenon
<1>5. v = u \o dot \o w
  <2>1. ~(n > Len(d))
    BY <1>1
  <2> QED
    BY <2>1, Zenon DEF WithPoint
<1>6. u \in Seq(Signs) /\ w \in Seq(Signs) /\ Len(u) = n /\ Len(w) = l
  BY <1>3, <1>4 DEF IsCut
<1> HIDE DEF u, w, v, dot
<1>7. IsOfThree(v, Signs, u, dot, w)
  BY <1>2, <1>5, <1>6, ThreeJoined
<1>8. v \in Seq(Signs) /\ Len(v) = n + 1 + l
  BY <1>2, <1>6, <1>7 DEF IsOfThree
<1>9. \A i \in 1..n : v[i] = d[i]
  <2>1. \A i \in 1..n : v[i] = u[i]
    BY <1>6, <1>7 DEF IsOfThree
  <2>2. \A i \in 1..n : u[i] = d[0 + i] /\ 0 + i = i
    BY <1>3 DEF IsCut
  <2> QED
    BY <2>1, <2>2
<1>10. v[n + 1] = "."
  BY <1>2, <1>6, <1>7 DEF IsOfThree
<1>11. \A i \in (n + 1)..Len(d) : v[i + 1] = d[i]
  <2> SUFFICES ASSUME NEW i \in (n + 1)..Len(d) PROVE v[i + 1] = d[i]
    OBVIOUS
  <2>1. i - n \in 1..l /\ i + 1 = n + 1 + (i - n) /\ n + (i - n) = i
    BY <1>1
  <2>2. v[n + 1 + (i - n)] = w[i - n]
    BY <1>2, <1>6, <1>7, <2>1 DEF IsOfThree
  <2>3. w[i - n] = d[n + (i - n)]
    BY <1>4, <2>1 DEF IsCut
  <2> QED
    BY <2>1, <2>2, <2>3
<1>12. Len(v) = Len(d) + 1
  BY <1>1, <1>8
<1> QED
  BY <1>8, <1>9, <1>10, <1>11, <1>12 DEF IsPointed, v

(* An angle whose point is anywhere but behind the minutes is none. *)
LEMMA MisplacedPoint ==
    ASSUME NEW D \in 2..3, NEW d \in Seq(Range(Digit)), Len(d) = D + 5, NEW n \in Nat, n # D + 2,
           NEW h, NEW signs, NEW max
    PROVE  Coord(WithPoint(d, n), h, D, signs, max) = None
<1> DEFINE v == WithPoint(d, n)
           degrees == SubSeq(v, 1, D)
           whole == SubSeq(v, D + 1, D + 2)
           decimals == SubSeq(v, D + 3, Len(v))
           rest == Len(v) - (D + 2)
<1>1. ~Digits(degrees) \/ ~Digits(whole) \/ ~Fraction(decimals) => Coord(v, h, D, signs, max) = None
  BY DEF Coord
<1>2. n <= D + 5 => IsPointed(v, d, n)
  BY WithPointIs
<1>3. n > D + 5 => v = d
  BY DEF WithPoint
<1> HIDE DEF v
<1>4. v \in Seq(Signs) /\ (Len(v) = D + 5 \/ Len(v) = D + 6)
  <2>1. CASE n > D + 5
    <3>2. Range(Digit) \subseteq Signs
      BY DEF Signs
    <3> QED
      BY <1>3, <2>1, <3>2
  <2>2. CASE n <= D + 5
    BY <1>2, <2>2 DEF IsPointed
  <2> QED
    BY <2>1, <2>2
<1>5. "." \notin Range(Digit)
  BY DigitReads
<1>6. n <= D + 5 => v[n + 1] = "."
  BY <1>2 DEF IsPointed
<1>7. n > D + 2 => v[D + 3] \in Range(Digit)
  <2>1. D + 3 \in 1..Len(d)
    OBVIOUS
  <2>2. d[D + 3] \in Range(Digit)
    BY <2>1, ElementOfSeq
  <2>3. n > D + 2 /\ n <= D + 5 => v[D + 3] = d[D + 3]
    BY <1>2 DEF IsPointed
  <2> QED
    BY <1>3, <2>2, <2>3
<1>8. CASE n < D
  <2>1. IsCut(degrees, Signs, v, 0, D)
    <3>1. 1 = 0 + 1 /\ D = 0 + D /\ 0 + D <= Len(v) /\ 0 \in Nat /\ 1 \in Int /\ D \in Int /\ D \in Nat
      BY <1>4
    <3> QED
      BY <1>4, <3>1, CutIs, Zenon
  <2> HIDE DEF degrees
  <2>2. degrees \in Seq(Signs) /\ n + 1 \in 1..Len(degrees) /\ degrees[n + 1] = v[0 + (n + 1)]
    BY <1>8, <2>1 DEF IsCut
  <2>3. degrees[n + 1] \notin Range(Digit)
    <3>1. 0 + (n + 1) = n + 1
      OBVIOUS
    <3> QED
      BY <1>5, <1>6, <1>8, <2>2, <3>1
  <2>4. ~Digits(degrees)
    BY <2>2, <2>3, NoDigits
  <2> QED
    BY <1>1, <2>4 DEF v, degrees
<1>9. CASE n = D \/ n = D + 1
  <2>1. IsCut(whole, Signs, v, D, 2)
    <3>1. D + 2 <= Len(v) /\ D + 1 \in Int /\ D + 2 \in Int /\ 2 \in Nat /\ D \in Nat
      BY <1>4
    <3> QED
      BY <1>4, <3>1, CutIs, Zenon
  <2> HIDE DEF whole
  <2> DEFINE i == n + 1 - D
  <2>5. i \in 1..2 /\ D + i = n + 1
    BY <1>9
  <2> HIDE DEF i
  <2>2. whole \in Seq(Signs) /\ i \in 1..Len(whole) /\ whole[i] = v[n + 1]
    BY <2>1, <2>5 DEF IsCut
  <2>3. whole[i] \notin Range(Digit)
    BY <1>5, <1>6, <1>9, <2>2
  <2>4. ~Digits(whole)
    BY <2>2, <2>3, NoDigits
  <2> QED
    BY <1>1, <2>4 DEF v, whole
<1>10. CASE n > D + 2
  <2>1. IsCut(decimals, Signs, v, D + 2, rest)
    <3>1. /\ D + 3 = (D + 2) + 1 /\ Len(v) = (D + 2) + rest /\ (D + 2) + rest <= Len(v)
          /\ D + 2 \in Nat /\ rest \in Nat /\ D + 3 \in Int /\ Len(v) \in Int
      BY <1>4
    <3> QED
      BY <1>4, <3>1, CutIs, Zenon
  <2>2. rest \in Nat /\ rest >= 3 /\ D + 2 + 1 = D + 3
    BY <1>4
  <2> HIDE DEF decimals, rest
  <2>3. Len(decimals) = rest /\ decimals[1] = v[D + 2 + 1]
    BY <2>1, <2>2 DEF IsCut
  <2>4. decimals # <<>> /\ decimals[1] # "."
    <3>1. decimals # <<>>
      BY <2>2, <2>3
    <3> QED
      BY <1>5, <1>7, <1>10, <2>2, <2>3, <3>1
  <2>5. ~Fraction(decimals)
    BY <2>4 DEF Fraction
  <2> QED
    BY <1>1, <2>5 DEF v, decimals
<1> QED
  BY <1>8, <1>9, <1>10 DEF v

-----------------------------------------------------------------------------
(* How many degrees there are. *)
Extents == {90, 180}

(* Fields of an angle that tell what it is. *)
TheyTell(D, p, q, r, a) ==
    /\ Tells(p, D, a.degrees) /\ Tells(q, 2, a.minutes) /\ Tells(r, 3, a.thousandths)
    /\ a.degrees \in Nat /\ a.minutes \in Nat /\ a.thousandths \in Nat

(* With the point behind the second of them they are read as that. *)
LEMMA PointInPlace ==
    ASSUME NEW D \in 2..3, NEW p, NEW q, NEW r, NEW a, TheyTell(D, p, q, r, a),
           NEW max \in Extents, NEW h, NEW signs
    PROVE  Coord(WithPoint(p \o q \o r, D + 2), h, D, signs, max) =
              IF h \notin DOMAIN signs THEN None ELSE AngleRead(a, signs[h], max)
<1> DEFINE x == a.degrees y == a.minutes z == a.thousandths
           parts == TenTo(3)
           angle == (60 * x + y) * parts + z
<1>1. x \in Nat /\ y \in Nat /\ z \in Nat /\ max \in {90, 180}
  BY DEF TheyTell, Extents
<1>2. Tells(p, D, x) /\ Tells(q, 2, y) /\ Tells(r, 3, z)
  BY DEF TheyTell
<1>3. AngleRead(a, signs[h], max) =
         IF y < 60 /\ (60 * x + y) * 1000 + z <= 60000 * max
         THEN Some([minutes |-> signs[h] * ((60 * x + y) * 1000 + z), parts |-> 1000]) ELSE None
  BY DEF AngleRead
<1> HIDE DEF x, y, z
<1> DEFINE d == p \o q \o r
           v == WithPoint(d, D + 2)
           degrees == SubSeq(v, 1, D)
           whole == SubSeq(v, D + 1, D + 2)
           decimals == SubSeq(v, D + 3, Len(v))
           digits == Range(Digit)
<1>4. /\ p \in Seq(digits) /\ q \in Seq(digits) /\ r \in Seq(digits)
      /\ Len(p) = D /\ Len(q) = 2 /\ Len(r) = 3
      /\ Whole(p) = x /\ Whole(q) = y /\ Whole(r) = z
  BY <1>2 DEF Tells
<1> HIDE DEF digits
<1>5. IsOfThree(d, digits, p, q, r)
  BY <1>4, ThreeJoined
<1> HIDE DEF d
<1>6. /\ d \in Seq(digits) /\ Len(d) = D + 5
      /\ \A i \in 1..D : d[i] = p[i]
      /\ \A i \in 1..2 : d[D + i] = q[i]
      /\ \A i \in 1..3 : d[D + 2 + i] = r[i]
  <2>1. D + 2 + 3 = D + 5
    OBVIOUS
  <2> QED
    BY <1>4, <1>5, <2>1 DEF IsOfThree
<1>7. IsPointed(v, d, D + 2)
  <2>1. D + 2 \in Nat /\ D + 2 <= Len(d)
    BY <1>6
  <2> QED
    BY <1>6, <2>1, WithPointIs DEF digits
<1> HIDE DEF v
<1>8. v \in Seq(Signs) /\ Len(v) = D + 6 /\ v[D + 3] = "."
  <2>1. D + 2 + 1 = D + 3 /\ D + 5 + 1 = D + 6
    OBVIOUS
  <2> QED
    BY <1>6, <1>7, <2>1 DEF IsPointed
<1>9. digits \subseteq Signs
  BY DEF digits, Signs
<1>10. degrees = p
  <2>1. IsCut(degrees, Signs, v, 0, D)
    <3>1. 1 = 0 + 1 /\ D = 0 + D /\ 0 + D <= Len(v) /\ 0 \in Nat /\ 1 \in Int /\ D \in Int /\ D \in Nat
      BY <1>8
    <3> QED
      BY <1>8, <3>1, CutIs, Zenon
  <2>2. \A i \in 1..D : v[0 + i] = p[i]
    <3>1. \A i \in 1..D : 0 + i = i /\ i \in 1..(D + 2)
      OBVIOUS
    <3> QED
      BY <1>6, <1>7, <3>1 DEF IsPointed
  <2>3. p \in Seq(Signs) /\ D \in Nat /\ Len(p) = D
    BY <1>4, <1>9
  <2>4. IsCut(p, Signs, v, 0, D)
    BY <2>2, <2>3 DEF IsCut
  <2> HIDE DEF degrees
  <2> QED
    BY <2>1, <2>3, <2>4, CutsAgree
<1>11. whole = q
  <2>1. IsCut(whole, Signs, v, D, 2)
    <3>1. D + 2 <= Len(v) /\ D + 1 \in Int /\ D + 2 \in Int /\ 2 \in Nat /\ D \in Nat
      BY <1>8
    <3> QED
      BY <1>8, <3>1, CutIs, Zenon
  <2>2. \A i \in 1..2 : v[D + i] = q[i]
    <3>1. \A i \in 1..2 : D + i \in 1..(D + 2)
      OBVIOUS
    <3> QED
      BY <1>6, <1>7, <3>1 DEF IsPointed
  <2>3. q \in Seq(Signs) /\ 2 \in Nat /\ Len(q) = 2
    BY <1>4, <1>9
  <2>4. IsCut(q, Signs, v, D, 2)
    BY <2>2, <2>3 DEF IsCut
  <2> HIDE DEF whole
  <2> QED
    BY <2>1, <2>3, <2>4, CutsAgree
<1>12. IsCut(decimals, Signs, v, D + 2, 4)
  <2>1. /\ D + 3 = (D + 2) + 1 /\ Len(v) = (D + 2) + 4 /\ (D + 2) + 4 <= Len(v)
        /\ D + 2 \in Nat /\ 4 \in Nat /\ D + 3 \in Int /\ Len(v) \in Int
    BY <1>8
  <2> QED
    BY <1>8, <2>1, CutIs, Zenon
<1> HIDE DEF degrees, whole, decimals
<1>13. /\ decimals # <<>> /\ decimals \in Seq(Signs) /\ Len(decimals) = 4 /\ decimals[1] = "."
       /\ \A i \in 1..3 : decimals[i + 1] = r[i]
  <2>1. decimals \in Seq(Signs) /\ Len(decimals) = 4 /\ \A i \in 1..4 : decimals[i] = v[D + 2 + i]
    BY <1>12 DEF IsCut
  <2>2. D + 2 + 1 = D + 3 /\ 1 \in 1..4
    OBVIOUS
  <2>3. \A i \in 1..3 : decimals[i + 1] = r[i]
    <3> TAKE i \in 1..3
    <3>1. /\ i + 1 \in 1..4 /\ D + 2 + i \in (D + 2 + 1)..Len(d)
          /\ D + 2 + (i + 1) = (D + 2 + i) + 1
      BY <1>6
    <3>2. v[(D + 2 + i) + 1] = d[D + 2 + i]
      BY <1>7, <3>1 DEF IsPointed
    <3> QED
      BY <1>6, <2>1, <3>1, <3>2
  <2>4. decimals[1] = "."
    BY <1>8, <2>1, <2>2
  <2>5. decimals # <<>>
    <3>1. Len(decimals) = 4
      BY <2>1
    <3> QED
      BY <3>1
  <2> QED
    BY <2>1, <2>3, <2>4, <2>5, Zenon
<1>14. Tail(decimals) = r
  <2> DEFINE t == Tail(decimals)
  <2>1. t \in Seq(Signs) /\ Len(t) = 4 - 1 /\ \A i \in 1..Len(t) : t[i] = decimals[i + 1]
    BY <1>13, HeadTailProperties
  <2> HIDE DEF t
  <2>2. t \in Seq(Signs) /\ r \in Seq(Signs) /\ Len(t) = Len(r) /\ \A i \in 1..Len(t) : t[i] = r[i]
    BY <1>4, <1>9, <1>13, <2>1
  <2>3. t = r
    BY <2>2, SeqEqual
  <2> QED
    BY <2>3 DEF t
<1>15. Digits(p)
  <2>1. p \in Seq(Range(Digit)) /\ Len(p) > 0
    BY <1>4 DEF digits
  <2> QED
    BY <2>1, OnlyDigits
<1>16. Digits(q)
  <2>1. q \in Seq(Range(Digit)) /\ Len(q) > 0
    BY <1>4 DEF digits
  <2> QED
    BY <2>1, OnlyDigits
<1>17. Digits(r)
  <2>1. r \in Seq(Range(Digit)) /\ Len(r) > 0
    BY <1>4 DEF digits
  <2> QED
    BY <2>1, OnlyDigits
<1>18. Fraction(decimals)
  BY <1>13, <1>14, <1>17 DEF Fraction
<1>19. TenTo(Len(r)) = parts
  BY <1>4
<1> DEFINE places == IF decimals = <<>> THEN <<>> ELSE Tail(decimals)
           power == TenTo(Len(places))
           sum == (60 * Whole(degrees) + Whole(whole)) * power + Whole(places)
<1>20. Coord(v, h, D, signs, max) =
         IF Len(v) < D + 2 \/ ~Digits(degrees) \/ ~Digits(whole) \/ ~Fraction(decimals) THEN None
         ELSE IF Whole(whole) >= 60 \/ sum > 60 * max * power \/ h \notin DOMAIN signs
         THEN None
         ELSE Some([minutes |-> signs[h] * sum, parts |-> power])
  BY DEF Coord, degrees, whole, decimals
<1>21. places = r
  BY <1>13, <1>14
<1>22. power = parts /\ Whole(degrees) = x /\ Whole(whole) = y /\ Whole(places) = z
  BY <1>4, <1>10, <1>11, <1>19, <1>21
<1>23. sum = angle
  BY <1>22
<1> HIDE DEF power, sum, places
<1>24. ~(Len(v) < D + 2)
  BY <1>8
<1>25. Coord(v, h, D, signs, max) =
         IF Whole(whole) >= 60 \/ sum > 60 * max * power \/ h \notin DOMAIN signs
         THEN None
         ELSE Some([minutes |-> signs[h] * sum, parts |-> power])
  BY <1>10, <1>11, <1>15, <1>16, <1>18, <1>20, <1>24, Zenon
<1>26. parts = 1000
  BY TensAre
<1> HIDE DEF parts
<1>27. angle = (60 * x + y) * 1000 + z
  BY <1>26
<1> HIDE DEF angle
<1>28. y >= 60 \/ angle > 60 * max * parts <=> ~(y < 60 /\ angle <= 60000 * max)
  BY <1>1, <1>26, <1>27
<1>29. Coord(v, h, D, signs, max) =
         IF y >= 60 \/ angle > 60 * max * parts \/ h \notin DOMAIN signs
         THEN None
         ELSE Some([minutes |-> signs[h] * angle, parts |-> parts])
  BY <1>22, <1>23, <1>25, Zenon
<1>30. AngleRead(a, signs[h], max) =
         IF y < 60 /\ angle <= 60000 * max
         THEN Some([minutes |-> signs[h] * angle, parts |-> parts]) ELSE None
  BY <1>3, <1>26, <1>27
<1>31. Coord(v, h, D, signs, max) = IF h \notin DOMAIN signs THEN None ELSE AngleRead(a, signs[h], max)
  BY <1>28, <1>29, <1>30
<1> QED
  BY <1>31, Zenon DEF d, v

(* What two digits tell, and three. *)
UpTo99 == 0..99
UpTo999 == 0..999

(* A number of two digits reads as itself. *)
LEMMA TwoTell == \A n \in UpTo99 : Tells(Padded(n, 2), 2, n)
<1> SUFFICES ASSUME NEW n \in 0..99 PROVE Tells(Padded(n, 2), 2, n)
  BY DEF UpTo99
<1> DEFINE width == 2
<1>1. width \in 2..3 /\ n \in 0..999 /\ (width = 2 => n < 100)
  OBVIOUS
<1> HIDE DEF width
<1>2. Tells(Padded(n, width), width, n)
  BY <1>1, PaddedReads
<1> QED
  BY <1>2 DEF width

(* So does one of three. *)
LEMMA ThreeTell == \A n \in UpTo999 : Tells(Padded(n, 3), 3, n)
<1> SUFFICES ASSUME NEW n \in 0..999 PROVE Tells(Padded(n, 3), 3, n)
  BY DEF UpTo999
<1> DEFINE width == 3
<1>1. width \in 2..3 /\ (width = 2 => n < 100)
  OBVIOUS
<1> HIDE DEF width
<1>2. Tells(Padded(n, width), width, n)
  BY <1>1, PaddedReads
<1> QED
  BY <1>2 DEF width

(* An angle that the digits of a field have room for. *)
IsAngle(a, D) ==
    /\ a.degrees \in IF D = 2 THEN UpTo99 ELSE UpTo999
    /\ a.minutes \in UpTo99 /\ a.thousandths \in UpTo999

(* An angle as it is sent reads as itself if its point is in place, and else as none. *)
LEMMA AngleIsRead ==
    ASSUME NEW D \in 2..3, NEW a, IsAngle(a, D), NEW n \in Nat, NEW max \in Extents, NEW h, NEW signs
    PROVE  Coord(WithPoint(AngleDigits(a, D), n), h, D, signs, max) =
              IF n # D + 2 \/ h \notin DOMAIN signs THEN None ELSE AngleRead(a, signs[h], max)
<1> DEFINE x == a.degrees y == a.minutes z == a.thousandths
           p == Padded(x, D) q == Padded(y, 2) r == Padded(z, 3)
           d == p \o q \o r
<1> USE DEF IsAngle
<1>1. Tells(p, D, x)
  <2>1. D = 2 \/ D = 3
    OBVIOUS
  <2>2. CASE D = 2
    BY <2>2, TwoTell, Zenon
  <2>3. CASE D # 2
    <3>1. D = 3
      BY <2>1, <2>3
    <3>2. x \in UpTo999
      BY <2>3
    <3> QED
      BY <3>1, <3>2, ThreeTell, Zenon
  <2> QED
    BY <2>2, <2>3
<1>2. Tells(q, 2, y)
  BY TwoTell, Zenon
<1>3. Tells(r, 3, z)
  BY ThreeTell, Zenon
<1>4. AngleDigits(a, D) = d
  BY DEF AngleDigits
<1>5. x \in Nat /\ y \in Nat /\ z \in Nat
  <2>1. x \in UpTo99 \/ x \in UpTo999
    OBVIOUS
  <2>2. y \in UpTo99 /\ z \in UpTo999
    OBVIOUS
  <2> HIDE DEF x, y, z
  <2> QED
    BY <2>1, <2>2 DEF UpTo99, UpTo999
<1> HIDE DEF p, q, r, IsAngle
<1>6. CASE n # D + 2
  <2>1. /\ p \in Seq(Range(Digit)) /\ q \in Seq(Range(Digit)) /\ r \in Seq(Range(Digit))
        /\ Len(p) = D /\ Len(q) = 2 /\ Len(r) = 3
    BY <1>1, <1>2, <1>3 DEF Tells
  <2>2. IsOfThree(d, Range(Digit), p, q, r)
    BY <2>1, ThreeJoined
  <2> HIDE DEF d
  <2>3. d \in Seq(Range(Digit)) /\ Len(d) = D + 5
    <3>1. D + 2 + 3 = D + 5
      OBVIOUS
    <3> QED
      BY <2>1, <2>2, <3>1 DEF IsOfThree
  <2>4. Coord(WithPoint(d, n), h, D, signs, max) = None
    BY <1>6, <2>3, MisplacedPoint, Zenon
  <2> QED
    BY <1>4, <1>6, <2>4
<1>7. CASE n = D + 2
  <2>1. TheyTell(D, p, q, r, a)
    BY <1>1, <1>2, <1>3, <1>5 DEF TheyTell
  <2> HIDE DEF x, y, z
  <2>2. Coord(WithPoint(d, D + 2), h, D, signs, max) =
          IF h \notin DOMAIN signs THEN None ELSE AngleRead(a, signs[h], max)
    <3> HIDE DEF p, q, r
    <3>1. \A u : u = p \o q \o r => Coord(WithPoint(u, D + 2), h, D, signs, max) =
            IF h \notin DOMAIN signs THEN None ELSE AngleRead(a, signs[h], max)
      BY <2>1, PointInPlace
    <3> QED
      BY <3>1
  <2> HIDE DEF d
  <2> QED
    BY <1>4, <1>7, <2>2, Zenon
<1> QED
  BY <1>6, <1>7

-----------------------------------------------------------------------------
(* Three numbers of two digits. *)
ReadsAsThree(s, x, y, z) ==
    /\ s \in Seq(Range(Digit)) /\ Len(s) = 6
    /\ Whole(SubSeq(s, 1, 2)) = x /\ Whole(SubSeq(s, 3, 4)) = y /\ Whole(SubSeq(s, 5, 6)) = z

(* Written one behind the other they are read so. *)
LEMMA ThreeReads ==
    ASSUME NEW p, NEW q, NEW r, NEW x, NEW y, NEW z, Tells(p, 2, x), Tells(q, 2, y), Tells(r, 2, z)
    PROVE  ReadsAsThree(p \o q \o r, x, y, z)
<1> DEFINE s == p \o q \o r
           digits == Range(Digit)
           first == SubSeq(s, 1, 2)
           second == SubSeq(s, 3, 4)
           third == SubSeq(s, 5, 6)
<1>1. /\ p \in Seq(digits) /\ q \in Seq(digits) /\ r \in Seq(digits)
      /\ Len(p) = 2 /\ Len(q) = 2 /\ Len(r) = 2
      /\ Whole(p) = x /\ Whole(q) = y /\ Whole(r) = z
  BY DEF Tells
<1> HIDE DEF digits
<1>2. IsOfThree(s, digits, p, q, r)
  BY <1>1, ThreeJoined
<1> HIDE DEF s
<1>3. /\ s \in Seq(digits) /\ Len(s) = 6
      /\ \A i \in 1..2 : s[i] = p[i]
      /\ \A i \in 1..2 : s[2 + i] = q[i]
      /\ \A i \in 1..2 : s[4 + i] = r[i]
  <2>1. 2 + 2 + 2 = 6 /\ 2 + 2 = 4
    OBVIOUS
  <2> QED
    BY <1>1, <1>2, <2>1 DEF IsOfThree
<1>4. first = p
  <2>1. 0 + 2 <= Len(s) /\ 1 = 0 + 1 /\ 2 = 0 + 2 /\ 0 \in Nat /\ 1 \in Int /\ 2 \in Nat /\ 2 \in Int
    BY <1>3
  <2>2. IsCut(first, digits, s, 0, 2)
    BY <1>3, <2>1, CutIs, Zenon
  <2>3. \A i \in 1..2 : 0 + i = i
    OBVIOUS
  <2>4. IsCut(p, digits, s, 0, 2)
    BY <1>1, <1>3, <2>3 DEF IsCut
  <2> HIDE DEF first
  <2> QED
    BY <2>1, <2>2, <2>4, CutsAgree
<1>5. second = q
  <2>1. 2 + 2 <= Len(s) /\ 3 = 2 + 1 /\ 4 = 2 + 2 /\ 2 \in Nat /\ 3 \in Int /\ 4 \in Int
    BY <1>3
  <2>2. IsCut(second, digits, s, 2, 2)
    BY <1>3, <2>1, CutIs, Zenon
  <2>4. IsCut(q, digits, s, 2, 2)
    BY <1>1, <1>3 DEF IsCut
  <2> HIDE DEF second
  <2> QED
    BY <2>1, <2>2, <2>4, CutsAgree
<1>6. third = r
  <2>1. 4 + 2 <= Len(s) /\ 5 = 4 + 1 /\ 6 = 4 + 2 /\ 4 \in Nat /\ 2 \in Nat /\ 5 \in Int /\ 6 \in Int
    BY <1>3
  <2>2. IsCut(third, digits, s, 4, 2)
    BY <1>3, <2>1, CutIs, Zenon
  <2>4. IsCut(r, digits, s, 4, 2)
    BY <1>1, <1>3 DEF IsCut
  <2> HIDE DEF third
  <2> QED
    BY <2>1, <2>2, <2>4, CutsAgree
<1> HIDE DEF first, second, third
<1>7. /\ s \in Seq(digits) /\ Len(s) = 6 /\ Whole(first) = x /\ Whole(second) = y /\ Whole(third) = z
  BY <1>1, <1>3, <1>4, <1>5, <1>6
<1> QED
  BY <1>7, Zenon DEF ReadsAsThree, s, first, second, third, digits

(* A time of day and what follows it are found apart. *)
IsClock(s, u, w) == Len(s) >= 6 /\ SubSeq(s, 1, 6) = u /\ SubSeq(s, 7, Len(s)) = w

(* As they are when they are joined. *)
LEMMA ClockIs ==
    ASSUME NEW u \in Seq(Range(Digit)), Len(u) = 6, NEW w \in Seq(DOMAIN Code)
    PROVE  IsClock(u \o w, u, w)
<1> DEFINE S == Range(Digit) \cup DOMAIN Code
           s == u \o w
           clock == SubSeq(s, 1, 6)
           rest == SubSeq(s, 7, Len(s))
<1>1. u \in Seq(S) /\ w \in Seq(S)
  OBVIOUS
<1> HIDE DEF S
<1>2. s \in Seq(S) /\ Joined(u, w)
  BY <1>1, JoinedIs
<1>3. /\ Len(s) = 6 + Len(w) /\ (\A i \in 1..6 : s[i] = u[i])
      /\ \A i \in 1..Len(w) : s[6 + i] = w[i]
  BY <1>2 DEF Joined
<1>4. Len(w) \in Nat
  BY LenProperties
<1> HIDE DEF s
<1>5. clock = u
  <2>1. /\ 0 + 6 <= Len(s) /\ 1 = 0 + 1 /\ 6 = 0 + 6
        /\ 0 \in Nat /\ 1 \in Int /\ 6 \in Nat /\ 6 \in Int
    BY <1>3, <1>4
  <2>2. IsCut(clock, S, s, 0, 6)
    BY <1>2, <2>1, CutIs, Zenon
  <2>3. \A i \in 1..6 : 0 + i = i
    OBVIOUS
  <2>4. IsCut(u, S, s, 0, 6)
    BY <1>1, <1>3, <2>3 DEF IsCut
  <2> HIDE DEF clock
  <2> QED
    BY <2>1, <2>2, <2>4, CutsAgree
<1>6. rest = w
  <2> DEFINE k == Len(w)
  <2>1. 6 + k <= Len(s) /\ 7 = 6 + 1 /\ Len(s) = 6 + k /\ 6 \in Nat /\ k \in Nat /\ 7 \in Int /\ Len(s) \in Int
    BY <1>3, <1>4
  <2>4. IsCut(w, S, s, 6, k)
    BY <1>1, <1>3 DEF IsCut
  <2> HIDE DEF k
  <2>2. IsCut(rest, S, s, 6, k)
    BY <1>2, <2>1, CutIs, Zenon
  <2> HIDE DEF rest
  <2> QED
    BY <2>1, <2>2, <2>4, CutsAgree
<1>7. Len(s) >= 6
  BY <1>3, <1>4
<1> HIDE DEF clock, rest
<1> QED
  BY <1>5, <1>6, <1>7, Zenon DEF s, clock, rest, IsClock

(* The years that two digits tell. *)
Years == 1980..2079

(* The days of a month are those of the calendar, in the years a receiver may give. *)
LEMMA DaysAre ==
    ASSUME NEW month \in Nat, NEW year \in Years, NEW leap, leap = IF year % 4 = 0 THEN 29 ELSE 28,
           NEW days, days = <<31, leap, 31, 30, 31, 30, 31, 31, 30, 31, 30, 31>>
    PROVE  Days(month, year) = IF month \in DOMAIN days THEN days[month] ELSE 0
<1>1. year % 4 = 0 /\ (year % 100 # 0 \/ year % 400 = 0) <=> year % 4 = 0
  BY DEF Years
<1>2. DOMAIN days = 1..12
  OBVIOUS
<1>3. month \in 1..12 \/ month \notin 1..12
  OBVIOUS
<1>4. Days(month, year) = IF month \in {1, 3, 5, 7, 8, 10, 12} THEN 31
                          ELSE IF month \in {4, 6, 9, 11} THEN 30
                          ELSE IF month # 2 THEN 0
                          ELSE leap
  BY <1>1 DEF Days
<1>5. month \in 1..12 => month \in {1, 2, 3, 4, 5, 6, 7, 8, 9, 10, 11, 12}
  OBVIOUS
<1>6. ASSUME month \in {1, 2, 3, 4, 5, 6, 7, 8, 9, 10, 11, 12}
      PROVE  days[month] = IF month \in {1, 3, 5, 7, 8, 10, 12} THEN 31
                           ELSE IF month \in {4, 6, 9, 11} THEN 30
                           ELSE leap
  BY <1>6
<1>7. CASE month \in 1..12
  BY <1>2, <1>4, <1>5, <1>6, <1>7
<1>8. CASE month \notin 1..12
  BY <1>2, <1>4, <1>8
<1> QED
  BY <1>7, <1>8

(* A date and a time of day read as sent if there are such, and else as none. *)
LEMMA TimeIsRead ==
    ASSUME NEW t, t.year \in Years, t.month \in UpTo99, t.day \in UpTo99,
           t.hour \in UpTo99, t.minute \in UpTo99, t.second \in UpTo99,
           t.decimals \in Seq(DOMAIN Code), Fraction(t.decimals)
    PROVE  Utc(DateText(t), ClockText(t)) = TimeRead(t)
<1> DEFINE short == t.year % 100
           date == DateText(t)
           u == Padded(t.hour, 2) \o Padded(t.minute, 2) \o Padded(t.second, 2)
           w == t.decimals
           time == ClockText(t)
           clock == SubSeq(time, 1, 6)
           n(s, at) == Whole(SubSeq(s, at, at + 1))
           year == IF n(date, 5) >= 80 THEN 1900 + n(date, 5) ELSE 2000 + n(date, 5)
<1>1. short \in UpTo99
  <2> DEFINE y == t.year
  <2>1. y \in 1980..2079
    BY DEF Years
  <2> HIDE DEF y
  <2>2. (y % 100) \in 0..99
    BY <2>1
  <2> QED
    BY <2>2 DEF UpTo99, y
<1> HIDE DEF short
<1>2. ReadsAsThree(date, t.day, t.month, short)
  <2>1. /\ Tells(Padded(t.day, 2), 2, t.day) /\ Tells(Padded(t.month, 2), 2, t.month)
        /\ Tells(Padded(short, 2), 2, short)
    BY <1>1, TwoTell
  <2>2. ReadsAsThree(Padded(t.day, 2) \o Padded(t.month, 2) \o Padded(short, 2), t.day, t.month, short)
    BY <2>1, ThreeReads
  <2> QED
    BY <2>2 DEF DateText, short
<1>3. ReadsAsThree(u, t.hour, t.minute, t.second)
  <2>1. /\ Tells(Padded(t.hour, 2), 2, t.hour) /\ Tells(Padded(t.minute, 2), 2, t.minute)
        /\ Tells(Padded(t.second, 2), 2, t.second)
    BY TwoTell
  <2> QED
    BY <2>1, ThreeReads
<1>4. time = u \o w
  BY DEF ClockText
<1> HIDE DEF date, u, w, time
<1>5. Len(time) >= 6 /\ clock = u /\ SubSeq(time, 7, Len(time)) = w
  <2>1. u \in Seq(Range(Digit)) /\ Len(u) = 6 /\ w \in Seq(DOMAIN Code)
    BY <1>3 DEF ReadsAsThree, w
  <2>2. IsClock(u \o w, u, w)
    BY <2>1, ClockIs
  <2> QED
    BY <1>4, <2>2, Zenon DEF clock, IsClock
<1> HIDE DEF clock
<1>6. /\ Len(date) = 6 /\ n(date, 1) = t.day /\ n(date, 3) = t.month /\ n(date, 5) = short
  BY <1>2 DEF ReadsAsThree
<1>7. n(clock, 1) = t.hour /\ n(clock, 3) = t.minute /\ n(clock, 5) = t.second
  BY <1>3, <1>5 DEF ReadsAsThree
<1>8. Digits(date)
  <2>1. date \in Seq(Range(Digit)) /\ Len(date) > 0
    BY <1>2 DEF ReadsAsThree
  <2> QED
    BY <2>1, OnlyDigits
<1>9. Digits(clock)
  <2>1. u \in Seq(Range(Digit)) /\ Len(u) > 0
    BY <1>3 DEF ReadsAsThree
  <2>2. Digits(u)
    BY <2>1, OnlyDigits
  <2> QED
    BY <1>5, <2>2, Zenon
<1>10. Fraction(SubSeq(time, 7, Len(time)))
  <2>1. Fraction(w)
    BY DEF w
  <2> QED
    BY <1>5, <2>1, Zenon
<1>11. Utc(date, time) =
         IF \/ Len(time) < 6 \/ Len(date) # 6 \/ ~Digits(date) \/ ~Digits(clock)
            \/ ~Fraction(SubSeq(time, 7, Len(time)))
         THEN None
         ELSE IF \/ n(date, 1) \notin 1..Days(n(date, 3), year)
                 \/ n(clock, 1) > 23 \/ n(clock, 3) > 59 \/ n(clock, 5) > 60
         THEN None
         ELSE Some(<<year, n(date, 3), n(date, 1), n(clock, 1), n(clock, 3), n(clock, 5)>>)
  BY DEF Utc, clock
<1> HIDE DEF n
<1>12. year = t.year
  <2> DEFINE y == t.year
  <2>1. y \in 1980..2079
    BY DEF Years
  <2>2. short = y % 100
    BY DEF short
  <2> HIDE DEF y
  <2>3. (IF y % 100 >= 80 THEN 1900 + (y % 100) ELSE 2000 + (y % 100)) = y
    BY <2>1
  <2> QED
    BY <1>6, <2>2, <2>3 DEF y
<1> HIDE DEF year
<1>13. Utc(date, time) =
         IF n(date, 1) \notin 1..Days(n(date, 3), year) \/ n(clock, 1) > 23 \/ n(clock, 3) > 59 \/ n(clock, 5) > 60
         THEN None
         ELSE Some(<<year, n(date, 3), n(date, 1), n(clock, 1), n(clock, 3), n(clock, 5)>>)
  <2>1. ~(Len(time) < 6)
    <3>1. Len(time) \in Nat
      BY <1>4, <1>5, LenProperties
    <3> QED
      BY <1>5
  <2> QED
    BY <1>6, <1>8, <1>9, <1>10, <1>11, <2>1, Zenon
<1>14. Utc(date, time) =
         IF \/ t.day \notin 1..Days(t.month, t.year) \/ t.hour > 23 \/ t.minute > 59 \/ t.second > 60
         THEN None
         ELSE Some(<<t.year, t.month, t.day, t.hour, t.minute, t.second>>)
  BY <1>6, <1>7, <1>12, <1>13
<1> DEFINE month == t.month day == t.day hour == t.hour minute == t.minute second == t.second
           full == t.year
           leap == IF full % 4 = 0 THEN 29 ELSE 28
           days == <<31, leap, 31, 30, 31, 30, 31, 31, 30, 31, 30, 31>>
<1>15. TimeRead(t) = IF /\ month \in DOMAIN days /\ day \in 1..days[month]
                        /\ hour < 24 /\ minute < 60 /\ second <= 60
                     THEN Some(<<t.year, t.month, t.day, t.hour, t.minute, t.second>>) ELSE None
  BY DEF TimeRead
<1>16. /\ month \in UpTo99 /\ day \in UpTo99 /\ hour \in UpTo99 /\ minute \in UpTo99
       /\ second \in UpTo99 /\ full \in Years
  OBVIOUS
<1> HIDE DEF month, day, hour, minute, second, full
<1>17. month \in Nat /\ day \in Nat /\ hour \in Nat /\ minute \in Nat /\ second \in Nat
  BY <1>16 DEF UpTo99
<1> HIDE DEF leap, days
<1>18. Days(month, full) = IF month \in DOMAIN days THEN days[month] ELSE 0
  <2>1. leap = IF full % 4 = 0 THEN 29 ELSE 28
    BY DEF leap
  <2>2. days = <<31, leap, 31, 30, 31, 30, 31, 31, 30, 31, 30, 31>>
    BY DEF days
  <2> QED
    BY <1>16, <1>17, <2>1, <2>2, DaysAre, Zenon
<1>19. day \in 1..Days(month, full) <=> month \in DOMAIN days /\ day \in 1..days[month]
  <2>1. CASE month \in DOMAIN days
    BY <1>18, <2>1
  <2>2. CASE month \notin DOMAIN days
    BY <1>18, <2>2
  <2> QED
    BY <2>1, <2>2
<1>20. (hour > 23 <=> ~(hour < 24)) /\ (minute > 59 <=> ~(minute < 60)) /\ (second > 60 <=> ~(second <= 60))
  BY <1>17
<1> DEFINE sent == Some(<<t.year, t.month, t.day, t.hour, t.minute, t.second>>)
<1> HIDE DEF sent
<1>21. Utc(date, time) = IF day \notin 1..Days(month, full) \/ hour > 23 \/ minute > 59 \/ second > 60
                         THEN None ELSE sent
  BY <1>14 DEF month, day, hour, minute, second, full, sent
<1>22. TimeRead(t) = IF /\ month \in DOMAIN days /\ day \in 1..days[month]
                        /\ hour < 24 /\ minute < 60 /\ second <= 60
                     THEN sent ELSE None
  BY <1>15 DEF sent, days, leap
<1> QED
  BY <1>19, <1>20, <1>21, <1>22 DEF date, time

-----------------------------------------------------------------------------
(* A digit, and a point perhaps among those behind it, is a number. *)
LEMMA NumberIs ==
    ASSUME NEW s \in Seq(Signs), Len(s) > 0, s[1] \in Range(Digit),
           \A i, j \in 1..Len(s) : s[i] = "." /\ s[j] = "." => i = j
    PROVE  Number(s) = Some(s)
<1> DEFINE points == {i \in DOMAIN s : s[i] = "."}
<1>1. "." \notin Range(Digit) /\ "+" \notin Range(Digit) /\ "-" \notin Range(Digit)
  <2>1. \A i \in 1..10 : Digit[i] \notin {".", "+", "-"}
    BY DEF Digit
  <2>2. DOMAIN Digit = 1..10
    BY DEF Digit
  <2> QED
    BY <2>1, <2>2 DEF Range
<1>2. ~(s # <<>> /\ s[1] \in {"+", "-"})
  BY <1>1
<1>3. All(s, Range(Digit) \cup {"."})
  <2>1. \A i \in DOMAIN s : s[i] \in Range(Digit) \cup {"."}
    BY ElementOfSeq DEF Signs
  <2> QED
    BY <2>1, Zenon DEF All, Range
<1>4. 1 \in DOMAIN s /\ 1 \notin points
  BY <1>1
<1>5. points # DOMAIN s /\ \A i, j \in points : i = j
  <2>1. \A i, j \in points : i = j
    OBVIOUS
  <2> QED
    BY <1>4, <2>1, Zenon
<1> DEFINE n == IF s # <<>> /\ s[1] \in {"+", "-"} THEN Tail(s) ELSE s
           those == {i \in DOMAIN n : n[i] = "."}
<1>6. Number(s) = IF All(n, Range(Digit) \cup {"."}) /\ those # DOMAIN n /\ (\A i, j \in those : i = j)
                  THEN Some(s) ELSE None
  BY Zenon DEF Number
<1>7. n = s
  BY <1>2
<1>8. those = points
  BY <1>7, Zenon
<1> HIDE DEF n, those, points
<1> QED
  BY <1>3, <1>5, <1>6, <1>7, <1>8, Zenon

(* The fields of which there is but one value. *)
LEMMA OtherFields ==
    /\ Number(Speed) = Some(Speed) /\ Number(Course) = Some(Course)
    /\ Number(Dilution) = Some(Dilution) /\ Count(Satellites) = Some(9)
<1>1. /\ {"0", "2", "5", "9"} \subseteq Range(Digit)
      /\ "0" # "." /\ "2" # "." /\ "5" # "." /\ "9" # "." /\ "0" # "+"
  <2>1. Digit[1 + 0] = "0" /\ Digit[1 + 2] = "2" /\ Digit[1 + 5] = "5" /\ Digit[1 + 9] = "9"
    BY DEF Digit
  <2> QED
    BY <2>1, DigitReads
<1>2. "0" \in Signs /\ "2" \in Signs /\ "5" \in Signs /\ "9" \in Signs /\ "." \in Signs
  BY <1>1 DEF Signs
<1>3. Number(Speed) = Some(Speed)
  <2>1. /\ Speed \in Seq(Signs) /\ Len(Speed) > 0 /\ Speed[1] \in Range(Digit)
        /\ \A i, j \in 1..Len(Speed) : Speed[i] = "." /\ Speed[j] = "." => i = j
    BY <1>1, <1>2 DEF Speed
  <2> QED
    BY <2>1, NumberIs, Zenon
<1>4. Number(Course) = Some(Course)
  <2>1. /\ Course \in Seq(Signs) /\ Len(Course) > 0 /\ Course[1] \in Range(Digit)
        /\ \A i, j \in 1..Len(Course) : Course[i] = "." /\ Course[j] = "." => i = j
    BY <1>1, <1>2 DEF Course
  <2> QED
    BY <2>1, NumberIs, Zenon
<1>5. Number(Dilution) = Some(Dilution)
  <2>1. /\ Dilution \in Seq(Signs) /\ Len(Dilution) > 0 /\ Dilution[1] \in Range(Digit)
        /\ \A i, j \in 1..Len(Dilution) : Dilution[i] = "." /\ Dilution[j] = "." => i = j
    BY <1>1, <1>2 DEF Dilution
  <2> QED
    BY <2>1, NumberIs, Zenon
<1>6. Count(Satellites) = Some(9)
  <2> DEFINE s == Satellites
  <2>1. s \in Seq(Range(Digit)) /\ Len(s) = 2 /\ s[1] = "0" /\ s[2] = "9"
    BY <1>1 DEF Satellites
  <2> HIDE DEF s
  <2>2. Hex["0"] = 0 /\ Hex["9"] = 9
    <3>1. Digit[1 + 0] = "0" /\ Digit[1 + 9] = "9"
      BY DEF Digit
    <3> QED
      BY <3>1, DigitReads
  <2>3. Whole(s) = 9
    <3> DEFINE n == 2
    <3>1. n \in 2..3 /\ Len(s) = n /\ \A i \in 1..n : Hex[s[i]] \in Nat
      BY <2>1, <2>2
    <3>2. n = 2
      OBVIOUS
    <3> HIDE DEF n
    <3>3. Whole(s) = IF n = 2 THEN 10 * Hex[s[1]] + Hex[s[2]]
                     ELSE 100 * Hex[s[1]] + 10 * Hex[s[2]] + Hex[s[3]]
      BY <3>1, WholeIs
    <3> QED
      BY <2>1, <2>2, <3>2, <3>3
  <2>4. Digits(s)
    <3>1. Len(s) > 0
      BY <2>1
    <3> QED
      BY <2>1, <3>1, OnlyDigits
  <2>5. Count(s) = IF Digits(s) /\ Whole(s) <= 255 THEN Some(Whole(s)) ELSE None
    <3>1. s[1] # "+"
      BY <1>1, <2>1
    <3> QED
      BY <3>1 DEF Count
  <2> QED
    BY <2>3, <2>4, <2>5 DEF s
<1> QED
  BY <1>3, <1>4, <1>5, <1>6

(* What is read of an RMC sentence, field by field. *)
LEMMA RmcIsRead ==
    ASSUME NEW lat, NEW lon, NEW ns, NEW ew, NEW flag, NEW mode, NEW time
    PROVE  Position(PositionSentence(<<"R", "M", "C">>, lat, lon, ns, ew, flag, mode, time)) =
              Some([kind |-> "Rmc",
                    valid |-> flag = <<"A">> /\ mode \notin {<<"E">>, <<"M">>, <<"S">>, <<"N">>},
                    lat |-> Coord(lat, ns, 2, NorthSouth, 90),
                    lon |-> Coord(lon, ew, 3, EastWest, 180),
                    sogKn |-> Number(Speed), cogDeg |-> Number(Course),
                    utc |-> Utc(DateText(time), ClockText(time)),
                    satellites |-> None, hdop |-> None])
<1> DEFINE date == DateText(time)
           clock == ClockText(time)
           speed == Speed
           course == Course
           fields == <<clock, flag, lat, ns, lon, ew, speed, course, date, <<>>, <<>>, mode>>
           s == PositionSentence(<<"R", "M", "C">>, lat, lon, ns, ew, flag, mode, time)
           f(i) == IF i < Len(s.fields) THEN s.fields[i + 1] ELSE <<>>
           lats(i) == Coord(f(i), f(i + 1), 2, NorthSouth, 90)
           lons(i) == Coord(f(i), f(i + 1), 3, EastWest, 180)
<1>1. s.kind = <<"R", "M", "C">> /\ s.fields = fields
  BY DEF PositionSentence
<1> HIDE DEF date, clock, speed, course, s
<1>2. /\ f(0) = clock /\ f(1) = flag /\ f(2) = lat /\ f(3) = ns /\ f(4) = lon /\ f(5) = ew
      /\ f(6) = speed /\ f(7) = course /\ f(8) = date /\ f(11) = mode
  BY <1>1
<1>3. Position(s) = Some([kind |-> "Rmc",
                          valid |-> f(1) = <<"A">> /\ f(11) \notin {<<"E">>, <<"M">>, <<"S">>, <<"N">>},
                          lat |-> lats(2), lon |-> lons(4), sogKn |-> Number(f(6)),
                          cogDeg |-> Number(f(7)), utc |-> Utc(f(8), f(0)),
                          satellites |-> None, hdop |-> None])
  BY <1>1, Zenon DEF Position
<1>4. lats(2) = Coord(f(2), f(3), 2, NorthSouth, 90) /\ lons(4) = Coord(f(4), f(5), 3, EastWest, 180)
  <2>1. 2 + 1 = 3 /\ 4 + 1 = 5
    OBVIOUS
  <2> HIDE DEF f
  <2> QED
    BY <2>1
<1> HIDE DEF f, lats, lons
<1>5. Position(s) = Some([kind |-> "Rmc",
                          valid |-> flag = <<"A">> /\ mode \notin {<<"E">>, <<"M">>, <<"S">>, <<"N">>},
                          lat |-> Coord(lat, ns, 2, NorthSouth, 90),
                          lon |-> Coord(lon, ew, 3, EastWest, 180), sogKn |-> Number(speed),
                          cogDeg |-> Number(course), utc |-> Utc(date, clock),
                          satellites |-> None, hdop |-> None])
  BY <1>2, <1>3, <1>4, Zenon
<1> QED
  BY <1>5, Zenon DEF s, speed, course, date, clock

(* What is read of a GGA sentence. *)
LEMMA GgaIsRead ==
    ASSUME NEW lat, NEW lon, NEW ns, NEW ew, NEW flag, NEW mode, NEW time
    PROVE  Position(PositionSentence(<<"G", "G", "A">>, lat, lon, ns, ew, flag, mode, time)) =
              Some([kind |-> "Gga",
                    valid |-> flag \in {<<Digit[n + 1]>> : n \in 1..5},
                    lat |-> Coord(lat, ns, 2, NorthSouth, 90),
                    lon |-> Coord(lon, ew, 3, EastWest, 180),
                    sogKn |-> None, cogDeg |-> None, utc |-> None,
                    satellites |-> Count(Satellites), hdop |-> Number(Dilution)])
<1> DEFINE clock == ClockText(time)
           satellites == Satellites
           dilution == Dilution
           fields == <<clock, lat, ns, lon, ew, flag, satellites, dilution>>
           s == PositionSentence(<<"G", "G", "A">>, lat, lon, ns, ew, flag, mode, time)
           f(i) == IF i < Len(s.fields) THEN s.fields[i + 1] ELSE <<>>
           lats(i) == Coord(f(i), f(i + 1), 2, NorthSouth, 90)
           lons(i) == Coord(f(i), f(i + 1), 3, EastWest, 180)
           fixes == {<<Digit[n + 1]>> : n \in 1..5}
<1>1. s.kind = <<"G", "G", "A">> /\ s.kind # <<"R", "M", "C">> /\ s.fields = fields
  BY DEF PositionSentence
<1> HIDE DEF clock, satellites, dilution, s
<1>2. /\ f(1) = lat /\ f(2) = ns /\ f(3) = lon /\ f(4) = ew /\ f(5) = flag
      /\ f(6) = satellites /\ f(7) = dilution
  BY <1>1
<1>3. Position(s) = Some([kind |-> "Gga",
                          valid |-> f(5) \in fixes,
                          lat |-> lats(1), lon |-> lons(3), sogKn |-> None, cogDeg |-> None,
                          utc |-> None, satellites |-> Count(f(6)), hdop |-> Number(f(7))])
  BY <1>1, Zenon DEF Position
<1>4. lats(1) = Coord(f(1), f(2), 2, NorthSouth, 90) /\ lons(3) = Coord(f(3), f(4), 3, EastWest, 180)
  <2>1. 1 + 1 = 2 /\ 3 + 1 = 4
    OBVIOUS
  <2> HIDE DEF f
  <2> QED
    BY <2>1
<1> HIDE DEF f, lats, lons, fixes
<1>5. Position(s) = Some([kind |-> "Gga", valid |-> flag \in fixes,
                          lat |-> Coord(lat, ns, 2, NorthSouth, 90),
                          lon |-> Coord(lon, ew, 3, EastWest, 180), sogKn |-> None, cogDeg |-> None,
                          utc |-> None, satellites |-> Count(satellites), hdop |-> Number(dilution)])
  BY <1>2, <1>3, <1>4, Zenon
<1> QED
  BY <1>5, Zenon DEF s, satellites, dilution, fixes

-----------------------------------------------------------------------------
(* A latitude reads as sent. *)
LEMMA LatitudeIsRead ==
    ASSUME NEW a, IsAngle(a, 2), NEW n \in Nat, NEW ns \in {<<"N">>, <<"S">>, <<>>}
    PROVE  Coord(WithPoint(AngleDigits(a, 2), n), ns, 2, NorthSouth, 90) =
              IF n # 4 \/ ns = <<>> THEN None ELSE AngleRead(a, IF ns = <<"N">> THEN 1 ELSE -1, 90)
<1> DEFINE D == 2
           max == 90
<1>1. D \in 2..3 /\ IsAngle(a, D) /\ max \in Extents /\ D + 2 = 4
  BY DEF Extents
<1> HIDE DEF D, max
<1>2. Coord(WithPoint(AngleDigits(a, D), n), ns, D, NorthSouth, max) =
         IF n # D + 2 \/ ns \notin DOMAIN NorthSouth THEN None ELSE AngleRead(a, NorthSouth[ns], max)
  BY <1>1, AngleIsRead
<1>3. ns \notin DOMAIN NorthSouth <=> ns = <<>>
  <2>1. <<"N">> # <<>> /\ <<"S">> # <<>> /\ DOMAIN NorthSouth = {<<"N">>, <<"S">>}
    BY DEF NorthSouth
  <2> QED
    BY <2>1, Zenon
<1>4. ns # <<>> => NorthSouth[ns] = IF ns = <<"N">> THEN 1 ELSE -1
  <2>1. ns # <<>> => ns \in {<<"N">>, <<"S">>}
    BY Zenon
  <2> QED
    BY <2>1, Zenon DEF NorthSouth
<1>5. Coord(WithPoint(AngleDigits(a, D), n), ns, D, NorthSouth, max) =
         IF n # 4 \/ ns = <<>> THEN None ELSE AngleRead(a, IF ns = <<"N">> THEN 1 ELSE -1, max)
  BY <1>1, <1>2, <1>3, <1>4, Zenon
<1> QED
  BY <1>5 DEF D, max

(* So does a longitude. *)
LEMMA LongitudeIsRead ==
    ASSUME NEW a, IsAngle(a, 3), NEW n \in Nat
    PROVE  Coord(WithPoint(AngleDigits(a, 3), n), <<"W">>, 3, EastWest, 180) =
              IF n # 5 THEN None ELSE AngleRead(a, -1, 180)
<1> DEFINE D == 3
           max == 180
           west == <<"W">>
<1>1. D \in 2..3 /\ IsAngle(a, D) /\ max \in Extents /\ D + 2 = 5
  BY DEF Extents
<1>2. west \in DOMAIN EastWest /\ EastWest[west] = -1
  <2>1. west # <<"E">>
    OBVIOUS
  <2> QED
    BY <2>1, Zenon DEF EastWest
<1> HIDE DEF D, max, west
<1>3. Coord(WithPoint(AngleDigits(a, D), n), west, D, EastWest, max) =
         IF n # D + 2 \/ west \notin DOMAIN EastWest THEN None ELSE AngleRead(a, EastWest[west], max)
  BY <1>1, AngleIsRead
<1>4. Coord(WithPoint(AngleDigits(a, D), n), west, D, EastWest, max) =
         IF n # 5 THEN None ELSE AngleRead(a, -1, max)
  BY <1>1, <1>2, <1>3, Zenon
<1> QED
  BY <1>4 DEF D, max, west

(* Every value of a position is read from its own field. *)
LEMMA APositionIsRead == APosition => PositionAsSent'
<1> SUFFICES ASSUME APosition PROVE PositionAsSent'
  OBVIOUS
<1>1. PICK kind \in {<<"R", "M", "C">>, <<"G", "G", "A">>}, a \in Angles, place \in 0..9,
           ns \in {<<"N">>, <<"S">>, <<>>}, flag \in Flags, mode \in Modes, time \in Times :
              /\ IF kind = <<"R", "M", "C">> THEN flag \in {<<"A">>, <<"V">>, <<"1">>} ELSE mode = <<>>
              /\ place \in {4, 5} \/ (flag = <<"A">> /\ mode = <<>>)
              /\ input' = [what |-> "position", kind |-> kind, angle |-> a, place |-> place,
                           ns |-> ns, flag |-> flag, mode |-> mode, time |-> time]
  BY Zenon DEF APosition
<1> DEFINE latitude == [a EXCEPT !.degrees = @ % 100]
           lat == WithPoint(AngleDigits(latitude, 2), place)
           lon == WithPoint(AngleDigits(a, 3), place)
           rmc == kind = <<"R", "M", "C">>
           read == Position(PositionSentence(kind, lat, lon, ns, <<"W">>, flag, mode, time))[1]
           latRead == IF place # 4 \/ ns = <<>> THEN None
                      ELSE AngleRead(latitude, IF ns = <<"N">> THEN 1 ELSE -1, 90)
           lonRead == IF place # 5 THEN None ELSE AngleRead(a, -1, 180)
<1>2. /\ a \in [degrees : 0..999, minutes : 0..99, thousandths : 0..999]
      /\ time.year \in Years /\ time.month \in UpTo99 /\ time.day \in UpTo99 /\ time.hour \in UpTo99
      /\ time.minute \in UpTo99 /\ time.second \in UpTo99 /\ time.decimals \in Seq(DOMAIN Code)
  BY PositionsAssumption DEF Years, UpTo99
<1>3. Fraction(time.decimals)
  BY PositionsAssumption
<1>4. IsAngle(latitude, 2) /\ IsAngle(a, 3)
  <2>1. a.degrees \in UpTo999 /\ a.minutes \in UpTo99 /\ a.thousandths \in UpTo999
    BY <1>2 DEF UpTo99, UpTo999
  <2>2. latitude.degrees \in UpTo99
    <3> DEFINE n == a.degrees
    <3>1. latitude.degrees = n % 100
      BY <1>2
    <3>2. n \in 0..999
      BY <1>2
    <3> HIDE DEF n
    <3>3. (n % 100) \in 0..99
      BY <3>2
    <3> QED
      BY <3>1, <3>3 DEF UpTo99
  <2>3. latitude.minutes = a.minutes /\ latitude.thousandths = a.thousandths
    BY <1>2
  <2> HIDE DEF latitude
  <2> QED
    BY <2>1, <2>2, <2>3 DEF IsAngle
<1>5. place \in Nat
  OBVIOUS
<1>6. Coord(lat, ns, 2, NorthSouth, 90) = latRead
  <2> HIDE DEF latitude
  <2> QED
    BY <1>4, <1>5, LatitudeIsRead
<1>7. Coord(lon, <<"W">>, 3, EastWest, 180) = lonRead
  BY <1>4, <1>5, LongitudeIsRead
<1>8. Utc(DateText(time), ClockText(time)) = TimeRead(time)
  BY <1>2, <1>3, TimeIsRead
<1> HIDE DEF lat, lon, latRead, lonRead, latitude
<1>9. CASE rmc
  <2> DEFINE valid == flag = <<"A">> /\ mode \notin {<<"E">>, <<"M">>, <<"S">>, <<"N">>}
  <2>1. read = [kind |-> "Rmc", valid |-> valid, lat |-> latRead, lon |-> lonRead,
                sogKn |-> Some(Speed), cogDeg |-> Some(Course), utc |-> TimeRead(time),
                satellites |-> None, hdop |-> None]
    BY <1>6, <1>7, <1>8, <1>9, RmcIsRead, OtherFields DEF Some
  <2>2. valid <=> flag = <<"A">> /\ mode \in {<<>>, <<"A">>, <<"D">>}
    BY <1>1 DEF Modes
  <2> HIDE DEF read, valid
  <2>3. /\ read.lat = latRead /\ read.lon = lonRead /\ (read.valid <=> valid)
        /\ read.utc = TimeRead(time) /\ read.sogKn = Some(Speed) /\ read.cogDeg = Some(Course)
        /\ read.satellites = None /\ read.hdop = None
    BY <2>1
  <2> QED
    BY <1>1, <1>9, <2>2, <2>3 DEF PositionAsSent, read, latRead, lonRead, lat, lon, latitude
<1>10. CASE ~rmc
  <2> DEFINE valid == flag \in {<<Digit[n + 1]>> : n \in 1..5}
  <2>1. kind = <<"G", "G", "A">>
    BY <1>10, Zenon
  <2>2. read = [kind |-> "Gga", valid |-> valid, lat |-> latRead, lon |-> lonRead,
                sogKn |-> None, cogDeg |-> None, utc |-> None,
                satellites |-> Some(9), hdop |-> Some(Dilution)]
    BY <1>6, <1>7, <2>1, GgaIsRead, OtherFields DEF Some
  <2>3. valid <=> flag \in Flags \ {<<"A">>, <<"V">>, <<"0">>, <<"6">>}
    <3>1. {<<Digit[n + 1]>> : n \in 1..5} = {<<"1">>, <<"2">>, <<"3">>, <<"4">>, <<"5">>}
      BY DEF Digit
    <3>2. flag \in {<<"1">>, <<"2">>, <<"3">>, <<"4">>, <<"5">>}
              <=> flag \in Flags \ {<<"A">>, <<"V">>, <<"0">>, <<"6">>}
      BY <1>1 DEF Flags
    <3> QED
      BY <3>1, <3>2
  <2> HIDE DEF read, valid
  <2>4. /\ read.lat = latRead /\ read.lon = lonRead /\ (read.valid <=> valid)
        /\ read.utc = None /\ read.sogKn = None /\ read.cogDeg = None
        /\ read.satellites = Some(9) /\ read.hdop = Some(Dilution)
    BY <2>2
  <2> QED
    BY <1>1, <1>10, <2>3, <2>4 DEF PositionAsSent, read, latRead, lonRead, lat, lon, latitude
<1> QED
  BY <1>9, <1>10

-----------------------------------------------------------------------------

-----------------------------------------------------------------------------
(* What the first has, and each that follows one that has it, all have. *)
LEMMA AllHave ==
    ASSUME NEW S, 0 \in S, \A n \in Nat : n \in S => n + 1 \in S
    PROVE  Nat \subseteq S
<1> DEFINE P == {n \in Nat : n \notin S}
<1>1. SUFFICES ASSUME P # {} PROVE FALSE
  OBVIOUS
<1>2. PICK k \in P : \A i \in P : k <= i
  <2> HIDE DEF P
  <2>1. P \subseteq Nat
    BY DEF P
  <2> QED
    BY <1>1, <2>1, HasAFirst
<1>3. k \in Nat /\ k # 0
  OBVIOUS
<1>4. k - 1 \in Nat /\ k - 1 \notin P
  BY <1>2, <1>3
<1>5. k - 1 \in S
  BY <1>4
<1>6. k - 1 + 1 \in S
  BY <1>4, <1>5
<1> QED
  BY <1>3, <1>6

(* A recursive function of numbers up to n: there is one. *)
Steps(f, a, G, n) == f[0] = a /\ \A i \in 1..n : f[i] = G[<<f[i - 1], i>>]

LEMMA StepsExist ==
    ASSUME NEW V, NEW a \in V, NEW G, \A x \in V, i \in Nat : G[<<x, i>>] \in V
    PROVE  \A n \in Nat : \E f \in [0..n -> V] : Steps(f, a, G, n)
<1> DEFINE S == {n \in Nat : \E f \in [0..n -> V] : Steps(f, a, G, n)}
<1>1. 0 \in S
  <2> DEFINE f == [i \in 0..0 |-> a]
  <2>1. f \in [0..0 -> V] /\ Steps(f, a, G, 0)
    BY DEF Steps
  <2> QED
    BY <2>1
<1>2. ASSUME NEW n \in Nat, n \in S PROVE n + 1 \in S
  <2>1. PICK f \in [0..n -> V] : Steps(f, a, G, n)
    BY <1>2
  <2> DEFINE g == [i \in 0..(n + 1) |-> IF i = n + 1 THEN G[<<f[n], n + 1>>] ELSE f[i]]
  <2>2. g \in [0..(n + 1) -> V]
    <3>1. G[<<f[n], n + 1>>] \in V
      OBVIOUS
    <3> QED
      BY <3>1
  <2>3. g[0] = a
    BY <2>1 DEF Steps
  <2>4. ASSUME NEW i \in 1..(n + 1) PROVE g[i] = G[<<g[i - 1], i>>]
    <3>1. i - 1 \in 0..n /\ g[i - 1] = f[i - 1]
      OBVIOUS
    <3>2. CASE i = n + 1
      <4>1. g[n + 1] = G[<<f[n], n + 1>>] /\ g[n] = f[n]
        OBVIOUS
      <4>2. i - 1 = n
        BY <3>2
      <4> HIDE DEF g
      <4> QED
        BY <3>2, <4>1, <4>2
    <3>3. CASE i \in 1..n
      <4>1. g[i] = f[i]
        BY <3>3
      <4> QED
        BY <2>1, <3>1, <3>3, <4>1 DEF Steps
    <3> QED
      BY <3>2, <3>3
  <2>5. Steps(g, a, G, n + 1)
    <3> HIDE DEF g
    <3> QED
      BY <2>3, <2>4 DEF Steps
  <2> QED
    BY <2>2, <2>5
<1>3. Nat \subseteq S
  <2> HIDE DEF S
  <2> QED
    BY <1>1, <1>2, AllHave
<1> QED
  BY <1>3

(* And there is only one. *)
StepAlike(f, h, n) == f[0] = h[0] /\ \A i \in 1..n : f[i - 1] = h[i - 1] => f[i] = h[i]

LEMMA StepsAreOne ==
    ASSUME NEW n \in Nat, NEW f, NEW h, StepAlike(f, h, n)
    PROVE  \A i \in 0..n : f[i] = h[i]
<1> DEFINE S == {i \in Nat : i \in 0..n => f[i] = h[i]}
<1>1. 0 \in S
  BY DEF StepAlike
<1>2. ASSUME NEW i \in Nat, i \in S PROVE i + 1 \in S
  <2>1. CASE i + 1 \in 1..n
    <3>1. i \in 0..n /\ (i + 1) - 1 = i
      BY <2>1
    <3> QED
      BY <1>2, <2>1, <3>1 DEF StepAlike
  <2>2. CASE i + 1 \notin 1..n
    BY <2>2
  <2> QED
    BY <2>1, <2>2
<1>3. Nat \subseteq S
  <2> HIDE DEF S
  <2> QED
    BY <1>1, <1>2, AllHave
<1> QED
  BY <1>3

(* Bits as a number, each shifting those before it. *)
IsShifted(value, bits, start, len) ==
    /\ value \in [0..len -> Int] /\ value[0] = 0
    /\ \A i \in 1..len : value[i] = 2 * value[i - 1] + bits[start + i]

LEMMA UintIs ==
    ASSUME NEW len \in Nat, NEW start \in Int, NEW bits, \A i \in 1..len : bits[start + i] \in Int
    PROVE  \E value : IsShifted(value, bits, start, len) /\ Uint(bits, start, len) = value[len]
<1> DEFINE f == CHOOSE value : value = [i \in 0..len |-> IF i = 0 THEN 0 ELSE 2 * value[i - 1] + bits[start + i]]
           G == [p \in Int \X Nat |-> IF p[2] \in 1..len THEN 2 * p[1] + bits[start + p[2]] ELSE 0]
<1>1. \A x \in Int, i \in Nat : G[<<x, i>>] = IF i \in 1..len THEN 2 * x + bits[start + i] ELSE 0
  OBVIOUS
<1>2. ASSUME NEW x \in Int, NEW i \in Nat PROVE G[<<x, i>>] \in Int
  <2> HIDE DEF G
  <2>1. CASE i \in 1..len
    BY <1>1, <2>1
  <2>2. CASE i \notin 1..len
    BY <1>1, <2>2
  <2> QED
    BY <2>1, <2>2
<1>3. PICK h \in [0..len -> Int] : Steps(h, 0, G, len)
  <2> HIDE DEF G, f
  <2>1. 0 \in Int
    OBVIOUS
  <2>2. \A n \in Nat : \E h \in [0..n -> Int] : Steps(h, 0, G, n)
    BY <1>2, <2>1, StepsExist, Zenon
  <2> QED
    BY <2>2
<1>4. h[0] = 0 /\ \A i \in 1..len : h[i] = 2 * h[i - 1] + bits[start + i]
  <2> HIDE DEF G, f
  <2>1. ASSUME NEW i \in 1..len PROVE h[i] = 2 * h[i - 1] + bits[start + i]
    <3>1. i \in Nat /\ h[i - 1] \in Int
      OBVIOUS
    <3>2. h[i] = G[<<h[i - 1], i>>]
      BY <1>3 DEF Steps
    <3> QED
      BY <1>1, <3>1, <3>2
  <2> QED
    BY <1>3, <2>1 DEF Steps
<1>5. h = [i \in 0..len |-> IF i = 0 THEN 0 ELSE 2 * h[i - 1] + bits[start + i]]
  BY <1>4
<1>6. f = [i \in 0..len |-> IF i = 0 THEN 0 ELSE 2 * f[i - 1] + bits[start + i]]
  BY <1>5, Zenon
<1>7. Uint(bits, start, len) = f[len]
  BY DEF Uint
<1> HIDE DEF f, G
<1>8. f = h
  <2>1. StepAlike(f, h, len)
    BY <1>4, <1>6 DEF StepAlike
  <2>2. \A i \in 0..len : f[i] = h[i]
    BY <2>1, StepsAreOne
  <2> QED
    BY <1>6, <2>2
<1>9. IsShifted(h, bits, start, len)
  BY <1>4 DEF IsShifted
<1> QED
  BY <1>7, <1>8, <1>9

(* The powers of 2. *)
ArePowers(power, n) ==
    power \in [0..n -> Int] /\ power[0] = 1 /\ \A i \in 1..n : power[i] = 2 * power[i - 1]

LEMMA PowersAre ==
    ASSUME NEW n \in Nat
    PROVE  \E power : ArePowers(power, n) /\ TwoTo(n) = power[n]
<1> DEFINE f == CHOOSE power : power = [i \in 0..n |-> IF i = 0 THEN 1 ELSE 2 * power[i - 1]]
           G == [p \in Int \X Nat |-> 2 * p[1]]
<1>1. \A x \in Int, i \in Nat : G[<<x, i>>] = 2 * x
  OBVIOUS
<1>2. ASSUME NEW x \in Int, NEW i \in Nat PROVE G[<<x, i>>] \in Int
  BY <1>1
<1>3. PICK h \in [0..n -> Int] : Steps(h, 1, G, n)
  <2> HIDE DEF G, f
  <2>1. 1 \in Int
    OBVIOUS
  <2>2. \A k \in Nat : \E h \in [0..k -> Int] : Steps(h, 1, G, k)
    BY <1>2, <2>1, StepsExist, Zenon
  <2> QED
    BY <2>2
<1>4. h[0] = 1 /\ \A i \in 1..n : h[i] = 2 * h[i - 1]
  <2> HIDE DEF G, f
  <2>1. ASSUME NEW i \in 1..n PROVE h[i] = 2 * h[i - 1]
    <3>1. i \in Nat /\ h[i - 1] \in Int
      OBVIOUS
    <3>2. h[i] = G[<<h[i - 1], i>>]
      BY <1>3 DEF Steps
    <3> QED
      BY <1>1, <3>1, <3>2
  <2> QED
    BY <1>3, <2>1 DEF Steps
<1>5. h = [i \in 0..n |-> IF i = 0 THEN 1 ELSE 2 * h[i - 1]]
  BY <1>4
<1>6. f = [i \in 0..n |-> IF i = 0 THEN 1 ELSE 2 * f[i - 1]]
  BY <1>5, Zenon
<1>7. TwoTo(n) = f[n]
  BY DEF TwoTo
<1> HIDE DEF f, G
<1>8. f = h
  <2>1. StepAlike(f, h, n)
    BY <1>4, <1>6 DEF StepAlike
  <2>2. \A i \in 0..n : f[i] = h[i]
    BY <2>1, StepsAreOne
  <2> QED
    BY <1>6, <2>2
<1>9. ArePowers(h, n)
  BY <1>4 DEF ArePowers
<1> QED
  BY <1>7, <1>8, <1>9

(* A value halved again and again, its bits what is left over. *)
AreHalves(half, value, width) ==
    /\ half \in [0..width -> Int] /\ half[0] = value
    /\ \A i \in 1..width : half[i] = half[i - 1] \div 2

LEMMA HalvesAre ==
    ASSUME NEW value \in Int, NEW width \in Nat
    PROVE  \E half : /\ AreHalves(half, value, width)
                     /\ BitsOf(value, width) = [i \in 1..width |-> half[width - i] % 2]
<1> DEFINE f == CHOOSE half : half = [i \in 0..width |-> IF i = 0 THEN value ELSE half[i - 1] \div 2]
           G == [p \in Int \X Nat |-> p[1] \div 2]
<1>1. \A x \in Int, i \in Nat : G[<<x, i>>] = x \div 2
  OBVIOUS
<1>2. ASSUME NEW x \in Int, NEW i \in Nat PROVE G[<<x, i>>] \in Int
  BY <1>1
<1>3. PICK h \in [0..width -> Int] : Steps(h, value, G, width)
  <2> HIDE DEF G, f
  <2>1. value \in Int
    OBVIOUS
  <2>2. \A n \in Nat : \E h \in [0..n -> Int] : Steps(h, value, G, n)
    BY <1>2, <2>1, StepsExist, Zenon
  <2> QED
    BY <2>2
<1>4. h[0] = value /\ \A i \in 1..width : h[i] = h[i - 1] \div 2
  <2> HIDE DEF G, f
  <2>1. ASSUME NEW i \in 1..width PROVE h[i] = h[i - 1] \div 2
    <3>1. i \in Nat /\ h[i - 1] \in Int
      OBVIOUS
    <3>2. h[i] = G[<<h[i - 1], i>>]
      BY <1>3 DEF Steps
    <3> QED
      BY <1>1, <3>1, <3>2
  <2> QED
    BY <1>3, <2>1 DEF Steps
<1>5. h = [i \in 0..width |-> IF i = 0 THEN value ELSE h[i - 1] \div 2]
  BY <1>4
<1>6. f = [i \in 0..width |-> IF i = 0 THEN value ELSE f[i - 1] \div 2]
  BY <1>5, Zenon
<1>7. BitsOf(value, width) = [i \in 1..width |-> f[width - i] % 2]
  BY DEF BitsOf
<1> HIDE DEF f, G
<1>8. f = h
  <2>1. StepAlike(f, h, width)
    BY <1>4, <1>6 DEF StepAlike
  <2>2. \A i \in 0..width : f[i] = h[i]
    BY <2>1, StepsAreOne
  <2> QED
    BY <1>6, <2>2
<1>9. AreHalves(h, value, width)
  BY <1>4 DEF AreHalves
<1> QED
  BY <1>7, <1>8, <1>9

(* Where each field of a layout ends. *)
AreEnds(end, layout) ==
    /\ end \in [0..Len(layout) -> Int] /\ end[0] = 0
    /\ \A i \in 1..Len(layout) : end[i] = end[i - 1] + layout[i][2]

LEMMA EndsAre ==
    ASSUME NEW layout, Len(layout) \in Nat, \A i \in 1..Len(layout) : layout[i][2] \in Int
    PROVE  AreEnds(Ends(layout), layout)
<1> DEFINE f == CHOOSE end : end = [i \in 0..Len(layout) |-> IF i = 0 THEN 0 ELSE end[i - 1] + layout[i][2]]
           G == [p \in Int \X Nat |-> IF p[2] \in 1..Len(layout) THEN p[1] + layout[p[2]][2] ELSE 0]
<1>1. \A x \in Int, i \in Nat : G[<<x, i>>] = IF i \in 1..Len(layout) THEN x + layout[i][2] ELSE 0
  OBVIOUS
<1>2. ASSUME NEW x \in Int, NEW i \in Nat PROVE G[<<x, i>>] \in Int
  <2> HIDE DEF G
  <2>1. CASE i \in 1..Len(layout)
    BY <1>1, <2>1
  <2>2. CASE i \notin 1..Len(layout)
    BY <1>1, <2>2
  <2> QED
    BY <2>1, <2>2
<1>3. PICK h \in [0..Len(layout) -> Int] : Steps(h, 0, G, Len(layout))
  <2> HIDE DEF G, f
  <2>1. 0 \in Int
    OBVIOUS
  <2>2. \A n \in Nat : \E h \in [0..n -> Int] : Steps(h, 0, G, n)
    BY <1>2, <2>1, StepsExist, Zenon
  <2> QED
    BY <2>2
<1>4. h[0] = 0 /\ \A i \in 1..Len(layout) : h[i] = h[i - 1] + layout[i][2]
  <2> HIDE DEF G, f
  <2>1. ASSUME NEW i \in 1..Len(layout) PROVE h[i] = h[i - 1] + layout[i][2]
    <3>1. i \in Nat /\ h[i - 1] \in Int
      OBVIOUS
    <3>2. h[i] = G[<<h[i - 1], i>>]
      BY <1>3 DEF Steps
    <3> QED
      BY <1>1, <3>1, <3>2
  <2> QED
    BY <1>3, <2>1 DEF Steps
<1>5. h = [i \in 0..Len(layout) |-> IF i = 0 THEN 0 ELSE h[i - 1] + layout[i][2]]
  BY <1>4
<1>6. f = [i \in 0..Len(layout) |-> IF i = 0 THEN 0 ELSE f[i - 1] + layout[i][2]]
  BY <1>5, Zenon
<1>7. Ends(layout) = f
  BY DEF Ends
<1> HIDE DEF f, G
<1>8. f = h
  <2>1. StepAlike(f, h, Len(layout))
    BY <1>4, <1>6 DEF StepAlike
  <2>2. \A i \in 0..Len(layout) : f[i] = h[i]
    BY <2>1, StepsAreOne
  <2> QED
    BY <1>6, <2>2
<1>9. AreEnds(h, layout)
  BY <1>4 DEF AreEnds
<1> QED
  BY <1>7, <1>8, <1>9

(* Bits read are the value they are of, or what is left after the carry of one below 0. *)
Carried(value, bits, start, width, half, power) ==
    /\ AreHalves(half, value, width) /\ ArePowers(power, width) /\ TwoTo(width) = power[width]
    /\ \A i \in 1..width : bits[start + i] = half[width - i] % 2
    /\ half[width] = 0 => Uint(bits, start, width) = value
    /\ half[width] = -1 => Uint(bits, start, width) = value + power[width]

LEMMA BitsReadBack ==
    ASSUME NEW value \in Int, NEW width \in Nat, NEW start \in Int, NEW bits,
           \A i \in 1..width : bits[start + i] = BitsOf(value, width)[i]
    PROVE  \E half, power : Carried(value, bits, start, width, half, power)
<1>1. PICK half : /\ AreHalves(half, value, width)
                  /\ BitsOf(value, width) = [i \in 1..width |-> half[width - i] % 2]
  BY HalvesAre
<1>2. PICK power : ArePowers(power, width) /\ TwoTo(width) = power[width]
  BY PowersAre
<1>3. \A i \in 0..width : half[i] \in Int /\ power[i] \in Int
  BY <1>1, <1>2 DEF AreHalves, ArePowers
<1>4. ASSUME NEW i \in 1..width
      PROVE  /\ bits[start + i] = half[width - i] % 2 /\ bits[start + i] \in Int
             /\ 2 * half[width - (i - 1)] + bits[start + i] = half[width - i]
  <2>1. bits[start + i] = half[width - i] % 2
    BY <1>1
  <2>2. half[width - (i - 1)] = half[width - (i - 1) - 1] \div 2
    BY <1>1 DEF AreHalves
  <2>3. width - (i - 1) - 1 = width - i /\ half[width - i] \in Int
    BY <1>3
  <2> QED
    BY <2>1, <2>2, <2>3
<1>5. PICK read : IsShifted(read, bits, start, width) /\ Uint(bits, start, width) = read[width]
  BY <1>4, UintIs
<1>6. read[0] = 0 /\ \A i \in 1..width : read[i] = 2 * read[i - 1] + bits[start + i]
  BY <1>5 DEF IsShifted
<1>7. half[0] = value /\ power[0] = 1 /\ \A i \in 1..width : power[i] = 2 * power[i - 1]
  BY <1>1, <1>2 DEF AreHalves, ArePowers
<1>8. ASSUME half[width] = 0 PROVE Uint(bits, start, width) = value
  <2> DEFINE back == [i \in 0..width |-> half[width - i]]
  <2>1. StepAlike(read, back, width)
    <3>1. read[0] = back[0]
      BY <1>6, <1>8
    <3>2. ASSUME NEW i \in 1..width, read[i - 1] = back[i - 1] PROVE read[i] = back[i]
      <4>1. back[i - 1] = half[width - (i - 1)] /\ back[i] = half[width - i]
        OBVIOUS
      <4> HIDE DEF back
      <4> QED
        BY <1>4, <1>6, <3>2, <4>1
    <3> QED
      BY <3>1, <3>2 DEF StepAlike
  <2>2. back[width] = value
    BY <1>7
  <2> HIDE DEF back
  <2>3. read[width] = back[width]
    BY <2>1, StepsAreOne
  <2> QED
    BY <1>5, <2>2, <2>3
<1>9. ASSUME half[width] = -1 PROVE Uint(bits, start, width) = value + power[width]
  <2> DEFINE back == [i \in 0..width |-> half[width - i] + power[i]]
  <2>1. StepAlike(read, back, width)
    <3>1. read[0] = back[0]
      BY <1>6, <1>7, <1>9
    <3>2. ASSUME NEW i \in 1..width, read[i - 1] = back[i - 1] PROVE read[i] = back[i]
      <4>1. back[i - 1] = half[width - (i - 1)] + power[i - 1] /\ back[i] = half[width - i] + power[i]
        OBVIOUS
      <4>2. width - (i - 1) \in 0..width /\ width - i \in 0..width /\ i - 1 \in 0..width
        OBVIOUS
      <4>3. power[i] = 2 * power[i - 1]
        BY <1>7
      <4>4. read[i] = 2 * read[i - 1] + bits[start + i]
        BY <1>6
      <4> HIDE DEF back
      <4> QED
        BY <1>3, <1>4, <3>2, <4>1, <4>2, <4>3, <4>4
    <3> QED
      BY <3>1, <3>2 DEF StepAlike
  <2>2. back[width] = value + power[width]
    BY <1>7
  <2> HIDE DEF back
  <2>3. read[width] = back[width]
    BY <2>1, StepsAreOne
  <2> QED
    BY <1>5, <2>2, <2>3
<1> QED
  BY <1>1, <1>2, <1>4, <1>8, <1>9 DEF Carried

(* A number that fits is read from its bits. *)
LEMMA UnsignedReads ==
    ASSUME NEW width \in Nat, NEW value \in 0..(TwoTo(width) - 1), NEW start \in Int, NEW bits,
           \A i \in 1..width : bits[start + i] = BitsOf(value, width)[i]
    PROVE  Uint(bits, start, width) = value
<1>1. value \in Int
  OBVIOUS
<1>2. PICK half, power : Carried(value, bits, start, width, half, power)
  BY <1>1, BitsReadBack
<1>3. /\ half \in [0..width -> Int] /\ power \in [0..width -> Int] /\ TwoTo(width) = power[width]
      /\ half[0] = value /\ power[0] = 1
      /\ \A i \in 1..width : half[i] = half[i - 1] \div 2 /\ power[i] = 2 * power[i - 1]
  BY <1>2 DEF Carried, AreHalves, ArePowers
<1> DEFINE S == {i \in Nat : i \in 0..width => half[i] \in 0..(power[width - i] - 1)}
<1>4. 0 \in S
  BY <1>3
<1>5. ASSUME NEW i \in Nat, i \in S PROVE i + 1 \in S
  <2>1. CASE i + 1 \in 1..width
    <3>1. /\ half[i] \in 0..(power[width - i] - 1)
          /\ half[i + 1] = half[i] \div 2 /\ power[width - i] = 2 * power[width - i - 1]
      BY <1>3, <1>5, <2>1
    <3>2. power[width - i - 1] \in Int /\ width - (i + 1) = width - i - 1
      BY <1>3, <2>1
    <3>3. half[i + 1] \in 0..(power[width - i - 1] - 1)
      BY <3>1, <3>2
    <3> QED
      BY <3>2, <3>3
  <2>2. CASE i + 1 \notin 1..width
    BY <2>2
  <2> QED
    BY <2>1, <2>2
<1>6. Nat \subseteq S
  <2> HIDE DEF S
  <2> QED
    BY <1>4, <1>5, AllHave
<1>7. half[width] \in 0..(power[0] - 1)
  BY <1>6
<1>8. half[width] = 0
  BY <1>3, <1>7
<1> QED
  BY <1>2, <1>8 DEF Carried

(* A number below 0, or not, that fits with its sign. *)
LEMMA SignedReads ==
    ASSUME NEW width \in Nat, width >= 1, NEW value \in Int,
           -TwoTo(width) <= 2 * value, 2 * value < TwoTo(width), NEW start \in Int, NEW bits,
           \A i \in 1..width : bits[start + i] = BitsOf(value, width)[i]
    PROVE  Sint(bits, start, width) = value
<1>2. PICK half, power : Carried(value, bits, start, width, half, power)
  BY BitsReadBack
<1>3. /\ half \in [0..width -> Int] /\ power \in [0..width -> Int] /\ TwoTo(width) = power[width]
      /\ half[0] = value /\ power[0] = 1
      /\ \A i \in 1..width : half[i] = half[i - 1] \div 2 /\ power[i] = 2 * power[i - 1]
  BY <1>2 DEF Carried, AreHalves, ArePowers
<1> DEFINE Near(i) == -power[width - i] <= 2 * half[i] /\ 2 * half[i] < power[width - i]
           S == {i \in Nat : i \in 0..(width - 1) => Near(i)}
<1>4. 0 \in S
  <2>1. width - 0 = width
    OBVIOUS
  <2>2. -power[width] <= 2 * half[0] /\ 2 * half[0] < power[width]
    BY <1>3
  <2> QED
    BY <2>1, <2>2
<1>5. ASSUME NEW i \in Nat, i \in S PROVE i + 1 \in S
  <2>1. CASE i + 1 \in 1..(width - 1)
    <3>1. Near(i) /\ half[i + 1] = half[i] \div 2 /\ power[width - i] = 2 * power[width - i - 1]
      BY <1>3, <1>5, <2>1
    <3>2. /\ power[width - i - 1] \in Int /\ half[i] \in Int /\ width - (i + 1) = width - i - 1
          /\ \E p \in Int : power[width - i - 1] = 2 * p
      <4>1. width - i - 1 \in 1..width /\ {width - i - 1, width - i - 1 - 1, i} \subseteq 0..width
        BY <2>1
      <4>2. power[width - i - 1] = 2 * power[width - i - 1 - 1] /\ power[width - i - 1 - 1] \in Int
        BY <1>3, <4>1
      <4>3. power[width - i - 1] \in Int /\ half[i] \in Int
        <5> DEFINE k == width - i - 1
        <5>1. k \in 0..width /\ i \in 0..width
          BY <4>1
        <5> HIDE DEF k
        <5>2. power[k] \in Int /\ half[i] \in Int
          BY <1>3, <5>1
        <5> QED
          BY <5>2 DEF k
      <4>4. width - (i + 1) = width - i - 1
        OBVIOUS
      <4> QED
        BY <4>2, <4>3, <4>4
    <3>3. Near(i + 1)
      BY <3>1, <3>2
    <3> QED
      BY <3>3
  <2>2. CASE i + 1 \notin 1..(width - 1)
    BY <2>2
  <2> QED
    BY <2>1, <2>2
<1>6. Nat \subseteq S
  <2> HIDE DEF S
  <2> QED
    BY <1>4, <1>5, AllHave
<1>7. Near(width - 1)
  BY <1>6
<1>8. power[1] = 2 /\ half[width - 1] \in Int /\ half[width] = half[width - 1] \div 2
  BY <1>3
<1>9. half[width - 1] \in {-1, 0} /\ half[width] = half[width - 1]
  BY <1>7, <1>8
<1>10. bits[start + 1] = half[width - 1] % 2
  BY <1>2 DEF Carried
<1>11. power[width] \in Int
  BY <1>3
<1>12. CASE half[width - 1] = 0
  <2>1. bits[start + 1] = 0 /\ Uint(bits, start, width) = value
    BY <1>2, <1>9, <1>10, <1>12 DEF Carried
  <2> QED
    BY <2>1 DEF Sint
<1>13. CASE half[width - 1] = -1
  <2>1. bits[start + 1] = 1 /\ Uint(bits, start, width) = value + power[width]
    BY <1>2, <1>9, <1>10, <1>13 DEF Carried
  <2> QED
    BY <1>3, <1>11, <2>1 DEF Sint
<1> QED
  BY <1>9, <1>12, <1>13

-----------------------------------------------------------------------------
(* Six bits as a number. *)
SixOf(bits, start) ==
    32 * bits[start + 1] + 16 * bits[start + 2] + 8 * bits[start + 3] + 4 * bits[start + 4]
        + 2 * bits[start + 5] + bits[start + 6]

LEMMA SixIs ==
    ASSUME NEW start \in Int, NEW bits, \A i \in 1..6 : bits[start + i] \in {0, 1}
    PROVE  Uint(bits, start, 6) = SixOf(bits, start)
<1>1. PICK value : IsShifted(value, bits, start, 6) /\ Uint(bits, start, 6) = value[6]
  <2>1. \A i \in 1..6 : bits[start + i] \in Int
    OBVIOUS
  <2> QED
    BY <2>1, UintIs
<1>2. value[0] = 0 /\ \A i \in 1..6 : value[i] = 2 * value[i - 1] + bits[start + i]
  BY <1>1 DEF IsShifted
<1>3. \A i \in 1..6 : bits[start + i] \in Int
  OBVIOUS
<1>4. value[1] = bits[start + 1] /\ value[2] = 2 * value[1] + bits[start + 2]
  BY <1>2, <1>3
<1>5. value[3] = 2 * value[2] + bits[start + 3] /\ value[4] = 2 * value[3] + bits[start + 4]
  BY <1>2
<1>6. value[5] = 2 * value[4] + bits[start + 5] /\ value[6] = 2 * value[5] + bits[start + 6]
  BY <1>2
<1> QED
  BY <1>1, <1>3, <1>4, <1>5, <1>6 DEF SixOf

(* Each of six bits by its weight, and the character they are sent as. *)
LEMMA SixApart ==
    ASSUME NEW start \in Int, NEW bits, \A i \in 1..6 : bits[start + i] \in {0, 1}
    PROVE  /\ SixOf(bits, start) \in 0..63
           /\ \A k \in 1..6 : (SixOf(bits, start) \div Weight[k]) % 2 = bits[start + k]
<1> DEFINE a == bits[start + 1]
           b == bits[start + 2]
           c == bits[start + 3]
           d == bits[start + 4]
           e == bits[start + 5]
           f == bits[start + 6]
           v == 32 * a + 16 * b + 8 * c + 4 * d + 2 * e + f
<1>1. a \in {0, 1} /\ b \in {0, 1} /\ c \in {0, 1} /\ d \in {0, 1} /\ e \in {0, 1} /\ f \in {0, 1}
  OBVIOUS
<1>2. SixOf(bits, start) = v
  BY DEF SixOf
<1>3. ASSUME NEW k \in 1..6 PROVE (v \div Weight[k]) % 2 = bits[start + k]
  <2>1. CASE k = 1
    <3> HIDE DEF a, b, c, d, e, f
    <3>1. (v \div 32) % 2 = a
      BY <1>1
    <3> QED
      BY <2>1, <3>1 DEF Weight, a
  <2>2. CASE k = 2
    <3> HIDE DEF a, b, c, d, e, f
    <3>1. (v \div 16) % 2 = b
      BY <1>1
    <3> QED
      BY <2>2, <3>1 DEF Weight, b
  <2>3. CASE k = 3
    <3> HIDE DEF a, b, c, d, e, f
    <3>1. (v \div 8) % 2 = c
      BY <1>1
    <3> QED
      BY <2>3, <3>1 DEF Weight, c
  <2>4. CASE k = 4
    <3> HIDE DEF a, b, c, d, e, f
    <3>1. (v \div 4) % 2 = d
      BY <1>1
    <3> QED
      BY <2>4, <3>1 DEF Weight, d
  <2>5. CASE k = 5
    <3> HIDE DEF a, b, c, d, e, f
    <3>1. (v \div 2) % 2 = e
      BY <1>1
    <3> QED
      BY <2>5, <3>1 DEF Weight, e
  <2>6. CASE k = 6
    <3> HIDE DEF a, b, c, d, e, f
    <3>1. (v \div 1) % 2 = f
      BY <1>1
    <3> QED
      BY <2>6, <3>1 DEF Weight, f
  <2> QED
    BY <2>1, <2>2, <2>3, <2>4, <2>5, <2>6
<1>4. v \in 0..63
  <2> HIDE DEF a, b, c, d, e, f
  <2> QED
    BY <1>1
<1> HIDE DEF v
<1> QED
  BY <1>2, <1>3, <1>4

(* The first n bits, sent as characters, are unpacked as they were. *)
IsBits(bits, n) == bits \in Seq({0, 1}) /\ Len(bits) = n

LEMMA PackedReads ==
    ASSUME NEW N \in Nat, NEW bits, IsBits(bits, N), NEW n \in 0..N
    PROVE  \E cut : /\ IsCut(cut, {0, 1}, bits, 0, n)
                    /\ Unpacked(Characters(bits, n), Fill(n)) = Known(cut)
<1> DEFINE fill == Fill(n)
           padded == [i \in 1..(n + fill) |-> IF i <= n THEN bits[i] ELSE 0]
           six(i) == Uint(padded, 6 * (i - 1), 6)
           q == (n + fill) \div 6
           payload == [i \in 1..q |-> IF six(i) < 40 THEN six(i) + 48 ELSE six(i) + 56]
           sent == [i \in 1..(6 * Len(payload)) |->
                       (SixBits(payload[(i + 5) \div 6]) \div Weight[1 + ((i - 1) % 6)]) % 2]
<1>1. fill \in 0..5 /\ q \in Nat /\ n + fill = 6 * q
  BY DEF Fill
<1>2. Characters(bits, n) = payload
  BY DEF Characters
<1>3. \A i \in 1..N : bits[i] \in {0, 1}
  BY LenProperties, ElementOfSeq DEF IsBits
<1>4. \A i \in 1..(6 * q) : padded[i] \in {0, 1}
  <2> HIDE DEF fill
  <2> QED
    BY <1>1, <1>3
<1>5. ASSUME NEW i \in 1..q
      PROVE  /\ SixBits(payload[i]) = SixOf(padded, 6 * (i - 1)) /\ payload[i] \in Armour
             /\ \A k \in 1..6 : (SixBits(payload[i]) \div Weight[k]) % 2 = padded[6 * (i - 1) + k]
  <2> HIDE DEF padded, q
  <2>1. 6 * (i - 1) \in Int /\ \A k \in 1..6 : padded[6 * (i - 1) + k] \in {0, 1}
    BY <1>1, <1>4
  <2>2. six(i) = SixOf(padded, 6 * (i - 1)) /\ six(i) \in 0..63
    BY <2>1, SixIs, SixApart
  <2>3. payload[i] = IF six(i) < 40 THEN six(i) + 48 ELSE six(i) + 56
    OBVIOUS
  <2> HIDE DEF six, payload
  <2>4. SixBits(payload[i]) = six(i) /\ payload[i] \in Armour
    BY <2>2, <2>3 DEF SixBits, Armour
  <2>5. \A k \in 1..6 : (SixOf(padded, 6 * (i - 1)) \div Weight[k]) % 2 = padded[6 * (i - 1) + k]
    BY <2>1, SixApart
  <2> QED
    BY <2>2, <2>4, <2>5
<1>6. Len(payload) = q /\ Range(payload) \subseteq Armour
  <2> HIDE DEF padded, q
  <2>1. DOMAIN payload = 1..q /\ payload \in [1..q -> Armour]
    BY <1>5
  <2> HIDE DEF payload
  <2>2. Len(payload) = q
    BY <1>1, <2>1
  <2> QED
    BY <2>1, <2>2 DEF Range
<1> HIDE DEF payload, six
<1>7. ASSUME NEW i \in 1..(6 * q) PROVE sent[i] = padded[i]
  <2> HIDE DEF padded, q, fill
  <2> DEFINE j == (i + 5) \div 6
             k == 1 + ((i - 1) % 6)
  <2>1. j \in 1..q /\ k \in 1..6 /\ 6 * (j - 1) + k = i
    BY <1>1
  <2>2. sent[i] = (SixBits(payload[j]) \div Weight[k]) % 2
    BY <1>6
  <2> HIDE DEF j, k, sent
  <2> QED
    BY <1>5, <2>1, <2>2
<1>8. sent \in Seq({0, 1}) /\ Len(sent) = 6 * q
  <2> HIDE DEF padded, q, fill
  <2>1. DOMAIN sent = 1..(6 * q) /\ \A i \in 1..(6 * q) : sent[i] \in {0, 1}
    BY <1>4, <1>6, <1>7
  <2>2. sent \in [1..(6 * q) -> {0, 1}]
    BY <2>1, <1>6
  <2> HIDE DEF sent
  <2> QED
    BY <1>1, <2>2
<1> DEFINE cut == SubSeq(sent, 1, 6 * q - fill)
<1>9. IsCut(cut, {0, 1}, sent, 0, n)
  <2> HIDE DEF sent, q, fill, padded
  <2>1. 0 \in Nat /\ n \in Nat /\ 0 + n <= Len(sent) /\ 1 \in Int /\ 6 * q - fill \in Int
        /\ 1 = 0 + 1 /\ 6 * q - fill = 0 + n
    BY <1>1, <1>8
  <2> QED
    BY <1>8, <2>1, CutIs
<1>10. IsCut(cut, {0, 1}, bits, 0, n)
  <2>1. \A i \in 1..n : padded[i] = bits[i] /\ i \in 1..(6 * q)
    BY <1>1
  <2> HIDE DEF sent, q, fill, padded, cut
  <2> QED
    BY <1>7, <1>9, <2>1 DEF IsCut
<1>11. Unpacked(payload, fill) = Known(cut)
  <2>1. ~(fill > 5) /\ ~(Len(sent) < fill)
    BY <1>1, <1>8
  <2>2. Unpacked(payload, fill) =
           IF fill > 5 \/ ~(Range(payload) \subseteq Armour) \/ Len(sent) < fill THEN Missing
           ELSE Known(SubSeq(sent, 1, Len(sent) - fill))
    BY DEF Unpacked
  <2> HIDE DEF sent, q, fill, padded, cut
  <2> QED
    BY <1>6, <1>8, <2>1, <2>2 DEF cut
<1> QED
  BY <1>2, <1>10, <1>11

-----------------------------------------------------------------------------
(* The names of fields. *)
FieldNames ==
    {"type", "repeat", "mmsi", "status", "turn", "sog", "accuracy", "lon", "lat", "cog",
     "heading", "second", "rest", "spare", "name", "shipType", "bow", "stern", "port",
     "starboard", "version", "imo", "callsign", "fixing", "arrival", "draught", "destination",
     "part", "maker", "serial"}

(* What every layout keeps to: a field has a bit at least, a text whole characters, and
   four kinds of number their own widths. *)
KindsOfField ==
    {field \in FieldNames \X Nat :
        /\ field[2] > 0
        /\ field[1] \in TextFields => field[2] = 6 * (field[2] \div 6)
        /\ field[1] = "lon" => field[2] = 28
        /\ field[1] = "lat" => field[2] = 27
        /\ field[1] = "cog" => field[2] = 12
        /\ field[1] = "heading" => field[2] = 9}

(* Powers of 2 that tell which values fit. *)
LEMMA PowersOfTwo ==
    /\ TwoTo(6) = 64 /\ TwoTo(9) = 512 /\ TwoTo(10) = 1024 /\ TwoTo(12) = 4096
    /\ TwoTo(27) = 134217728 /\ TwoTo(28) = 268435456
<1>1. ASSUME NEW n \in Nat
      PROVE  \E power : /\ TwoTo(n) = power[n] /\ power[0] = 1
                        /\ \A i \in 1..n : power[i] = 2 * power[i - 1]
  BY PowersAre DEF ArePowers
<1>2. TwoTo(6) = 64
  <2>1. PICK power : TwoTo(6) = power[6] /\ power[0] = 1 /\ \A i \in 1..6 : power[i] = 2 * power[i - 1]
    BY <1>1
  <2>2. power[1] = 2 /\ power[2] = 4 /\ power[3] = 8
    BY <2>1
  <2>3. power[4] = 16 /\ power[5] = 32 /\ power[6] = 64
    BY <2>1, <2>2
  <2> QED
    BY <2>1, <2>3
<1>3. ASSUME NEW power, NEW n \in Nat, n >= 9, power[0] = 1, \A i \in 1..n : power[i] = 2 * power[i - 1]
      PROVE  /\ power[9] = 512 /\ (n >= 10 => power[10] = 1024) /\ (n >= 12 => power[12] = 4096)
             /\ (n >= 27 => power[27] = 134217728) /\ (n >= 28 => power[28] = 268435456)
  <2>1. power[1] = 2 /\ power[2] = 4 /\ power[3] = 8
    BY <1>3
  <2>2. power[4] = 16 /\ power[5] = 32 /\ power[6] = 64
    BY <1>3, <2>1
  <2>3. power[7] = 128 /\ power[8] = 256 /\ power[9] = 512
    BY <1>3, <2>2
  <2>4. /\ n >= 10 => power[10] = 1024
        /\ n >= 12 => power[11] = 2048 /\ power[12] = 4096
    BY <1>3, <2>3
  <2>5. n >= 27 => power[13] = 8192 /\ power[14] = 16384 /\ power[15] = 32768
    BY <1>3, <2>4
  <2>6. n >= 27 => power[16] = 65536 /\ power[17] = 131072 /\ power[18] = 262144
    BY <1>3, <2>5
  <2>7. n >= 27 => power[19] = 524288 /\ power[20] = 1048576 /\ power[21] = 2097152
    BY <1>3, <2>6
  <2>8. n >= 27 => power[22] = 4194304 /\ power[23] = 8388608 /\ power[24] = 16777216
    BY <1>3, <2>7
  <2>9. n >= 27 => power[25] = 33554432 /\ power[26] = 67108864 /\ power[27] = 134217728
    BY <1>3, <2>8
  <2>10. n >= 28 => power[28] = 268435456
    BY <1>3, <2>9
  <2> QED
    BY <2>3, <2>4, <2>9, <2>10
<1>4. TwoTo(9) = 512
  <2>1. PICK power : TwoTo(9) = power[9] /\ power[0] = 1 /\ \A i \in 1..9 : power[i] = 2 * power[i - 1]
    BY <1>1
  <2> QED
    BY <1>3, <2>1
<1>5. TwoTo(12) = 4096
  <2>1. PICK power : TwoTo(12) = power[12] /\ power[0] = 1 /\ \A i \in 1..12 : power[i] = 2 * power[i - 1]
    BY <1>1
  <2> QED
    BY <1>3, <2>1
<1>6. TwoTo(27) = 134217728
  <2>1. PICK power : TwoTo(27) = power[27] /\ power[0] = 1 /\ \A i \in 1..27 : power[i] = 2 * power[i - 1]
    BY <1>1
  <2> QED
    BY <1>3, <2>1
<1>7. TwoTo(28) = 268435456
  <2>1. PICK power : TwoTo(28) = power[28] /\ power[0] = 1 /\ \A i \in 1..28 : power[i] = 2 * power[i - 1]
    BY <1>1
  <2> QED
    BY <1>3, <2>1
<1>8. TwoTo(10) = 1024
  <2>1. PICK power : TwoTo(10) = power[10] /\ power[0] = 1 /\ \A i \in 1..10 : power[i] = 2 * power[i - 1]
    BY <1>1
  <2> QED
    BY <1>3, <2>1
<1> QED
  BY <1>2, <1>4, <1>5, <1>6, <1>7, <1>8

LEMMA TwoToIsInt == \A n \in Nat : TwoTo(n) \in Int
<1>1. ASSUME NEW n \in Nat PROVE TwoTo(n) \in Int
  <2>1. PICK power : ArePowers(power, n) /\ TwoTo(n) = power[n]
    BY PowersAre
  <2> QED
    BY <2>1 DEF ArePowers
<1> QED
  BY <1>1

(* Every value's bits are bits. *)
LEMMA BitsAreBits ==
    ASSUME NEW value \in Int, NEW width \in Nat, NEW i \in 1..width
    PROVE  BitsOf(value, width)[i] \in {0, 1}
<1>1. PICK half : /\ AreHalves(half, value, width)
                  /\ BitsOf(value, width) = [k \in 1..width |-> half[width - k] % 2]
  BY HalvesAre
<1>2. BitsOf(value, width)[i] = half[width - i] % 2 /\ half[width - i] \in Int
  BY <1>1 DEF AreHalves
<1> QED
  BY <1>2

(* The fields of a message that are heard are those it has values for. *)
Laid(m) == Layout(m) \in Seq(KindsOfField) /\ Len(Layout(m)) \in Nat

LEMMA FieldsHeard ==
    ASSUME NEW m \in AisMessages, Laid(m), NEW i \in 1..Len(Layout(m))
    PROVE  LET name == Layout(m)[i][1]
               width == Layout(m)[i][2]
           IN /\ Layout(m)[i] \in KindsOfField
              /\ name \in DOMAIN m <=> name \notin Unheard
              /\ name \notin Unheard => Sendable(m[name], name, width)
<1> DEFINE layout == Layout(m)
           sent == {layout[k][1] : k \in DOMAIN layout}
<1>1. DOMAIN layout = 1..Len(layout) /\ i \in 1..Len(layout) /\ layout[i] \in KindsOfField
  BY LenProperties, ElementOfSeq DEF Laid
<1>2. /\ m = [name \in sent \ Unheard |-> m[name]]
      /\ \A k \in DOMAIN layout :
            layout[k][1] \notin Unheard => Sendable(m[layout[k][1]], layout[k][1], layout[k][2])
  BY AisAssumption
<1> HIDE DEF layout
<1>3. DOMAIN m = sent \ Unheard
  <2> HIDE DEF sent
  <2> QED
    BY <1>2
<1>4. layout[i][1] \in sent
  <2>1. i \in DOMAIN layout
    BY <1>1
  <2> QED
    BY <2>1, Zenon
<1> QED
  BY <1>1, <1>2, <1>3, <1>4 DEF layout

(* The bits of a field are those of its value, or of each of its characters. *)
NumberBitsAre(m, field) ==
    /\ m[field[1]] \in Int
    /\ \A k \in 1..field[2] : FieldBit(m, field, k) = BitsOf(m[field[1]], field[2])[k]
TextBitsAre(m, field) ==
    \A c \in 1..(field[2] \div 6) :
        /\ m[field[1]].six[c] \in 0..63
        /\ \A k \in 1..6 : FieldBit(m, field, 6 * (c - 1) + k) = BitsOf(m[field[1]].six[c], 6)[k]

LEMMA SendableIsInt ==
    ASSUME NEW x, NEW name, NEW width \in Nat, name \notin TextFields, Sendable(x, name, width)
    PROVE  x \in Int
<1>1. TwoTo(width) \in Int
  BY TwoToIsInt
<1>2. Degree \in Int
  BY DEF Degree
<1>3. CASE name = "lon"
  BY <1>2, <1>3, SMT DEF Sendable
<1>4. CASE name = "lat"
  BY <1>2, <1>4, SMT DEF Sendable
<1>5. CASE name = "cog"
  <2>1. x \in 0..3600
    BY <1>5, SMT DEF Sendable
  <2> QED
    BY <2>1, SMT
<1>7. CASE name = "heading"
  <2>1. x = 511 \/ x \in 0..359
    BY <1>7, SMT DEF Sendable
  <2> QED
    BY <2>1, SMT
<1>6. CASE name \notin {"lon", "lat", "cog", "heading"}
  <2>1. x \in 0..(TwoTo(width) - 1)
    BY <1>6 DEF Sendable
  <2> QED
    BY <1>1, <2>1
<1> QED
  BY <1>3, <1>4, <1>5, <1>6, <1>7

LEMMA BitsOfField ==
    ASSUME NEW m \in AisMessages, Laid(m), NEW i \in 1..Len(Layout(m)),
           NEW field, field = Layout(m)[i]
    PROVE  /\ field[1] \notin Unheard /\ field[1] \notin TextFields => NumberBitsAre(m, field)
           /\ field[1] \notin Unheard /\ field[1] \in TextFields => TextBitsAre(m, field)
           /\ \A k \in 1..field[2] : FieldBit(m, field, k) \in {0, 1}
<1> DEFINE name == field[1]
           width == field[2]
<1>1. /\ field \in KindsOfField
      /\ name \in DOMAIN m <=> name \notin Unheard
      /\ name \notin Unheard => Sendable(m[name], name, width)
  BY FieldsHeard
<1>2. width \in Nat
  BY <1>1 DEF KindsOfField
<1>3. CASE name \in Unheard
  <2>1. \A k \in 1..width : FieldBit(m, field, k) = 1
    BY <1>1, <1>3 DEF FieldBit
  <2> QED
    BY <1>3, <2>1
<1>4. CASE name \notin Unheard /\ name \notin TextFields
  <2>1. m[name] \in Int
    BY <1>1, <1>2, <1>4, SendableIsInt
  <2>2. \A k \in 1..width : FieldBit(m, field, k) = BitsOf(m[name], width)[k]
    BY <1>1, <1>4 DEF FieldBit
  <2>3. \A k \in 1..width : BitsOf(m[name], width)[k] \in {0, 1}
    BY <1>2, <2>1, BitsAreBits
  <2>4. NumberBitsAre(m, field)
    BY <2>1, <2>2 DEF NumberBitsAre
  <2> QED
    BY <1>4, <2>2, <2>3, <2>4
<1>5. CASE name \notin Unheard /\ name \in TextFields
  <2> DEFINE chars == width \div 6
             six == m[name].six
  <2>1. width = 6 * chars /\ chars \in Nat
    BY <1>1, <1>2, <1>5 DEF KindsOfField
  <2>2. \A c \in 1..chars : six[c] \in 0..63
    BY <1>1, <1>5 DEF Sendable, TextIs
  <2>3. \A k \in 1..width : FieldBit(m, field, k) = BitsOf(six[(k + 5) \div 6], 6)[1 + ((k - 1) % 6)]
    BY <1>1, <1>5 DEF FieldBit
  <2> HIDE DEF chars, six, width, name
  <2>4. ASSUME NEW c \in 1..chars, NEW k \in 1..6
        PROVE  FieldBit(m, field, 6 * (c - 1) + k) = BitsOf(six[c], 6)[k]
    <3>1. /\ 6 * (c - 1) + k \in 1..width
          /\ (6 * (c - 1) + k + 5) \div 6 = c /\ 1 + ((6 * (c - 1) + k - 1) % 6) = k
      BY <2>1
    <3> QED
      BY <2>3, <3>1
  <2>5. ASSUME NEW k \in 1..width PROVE FieldBit(m, field, k) \in {0, 1}
    <3> DEFINE c == (k + 5) \div 6
               b == 1 + ((k - 1) % 6)
    <3>1. c \in 1..chars /\ b \in 1..6 /\ 6 \in Nat
      BY <2>1
    <3>2. FieldBit(m, field, k) = BitsOf(six[c], 6)[b]
      BY <2>3
    <3> HIDE DEF c, b
    <3>3. six[c] \in Int
      <4>1. six[c] \in 0..63
        BY <2>2, <3>1, Zenon
      <4>2. \A x \in 0..63 : x \in Int
        OBVIOUS
      <4> QED
        BY <4>1, <4>2, Zenon
    <3> QED
      BY <3>1, <3>2, <3>3, BitsAreBits
  <2>6. TextBitsAre(m, field)
    BY <2>2, <2>4 DEF TextBitsAre, chars, six, width, name
  <2> QED
    BY <1>5, <2>5, <2>6 DEF width, name
<1> QED
  BY <1>3, <1>4, <1>5

(* Fields follow one another: the bits of each are behind the end of the one before. *)
LEMMA EndsInOrder ==
    ASSUME NEW layout \in Seq(KindsOfField), Len(layout) \in Nat
    PROVE  /\ AreEnds(Ends(layout), layout)
           /\ \A i \in 1..Len(layout) : Ends(layout)[i - 1] < Ends(layout)[i]
           /\ \A i, j \in 0..Len(layout) : i <= j => Ends(layout)[i] <= Ends(layout)[j]
<1> DEFINE end == Ends(layout)
           n == Len(layout)
<1>1. \A i \in 1..n : layout[i] \in KindsOfField
  BY LenProperties, ElementOfSeq
<1>2. \A i \in 1..n : layout[i][2] \in Nat /\ layout[i][2] > 0
  BY <1>1 DEF KindsOfField
<1>3. AreEnds(end, layout)
  BY <1>2, EndsAre
<1>4. \A i \in 0..n : end[i] \in Int
  BY <1>3 DEF AreEnds
<1>5. \A i \in 1..n : end[i] = end[i - 1] + layout[i][2]
  BY <1>3 DEF AreEnds
<1>0. n \in Nat
  OBVIOUS
<1> HIDE DEF end, n
<1>6. ASSUME NEW i \in 1..n PROVE end[i - 1] < end[i]
  <2>1. i - 1 \in 0..n
    BY <1>0
  <2> QED
    BY <1>2, <1>4, <1>5, <2>1
<1>7. ASSUME NEW i \in 0..n PROVE \A j \in 0..n : i <= j => end[i] <= end[j]
  <2> DEFINE S == {d \in Nat : i + d \in 0..n => end[i] <= end[i + d]}
  <2>1. 0 \in S
    BY <1>4
  <2>2. ASSUME NEW d \in Nat, d \in S PROVE d + 1 \in S
    <3>1. CASE i + (d + 1) \in 0..n
      <4>1. i + d \in 0..n /\ i + (d + 1) \in 1..n /\ i + (d + 1) - 1 = i + d
        BY <1>0, <3>1
      <4>2. end[i] <= end[i + d] /\ end[i + d] < end[i + (d + 1)]
        BY <1>6, <2>2, <4>1
      <4> QED
        BY <1>4, <3>1, <4>1, <4>2
    <3>2. CASE i + (d + 1) \notin 0..n
      BY <3>2
    <3> QED
      BY <3>1, <3>2
  <2>3. Nat \subseteq S
    <3> HIDE DEF S
    <3> QED
      BY <2>1, <2>2, AllHave
  <2>4. ASSUME NEW j \in 0..n, i <= j PROVE end[i] <= end[j]
    <3>1. j - i \in S /\ i + (j - i) = j
      <4>1. j - i \in Nat /\ i + (j - i) = j
        BY <1>0, <2>4
      <4> QED
        BY <2>3, <4>1
    <3> QED
      BY <2>4, <3>1
  <2> QED
    BY <2>4
<1> QED
  BY <1>3, <1>6, <1>7 DEF end, n

(* Each bit of a message is of one field. *)
FieldOf(layout, j) ==
    CHOOSE i \in DOMAIN layout : Ends(layout)[i - 1] < j /\ j <= Ends(layout)[i]

LEMMA FieldIs ==
    ASSUME NEW layout \in Seq(KindsOfField), Len(layout) \in Nat,
           NEW j \in 1..Ends(layout)[Len(layout)]
    PROVE  LET i == FieldOf(layout, j)
           IN /\ i \in 1..Len(layout) /\ Ends(layout)[i - 1] < j /\ j <= Ends(layout)[i]
              /\ \A k \in 1..Len(layout) : Ends(layout)[k - 1] < j /\ j <= Ends(layout)[k] => i = k
<1> DEFINE end == Ends(layout)
           n == Len(layout)
           i == FieldOf(layout, j)
<1>1. DOMAIN layout = 1..n /\ n \in Nat
  BY LenProperties
<1>2. /\ end[0] = 0 /\ \A k \in 0..n : end[k] \in Int
      /\ \A k, l \in 0..n : k <= l => end[k] <= end[l]
  BY EndsInOrder DEF AreEnds
<1>3. j \in Int /\ j > 0 /\ j <= end[n]
  BY <1>1, <1>2
<1>4. \E k \in 1..n : end[k - 1] < j /\ j <= end[k]
  <2> HIDE DEF end, n
  <2> DEFINE P == {k \in 0..n : j <= end[k]}
  <2>1. P \subseteq Nat /\ P # {}
    BY <1>1, <1>3
  <2>2. PICK k \in P : \A l \in P : k <= l
    <3> HIDE DEF P
    <3> QED
      BY <2>1, HasAFirst
  <2>3. k \in 1..n
    BY <1>1, <1>2, <1>3
  <2>4. k - 1 \in 0..n /\ k - 1 \notin P
    BY <1>1, <2>2, <2>3
  <2>5. end[k - 1] < j
    BY <1>2, <1>3, <2>4
  <2> QED
    BY <2>3, <2>5
<1>5. i \in 1..n /\ end[i - 1] < j /\ j <= end[i]
  <2> HIDE DEF n
  <2> QED
    BY <1>1, <1>4 DEF FieldOf
<1>6. ASSUME NEW k \in 1..n, end[k - 1] < j, j <= end[k] PROVE i = k
  <2> HIDE DEF end, n, i
  <2>1. k - 1 \in 0..n /\ i - 1 \in 0..n /\ k \in 0..n /\ i \in 0..n
    BY <1>1, <1>5
  <2>2. ~(i <= k - 1)
    <3>1. SUFFICES ASSUME i <= k - 1 PROVE FALSE
      OBVIOUS
    <3>2. end[i] <= end[k - 1] /\ end[i] \in Int /\ end[k - 1] \in Int
      BY <1>2, <2>1, <3>1
    <3> QED
      BY <1>3, <1>5, <1>6, <3>2
  <2>3. ~(k <= i - 1)
    <3>1. SUFFICES ASSUME k <= i - 1 PROVE FALSE
      OBVIOUS
    <3>2. end[k] <= end[i - 1] /\ end[k] \in Int /\ end[i - 1] \in Int
      BY <1>2, <2>1, <3>1
    <3> QED
      BY <1>3, <1>5, <1>6, <3>2
  <2> QED
    BY <1>1, <1>5, <2>2, <2>3
<1> QED
  BY <1>5, <1>6

LEMMA MessageBitsAre ==
    ASSUME NEW m \in AisMessages, Laid(m)
    PROVE  /\ BitCount(m) \in Nat /\ IsBits(MessageBits(m), BitCount(m))
           /\ \A i \in 1..Len(Layout(m)) : \A k \in 1..Layout(m)[i][2] :
                 LET j == Ends(Layout(m))[i - 1] + k
                 IN j \in 1..BitCount(m) /\ MessageBits(m)[j] = FieldBit(m, Layout(m)[i], k)
<1> DEFINE layout == Layout(m)
           end == Ends(layout)
           n == Len(layout)
           bits == MessageBits(m)
<1>1. layout \in Seq(KindsOfField) /\ n \in Nat
  BY DEF Laid
<1>2. BitCount(m) = end[n]
  BY DEF BitCount
<1>3. bits = [j \in 1..end[n] |->
                 FieldBit(m, layout[FieldOf(layout, j)], j - end[FieldOf(layout, j) - 1])]
  BY DEF MessageBits, BitCount, FieldOf
<1>4. /\ \A i \in 0..n : end[i] \in Int /\ end[0] <= end[i] /\ end[i] <= end[n]
      /\ end[0] = 0 /\ \A i \in 1..n : end[i] = end[i - 1] + layout[i][2]
  <2> HIDE DEF layout
  <2>1. 0 \in 0..n /\ n \in 0..n /\ \A i \in 0..n : 0 <= i /\ i <= n
    BY <1>1
  <2> QED
    BY <1>1, <2>1, EndsInOrder DEF AreEnds
<1>5. end[n] \in Nat
  BY <1>1, <1>4
<1>6. ASSUME NEW i \in 1..n, NEW k \in 1..layout[i][2]
      PROVE  /\ end[i - 1] + k \in 1..end[n]
             /\ bits[end[i - 1] + k] = FieldBit(m, layout[i], k)
  <2> DEFINE j == end[i - 1] + k
  <2>1. layout[i][2] \in Nat
    <3> HIDE DEF layout
    <3>1. layout[i] \in KindsOfField
      BY <1>1, LenProperties, ElementOfSeq
    <3> QED
      BY <3>1 DEF KindsOfField
  <2> HIDE DEF layout, end, n
  <2>2. i - 1 \in 0..n /\ i \in 0..n
    BY <1>1
  <2>3. end[i] = end[i - 1] + layout[i][2] /\ end[i - 1] \in Int /\ end[i - 1] >= 0 /\ end[i] <= end[n]
    BY <1>4, <2>2
  <2>4. j \in 1..end[n] /\ end[i - 1] < j /\ j <= end[i] /\ j - end[i - 1] = k
    BY <1>5, <2>1, <2>3
  <2> HIDE DEF j
  <2>5. FieldOf(layout, j) = i
    BY <1>1, <2>4, FieldIs DEF end, n
  <2> QED
    BY <1>3, <2>4, <2>5 DEF j
<1>7. ASSUME NEW j \in 1..end[n] PROVE bits[j] \in {0, 1}
  <2> DEFINE i == FieldOf(layout, j)
             k == j - end[i - 1]
  <2>1. i \in 1..n /\ end[i - 1] < j /\ j <= end[i]
    <3> HIDE DEF layout
    <3> QED
      BY <1>1, FieldIs
  <2>2. bits[j] = FieldBit(m, layout[i], k)
    BY <1>3
  <2>3. k \in 1..layout[i][2]
    <3> HIDE DEF layout, end, n, i
    <3>1. i - 1 \in 0..n /\ i \in 0..n /\ end[i] = end[i - 1] + layout[i][2]
      BY <1>1, <1>4, <2>1
    <3>2. end[i - 1] \in Int /\ end[i] \in Int
      BY <1>4, <3>1
    <3>3. layout[i][2] \in Nat
      <4>1. layout[i] \in KindsOfField
        BY <1>1, <2>1, LenProperties, ElementOfSeq DEF n
      <4> QED
        BY <4>1 DEF KindsOfField
    <3> QED
      BY <1>4, <1>5, <2>1, <3>1, <3>2, <3>3
  <2> HIDE DEF i, k, bits
  <2>4. \A l \in 1..layout[i][2] : FieldBit(m, layout[i], l) \in {0, 1}
    BY <2>1, BitsOfField
  <2> QED
    BY <2>2, <2>3, <2>4
<1>8. bits \in [1..end[n] -> {0, 1}]
  <2> HIDE DEF end, n, layout
  <2>1. DOMAIN bits = 1..end[n] /\ bits = [j \in 1..end[n] |-> bits[j]]
    BY <1>3
  <2> HIDE DEF bits
  <2> QED
    BY <1>7, <2>1
<1>9. IsBits(bits, end[n])
  <2> HIDE DEF bits, end, n
  <2> QED
    BY <1>5, <1>8 DEF IsBits
<1> QED
  BY <1>2, <1>5, <1>6, <1>9

-----------------------------------------------------------------------------
(* Numbers read from where the first bits of a message have them. *)
IsRead(m, field, cut, at) ==
    IF field[1] \in {"lon", "lat"} THEN Sint(cut, at, field[2]) = m[field[1]]
    ELSE Uint(cut, at, field[2]) = m[field[1]]

LEMMA CutHasField ==
    ASSUME NEW m \in AisMessages, Laid(m), NEW n \in 0..BitCount(m),
           NEW cut, IsCut(cut, {0, 1}, MessageBits(m), 0, n),
           NEW i \in 1..Len(Layout(m)), NEW k \in 1..Layout(m)[i][2],
           NEW at, at = Ends(Layout(m))[i - 1], at + k <= n
    PROVE  cut[at + k] = FieldBit(m, Layout(m)[i], k)
<1>1. at + k \in 1..BitCount(m) /\ MessageBits(m)[at + k] = FieldBit(m, Layout(m)[i], k)
  BY MessageBitsAre
<1>2. at + k \in 1..n
  BY <1>1
<1>3. cut[at + k] = MessageBits(m)[0 + (at + k)] /\ 0 + (at + k) = at + k
  BY <1>1, <1>2 DEF IsCut
<1> QED
  BY <1>1, <1>3

LEMMA FitsItsWidth ==
    ASSUME NEW field \in KindsOfField, field[1] \notin TextFields, NEW x, x \in Int,
           Sendable(x, field[1], field[2])
    PROVE  IF field[1] \in {"lon", "lat"}
           THEN -TwoTo(field[2]) <= 2 * x /\ 2 * x < TwoTo(field[2])
           ELSE x \in 0..(TwoTo(field[2]) - 1)
<1>1. CASE field[1] = "lon"
  <2>1. field[2] = 28
    BY <1>1 DEF KindsOfField
  <2>2. x = 181 * Degree \/ x \in -180 * Degree..180 * Degree
    BY <1>1, SMT DEF Sendable
  <2>3. Degree = 600000
    BY SMT DEF Degree
  <2>6. x = 181 * Degree \/ (-180 * Degree <= x /\ x <= 180 * Degree)
    <3>1. Degree \in Int
      BY <2>3
    <3> QED
      BY <2>2, <3>1
  <2>4. TwoTo(field[2]) = 268435456
    BY <2>1, PowersOfTwo, SMT
  <2>5. -TwoTo(field[2]) <= 2 * x /\ 2 * x < TwoTo(field[2])
    BY <2>3, <2>4, <2>6, SMT
  <2> QED
    BY <1>1, <2>5, SMT
<1>2. CASE field[1] = "lat"
  <2>1. field[2] = 27
    BY <1>2 DEF KindsOfField
  <2>2. x = 91 * Degree \/ x \in -90 * Degree..90 * Degree
    BY <1>2, SMT DEF Sendable
  <2>3. Degree = 600000
    BY SMT DEF Degree
  <2>6. x = 91 * Degree \/ (-90 * Degree <= x /\ x <= 90 * Degree)
    <3>1. Degree \in Int
      BY <2>3
    <3> QED
      BY <2>2, <3>1
  <2>4. TwoTo(field[2]) = 134217728
    BY <2>1, PowersOfTwo, SMT
  <2>5. -TwoTo(field[2]) <= 2 * x /\ 2 * x < TwoTo(field[2])
    BY <2>3, <2>4, <2>6, SMT
  <2> QED
    BY <1>2, <2>5, SMT
<1>3. CASE field[1] = "cog"
  <2>1. field[2] = 12
    BY <1>3 DEF KindsOfField
  <2>2. 0 <= x /\ x <= 3600
    <3> DEFINE courses == 0..3600
    <3>1. \A c \in courses : 0 <= c /\ c <= 3600
      BY SMT
    <3>2. x \in courses
      BY <1>3, SMT DEF Sendable
    <3> HIDE DEF courses
    <3> QED
      BY <3>1, <3>2
  <2>3. TwoTo(field[2]) = 4096
    BY <2>1, PowersOfTwo, SMT
  <2> QED
    BY <1>3, <2>2, <2>3, SMT
<1>4. CASE field[1] = "heading"
  <2>1. field[2] = 9
    BY <1>4 DEF KindsOfField
  <2>2. x = 511 \/ x \in 0..359
    BY <1>4, SMT DEF Sendable
  <2> QED
    BY <1>4, <2>1, <2>2, PowersOfTwo, SMT
<1>5. CASE field[1] \notin {"lon", "lat", "cog", "heading"}
  BY <1>5, SMT DEF Sendable
<1> QED
  BY <1>1, <1>2, <1>3, <1>4, <1>5

LEMMA NumberReads ==
    ASSUME NEW m \in AisMessages, Laid(m), NEW n \in 0..BitCount(m),
           NEW cut, IsCut(cut, {0, 1}, MessageBits(m), 0, n),
           NEW i \in 1..Len(Layout(m)), NEW field, field = Layout(m)[i],
           field[1] \notin Unheard, field[1] \notin TextFields,
           NEW at, at = Ends(Layout(m))[i - 1], at + field[2] <= n
    PROVE  IsRead(m, field, cut, at) /\ m[field[1]] \in Int
<1> DEFINE x == m[field[1]]
           width == field[2]
<1>1. field \in KindsOfField /\ Sendable(x, field[1], width)
  BY FieldsHeard
<1>2. width \in Nat /\ width >= 1
  BY <1>1 DEF KindsOfField
<1>3. x \in Int /\ \A k \in 1..width : FieldBit(m, field, k) = BitsOf(x, width)[k]
  BY BitsOfField DEF NumberBitsAre
<1>4. at \in Int
  <2>1. i - 1 \in 0..Len(Layout(m)) /\ Len(Layout(m)) \in Nat
    BY DEF Laid
  <2> QED
    BY <2>1, EndsInOrder DEF Laid, AreEnds
<1>5. \A k \in 1..width : cut[at + k] = BitsOf(x, width)[k]
  <2>1. ASSUME NEW k \in 1..width PROVE cut[at + k] = BitsOf(x, width)[k]
    <3>1. at + k <= n
      BY <1>2, <1>4
    <3>2. cut[at + k] = FieldBit(m, field, k)
      BY <3>1, CutHasField
    <3> QED
      BY <1>3, <3>2
  <2> QED
    BY <2>1
<1>6. IF field[1] \in {"lon", "lat"} THEN -TwoTo(width) <= 2 * x /\ 2 * x < TwoTo(width)
      ELSE x \in 0..(TwoTo(width) - 1)
  BY <1>1, <1>3, FitsItsWidth
<1> HIDE DEF x, width
<1>7. CASE field[1] \in {"lon", "lat"}
  <2>1. Sint(cut, at, width) = x
    BY <1>2, <1>3, <1>4, <1>5, <1>6, <1>7, SignedReads
  <2> QED
    BY <1>3, <1>7, <2>1 DEF IsRead, x, width
<1>8. CASE field[1] \notin {"lon", "lat"}
  <2>1. Uint(cut, at, width) = x
    <3>1. x \in 0..(TwoTo(width) - 1)
      BY <1>6, <1>8
    <3> QED
      BY <1>2, <1>4, <1>5, <3>1, UnsignedReads
  <2> QED
    BY <1>3, <1>8, <2>1 DEF IsRead, x, width
<1> QED
  BY <1>7, <1>8

(* The characters of a text, each from its six bits. *)
LEMMA CharactersRead ==
    ASSUME NEW m \in AisMessages, Laid(m), NEW n \in 0..BitCount(m),
           NEW cut, IsCut(cut, {0, 1}, MessageBits(m), 0, n),
           NEW i \in 1..Len(Layout(m)), NEW field, field = Layout(m)[i],
           field[1] \notin Unheard, field[1] \in TextFields,
           NEW at, at = Ends(Layout(m))[i - 1], at + field[2] <= n
    PROVE  /\ at \in Nat /\ TextIs(m[field[1]], field[2] \div 6)
           /\ \A c \in 1..(field[2] \div 6) : Uint(cut, at + 6 * (c - 1), 6) = m[field[1]].six[c]
<1> DEFINE x == m[field[1]]
           width == field[2]
           chars == width \div 6
<1>1. field \in KindsOfField /\ Sendable(x, field[1], width)
  BY FieldsHeard
<1>2. width \in Nat /\ width = 6 * chars /\ chars \in Nat
  BY <1>1 DEF KindsOfField
<1>3. TextBitsAre(m, field)
  BY BitsOfField
<1>4. at \in Nat
  <2>1. i - 1 \in 0..Len(Layout(m)) /\ Len(Layout(m)) \in Nat /\ 0 \in 0..Len(Layout(m)) /\ 0 <= i - 1
    BY DEF Laid
  <2>2. at \in Int /\ Ends(Layout(m))[0] = 0 /\ Ends(Layout(m))[0] <= Ends(Layout(m))[i - 1]
    BY <2>1, EndsInOrder DEF Laid, AreEnds
  <2> QED
    BY <2>2
<1>5. TextIs(x, chars)
  BY <1>1 DEF Sendable
<1>6. ASSUME NEW c \in 1..chars PROVE Uint(cut, at + 6 * (c - 1), 6) = x.six[c]
  <2>1. x.six[c] \in 0..63 /\ \A k \in 1..6 : FieldBit(m, field, 6 * (c - 1) + k) = BitsOf(x.six[c], 6)[k]
    BY <1>3 DEF TextBitsAre
  <2> HIDE DEF x, width, chars
  <2>2. ASSUME NEW k \in 1..6
        PROVE  cut[at + 6 * (c - 1) + k] = BitsOf(x.six[c], 6)[k]
    <3> DEFINE l == 6 * (c - 1) + k
    <3>1. l \in 1..width
      BY <1>2
    <3>4. at + 6 * (c - 1) + k = at + l
      BY <1>2, <1>4
    <3>2. at + l <= n
      <4>1. at + width <= n
        BY DEF width
      <4> HIDE DEF l
      <4> QED
        BY <1>2, <1>4, <3>1, <4>1
    <3> HIDE DEF l
    <3>3. cut[at + l] = FieldBit(m, field, l)
      BY <3>1, <3>2, CutHasField DEF width
    <3>5. FieldBit(m, field, l) = BitsOf(x.six[c], 6)[k]
      BY <2>1 DEF l
    <3> QED
      BY <3>3, <3>4, <3>5
  <2>3. at + 6 * (c - 1) \in Int /\ 6 \in Nat
    BY <1>2, <1>4
  <2>4. TwoTo(6) - 1 = 63
    BY PowersOfTwo, SMT
  <2>5. x.six[c] \in 0..(TwoTo(6) - 1)
    BY <2>1, <2>4
  <2> QED
    BY <2>2, <2>3, <2>5, UnsignedReads
<1> QED
  BY <1>4, <1>5, <1>6

(* The first place of a set of places. *)
LEMMA FirstPlace ==
    ASSUME NEW n \in Nat, NEW P \in SUBSET (1..n), NEW k \in P, \A i \in P : k <= i
    PROVE  Min(P) = k
<1>1. k \in Int /\ \A i \in P : i \in Int /\ k <= i
  OBVIOUS
<1>2. Min(P) \in P /\ \A i \in P : Min(P) <= i
  BY <1>1, Zenon DEF Min
<1>3. Min(P) \in Int /\ k <= Min(P) /\ Min(P) <= k
  BY <1>1, <1>2, Zenon
<1> QED
  BY <1>1, <1>3

(* What six bits count to. *)
Sixes == 0..63

(* A text reads as it was to be read. *)
LEMMA TextReads ==
    ASSUME NEW chars \in Nat, chars > 0, NEW text, TextIs(text, chars),
           NEW cut, NEW start \in Nat, NEW n \in Nat, Len(cut) = n, start + 6 * chars <= n,
           \A c \in 1..chars : Uint(cut, start + 6 * (c - 1), 6) = text.six[c]
    PROVE  Text(cut, start, chars) = text.reads
<1> DEFINE there == IF Len(cut) < start + 6 * chars THEN (Len(cut) - start) \div 6 ELSE chars
           six == [i \in 1..there |-> Uint(cut, start + 6 * (i - 1), 6)]
           pad == SelectInSeq(six, LAMBDA v : v = 0)
           kept == IF pad = 0 THEN six ELSE SubSeq(six, 1, pad - 1)
           last == SelectLastInSeq(kept, LAMBDA v : v # 32)
           Reading == [i \in 1..last |-> IF kept[i] < 32 THEN kept[i] + 64 ELSE kept[i]]
<1>1. Text(cut, start, chars) = IF pad = 0 /\ there < chars THEN Missing ELSE KnownIf(Reading, last > 0)
  BY DEF Text
<1>14. there = chars
  OBVIOUS
<1> HIDE DEF there
<1>2. six = text.six /\ text.six \in [1..chars -> Sixes]
  <2>1. text.six \in [1..chars -> Sixes]
    BY DEF TextIs, Sixes
  <2> QED
    BY <1>14, <2>1
<1> DEFINE s == text.six
           P == {i \in 1..chars : s[i] = 0}
<1>3. six \in Seq(Sixes) /\ Len(six) = chars
  <2> HIDE DEF six
  <2> QED
    BY <1>2
<1>4. pad = IF P # {} THEN Min(P) ELSE 0
  <2> HIDE DEF six
  <2>1. pad = IF {i \in 1..Len(six) : six[i] = 0} # {} THEN Min({i \in 1..Len(six) : six[i] = 0}) ELSE 0
    BY Zenon DEF SelectInSeq
  <2>2. {i \in 1..Len(six) : six[i] = 0} = P
    BY <1>2, <1>3
  <2> QED
    BY <2>1, <2>2
<1>5. PICK end \in 0..chars : \E k \in 0..end :
        /\ \A i \in 1..end : s[i] # 0
        /\ end < chars => s[end + 1] = 0
        /\ \A i \in (k + 1)..end : s[i] = 32
        /\ k > 0 => s[k] # 32
        /\ text.reads = KnownIf([i \in 1..k |-> s[i] + IF s[i] < 32 THEN 64 ELSE 0], k > 0)
  BY DEF TextIs
<1>6. PICK k \in 0..end :
        /\ \A i \in 1..end : s[i] # 0
        /\ end < chars => s[end + 1] = 0
        /\ \A i \in (k + 1)..end : s[i] = 32
        /\ k > 0 => s[k] # 32
        /\ text.reads = KnownIf([i \in 1..k |-> s[i] + IF s[i] < 32 THEN 64 ELSE 0], k > 0)
  BY <1>5
<1> HIDE DEF six, pad, s
<1>7. pad = IF end < chars THEN end + 1 ELSE 0
  <2>1. CASE end < chars
    <3>1. end + 1 \in P /\ \A i \in P : end + 1 <= i
      BY <1>6, <2>1
    <3> HIDE DEF P
    <3>2. P \in SUBSET (1..chars)
      BY DEF P
    <3>3. Min(P) = end + 1
      BY <3>1, <3>2, FirstPlace
    <3> QED
      BY <1>4, <2>1, <3>1, <3>3
  <2>2. CASE end = chars
    <3>1. P = {}
      BY <1>6, <2>2
    <3> QED
      BY <1>4, <2>2, <3>1
  <2> QED
    BY <2>1, <2>2
<1>8. IsCut(kept, Sixes, s, 0, end)
  <2>1. s = six
    BY <1>2 DEF s
  <2>2. CASE end < chars
    <3>1. kept = SubSeq(six, 1, end) /\ end \in Nat /\ 0 + end <= Len(six)
      <4>1. pad # 0 /\ pad - 1 = end
        BY <1>7, <2>2
      <4> QED
        BY <1>3, <2>2, <4>1
    <3>2. IsCut(SubSeq(six, 1, end), Sixes, six, 0, end)
      BY <1>3, <3>1, CutIs
    <3> QED
      BY <2>1, <3>1, <3>2
  <2>3. CASE end = chars
    <3>1. kept = six
      BY <1>7, <2>3
    <3> HIDE DEF kept
    <3>2. \A i \in 1..end : six[i] = six[0 + i]
      OBVIOUS
    <3> QED
      BY <1>3, <2>1, <2>3, <3>1, <3>2 DEF IsCut
  <2> QED
    BY <2>2, <2>3
<1> HIDE DEF kept
<1>9. Len(kept) = end /\ \A i \in 1..end : kept[i] = s[i] /\ s[i] \in Sixes
  <2>1. Len(kept) = end /\ \A i \in 1..end : kept[i] = s[0 + i] /\ 0 + i = i
    BY <1>8 DEF IsCut
  <2>2. \A i \in 1..end : s[i] \in Sixes
    <3>1. s \in [1..chars -> Sixes]
      BY <1>2 DEF s
    <3>2. \A i \in 1..end : i \in 1..chars
      OBVIOUS
    <3> QED
      BY <3>1, <3>2
  <2> QED
    BY <2>1, <2>2
<1> DEFINE Q == {i \in 1..end : s[i] # 32}
<1>10. last = IF Q # {} THEN Max(Q) ELSE 0
  <2>1. last = IF {i \in 1..Len(kept) : kept[i] # 32} # {} THEN Max({i \in 1..Len(kept) : kept[i] # 32}) ELSE 0
    BY Zenon DEF SelectLastInSeq
  <2>2. {i \in 1..Len(kept) : kept[i] # 32} = Q
    BY <1>9
  <2> QED
    BY <2>1, <2>2
<1>11. last = k
  <2>1. CASE k > 0
    <3>1. k \in Q /\ \A i \in Q : i <= k
      BY <1>6, <2>1
    <3> HIDE DEF Q
    <3>2. Q \in SUBSET (1..end) /\ end \in Nat
      BY DEF Q
    <3>3. Max(Q) = k
      BY <3>1, <3>2, LastPlace
    <3> QED
      BY <1>10, <3>1, <3>3
  <2>2. CASE k = 0
    <3>1. Q = {}
      BY <1>6, <2>2
    <3> QED
      BY <1>10, <2>2, <3>1
  <2> QED
    BY <2>1, <2>2
<1> DEFINE Wanted == [i \in 1..k |-> s[i] + IF s[i] < 32 THEN 64 ELSE 0]
<1>12. Reading = Wanted
  <2> HIDE DEF last
  <2>1. \A i \in 1..k : (IF kept[i] < 32 THEN kept[i] + 64 ELSE kept[i]) = s[i] + IF s[i] < 32 THEN 64 ELSE 0
    <3>1. ASSUME NEW i \in 1..k PROVE kept[i] = s[i] /\ s[i] \in Int
      <4>1. i \in 1..end
        OBVIOUS
      <4>2. kept[i] = s[i] /\ s[i] \in Sixes
        BY <1>9, <4>1
      <4>3. \A x \in Sixes : x \in Int
        BY DEF Sixes
      <4> QED
        BY <4>2, <4>3, Zenon
    <3> QED
      BY <3>1
  <2> QED
    BY <1>11, <2>1
<1>13. ~(there < chars)
  BY <1>14
<1> HIDE DEF last, Reading, Wanted
<1> QED
  BY <1>1, <1>6, <1>11, <1>12, <1>13 DEF Wanted

-----------------------------------------------------------------------------
(* Sequences put together, told by their elements. *)
LEMMA PutTogether ==
    ASSUME NEW S, NEW s \in Seq(S), NEW t \in Seq(S), NEW u \in Seq(S),
           Len(u) = Len(s) + Len(t),
           \A i \in 1..Len(s) : u[i] = s[i], \A i \in 1..Len(t) : u[Len(s) + i] = t[i]
    PROVE  s \o t = u
<1>1. /\ s \o t \in Seq(S) /\ Len(s \o t) = Len(s) + Len(t)
      /\ \A i \in 1..(Len(s) + Len(t)) : (s \o t)[i] = IF i <= Len(s) THEN s[i] ELSE t[i - Len(s)]
  BY ConcatProperties
<1>2. Len(s) \in Nat /\ Len(t) \in Nat
  BY LenProperties
<1>3. ASSUME NEW i \in 1..(Len(s) + Len(t)) PROVE (s \o t)[i] = u[i]
  <2>1. CASE i <= Len(s)
    BY <1>1, <1>2, <2>1
  <2>2. CASE i > Len(s)
    <3>1. i - Len(s) \in 1..Len(t) /\ Len(s) + (i - Len(s)) = i
      BY <1>2, <2>2
    <3>2. u[i] = t[i - Len(s)]
      BY <3>1
    <3> QED
      BY <1>1, <1>2, <2>2, <3>2
  <2> QED
    BY <1>2, <2>1, <2>2
<1> QED
  BY <1>1, <1>3, SeqEqual

AreTogether(s, t, u, k, l) ==
    /\ s \in Seq(KindsOfField) /\ t \in Seq(KindsOfField) /\ u \in Seq(KindsOfField)
    /\ Len(s) = k /\ Len(t) = l /\ Len(u) = k + l
    /\ \A i \in 1..k : u[i] = s[i]
    /\ \A i \in 1..l : u[k + i] = t[i]

LEMMA Together ==
    ASSUME NEW s, NEW t, NEW u, NEW k, NEW l, AreTogether(s, t, u, k, l)
    PROVE  s \o t = u
<1>1. /\ s \in Seq(KindsOfField) /\ t \in Seq(KindsOfField) /\ u \in Seq(KindsOfField)
      /\ Len(s) = k /\ Len(t) = l /\ Len(u) = Len(s) + Len(t)
  BY DEF AreTogether
<1>2. (\A i \in 1..Len(s) : u[i] = s[i]) /\ (\A i \in 1..Len(t) : u[Len(s) + i] = t[i])
  BY <1>1 DEF AreTogether
<1> QED
  BY <1>1, <1>2, PutTogether, Zenon

(* The layouts, field by field. *)
ClassA ==
    <<<<"type", 6>>, <<"repeat", 2>>, <<"mmsi", 30>>, <<"status", 4>>, <<"turn", 8>>,
      <<"sog", 10>>, <<"accuracy", 1>>, <<"lon", 28>>, <<"lat", 27>>, <<"cog", 12>>,
      <<"heading", 9>>, <<"second", 6>>, <<"rest", 25>>>>

ClassB ==
    <<<<"type", 6>>, <<"repeat", 2>>, <<"mmsi", 30>>, <<"spare", 8>>, <<"sog", 10>>,
      <<"accuracy", 1>>, <<"lon", 28>>, <<"lat", 27>>, <<"cog", 12>>, <<"heading", 9>>,
      <<"second", 6>>, <<"rest", 29>>>>

ClassBExtended ==
    <<<<"type", 6>>, <<"repeat", 2>>, <<"mmsi", 30>>, <<"spare", 8>>, <<"sog", 10>>,
      <<"accuracy", 1>>, <<"lon", 28>>, <<"lat", 27>>, <<"cog", 12>>, <<"heading", 9>>,
      <<"second", 6>>, <<"spare", 4>>, <<"name", 120>>, <<"shipType", 8>>, <<"bow", 9>>,
      <<"stern", 9>>, <<"port", 6>>, <<"starboard", 6>>, <<"rest", 11>>>>

StaticA ==
    <<<<"type", 6>>, <<"repeat", 2>>, <<"mmsi", 30>>, <<"version", 2>>, <<"imo", 30>>,
      <<"callsign", 42>>, <<"name", 120>>, <<"shipType", 8>>, <<"bow", 9>>, <<"stern", 9>>,
      <<"port", 6>>, <<"starboard", 6>>, <<"fixing", 4>>, <<"arrival", 20>>, <<"draught", 8>>,
      <<"destination", 120>>, <<"rest", 2>>>>

StaticBName ==
    <<<<"type", 6>>, <<"repeat", 2>>, <<"mmsi", 30>>, <<"part", 2>>, <<"name", 120>>,
      <<"rest", 8>>>>

StaticBRest ==
    <<<<"type", 6>>, <<"repeat", 2>>, <<"mmsi", 30>>, <<"part", 2>>, <<"shipType", 8>>,
      <<"maker", 21>>, <<"serial", 21>>, <<"callsign", 42>>, <<"bow", 9>>, <<"stern", 9>>,
      <<"port", 6>>, <<"starboard", 6>>, <<"rest", 6>>>>

LEMMA ClassAIs ==
    ASSUME NEW m, m.type \in 1..3
    PROVE  Layout(m) = ClassA /\ Laid(m) /\ Len(ClassA) = 13
<1> DEFINE f1 == <<<<"status", 4>>, <<"turn", 8>>>>
           f3 == <<<<"rest", 25>>>>
           p1 == <<<<"type", 6>>, <<"repeat", 2>>, <<"mmsi", 30>>, <<"status", 4>>, <<"turn", 8>>>>
           p2 == <<<<"type", 6>>, <<"repeat", 2>>, <<"mmsi", 30>>, <<"status", 4>>, <<"turn", 8>>,
                   <<"sog", 10>>, <<"accuracy", 1>>, <<"lon", 28>>, <<"lat", 27>>,
                   <<"cog", 12>>, <<"heading", 9>>, <<"second", 6>>>>
<1>1. Header \o f1 = p1
  <2>1. /\ \A i \in 1..3 : Header[i] \in KindsOfField
        /\ \A i \in 1..2 : f1[i] \in KindsOfField
        /\ \A i \in 1..5 : p1[i] \in KindsOfField
    BY DEF Header, KindsOfField, TextFields, FieldNames
  <2>2. /\ Header \in Seq(KindsOfField) /\ f1 \in Seq(KindsOfField) /\ p1 \in Seq(KindsOfField)
        /\ Len(Header) = 3 /\ Len(f1) = 2 /\ Len(p1) = 5
    BY <2>1 DEF Header
  <2>3. /\ \A i \in 1..3 : p1[i] = Header[i]
        /\ \A i \in 1..2 : p1[3 + i] = f1[i]
    BY DEF Header
  <2> HIDE DEF f1, p1
  <2>4. AreTogether(Header, f1, p1, 3, 2)
    BY <2>2, <2>3 DEF AreTogether
  <2> QED
    BY <2>4, Together
<1>2. p1 \o Motion = p2
  <2>1. /\ \A i \in 1..5 : p1[i] \in KindsOfField
        /\ \A i \in 1..7 : Motion[i] \in KindsOfField
        /\ \A i \in 1..12 : p2[i] \in KindsOfField
    BY DEF Motion, KindsOfField, TextFields, FieldNames
  <2>2. /\ p1 \in Seq(KindsOfField) /\ Motion \in Seq(KindsOfField) /\ p2 \in Seq(KindsOfField)
        /\ Len(p1) = 5 /\ Len(Motion) = 7 /\ Len(p2) = 12
    BY <2>1 DEF Motion
  <2>3. /\ \A i \in 1..5 : p2[i] = p1[i]
        /\ \A i \in 1..7 : p2[5 + i] = Motion[i]
    BY DEF Motion
  <2> HIDE DEF p1, p2
  <2>4. AreTogether(p1, Motion, p2, 5, 7)
    BY <2>2, <2>3 DEF AreTogether
  <2> QED
    BY <2>4, Together
<1>3. p2 \o f3 = ClassA
  <2>1. /\ \A i \in 1..12 : p2[i] \in KindsOfField
        /\ \A i \in 1..1 : f3[i] \in KindsOfField
        /\ \A i \in 1..13 : ClassA[i] \in KindsOfField
    BY DEF ClassA, KindsOfField, TextFields, FieldNames
  <2>2. /\ p2 \in Seq(KindsOfField) /\ f3 \in Seq(KindsOfField) /\ ClassA \in Seq(KindsOfField)
        /\ Len(p2) = 12 /\ Len(f3) = 1 /\ Len(ClassA) = 13
    BY <2>1 DEF ClassA
  <2>3. /\ \A i \in 1..12 : ClassA[i] = p2[i]
        /\ \A i \in 1..1 : ClassA[12 + i] = f3[i]
    BY DEF ClassA
  <2> HIDE DEF p2, f3
  <2>4. AreTogether(p2, f3, ClassA, 12, 1)
    BY <2>2, <2>3 DEF AreTogether
  <2> QED
    BY <2>4, Together
<1>4. Layout(m) = Header \o f1 \o Motion \o f3
  <2>1. m.type # 18 /\ m.type # 19 /\ m.type # 5 /\ m.type # 24
    OBVIOUS
  <2> HIDE DEF p1, p2
  <2> QED
    BY <2>1 DEF Layout
<1>5. ClassA \in Seq(KindsOfField) /\ Len(ClassA) = 13
  <2>1. \A i \in 1..13 : ClassA[i] \in KindsOfField
    BY DEF ClassA, KindsOfField, TextFields, FieldNames
  <2> QED
    BY <2>1 DEF ClassA
<1> HIDE DEF f1, f3, p1, p2
<1>6. Layout(m) = ClassA
  BY <1>1, <1>2, <1>3, <1>4, Zenon
<1> QED
  BY <1>5, <1>6 DEF Laid

LEMMA ClassBIs ==
    ASSUME NEW m, m.type = 18
    PROVE  Layout(m) = ClassB /\ Laid(m) /\ Len(ClassB) = 12
<1> DEFINE f1 == <<<<"spare", 8>>>>
           f3 == <<<<"rest", 29>>>>
           p1 == <<<<"type", 6>>, <<"repeat", 2>>, <<"mmsi", 30>>, <<"spare", 8>>>>
           p2 == <<<<"type", 6>>, <<"repeat", 2>>, <<"mmsi", 30>>, <<"spare", 8>>, <<"sog", 10>>,
                   <<"accuracy", 1>>, <<"lon", 28>>, <<"lat", 27>>, <<"cog", 12>>,
                   <<"heading", 9>>, <<"second", 6>>>>
<1>1. Header \o f1 = p1
  <2>1. /\ \A i \in 1..3 : Header[i] \in KindsOfField
        /\ \A i \in 1..1 : f1[i] \in KindsOfField
        /\ \A i \in 1..4 : p1[i] \in KindsOfField
    BY DEF Header, KindsOfField, TextFields, FieldNames
  <2>2. /\ Header \in Seq(KindsOfField) /\ f1 \in Seq(KindsOfField) /\ p1 \in Seq(KindsOfField)
        /\ Len(Header) = 3 /\ Len(f1) = 1 /\ Len(p1) = 4
    BY <2>1 DEF Header
  <2>3. /\ \A i \in 1..3 : p1[i] = Header[i]
        /\ \A i \in 1..1 : p1[3 + i] = f1[i]
    BY DEF Header
  <2> HIDE DEF f1, p1
  <2>4. AreTogether(Header, f1, p1, 3, 1)
    BY <2>2, <2>3 DEF AreTogether
  <2> QED
    BY <2>4, Together
<1>2. p1 \o Motion = p2
  <2>1. /\ \A i \in 1..4 : p1[i] \in KindsOfField
        /\ \A i \in 1..7 : Motion[i] \in KindsOfField
        /\ \A i \in 1..11 : p2[i] \in KindsOfField
    BY DEF Motion, KindsOfField, TextFields, FieldNames
  <2>2. /\ p1 \in Seq(KindsOfField) /\ Motion \in Seq(KindsOfField) /\ p2 \in Seq(KindsOfField)
        /\ Len(p1) = 4 /\ Len(Motion) = 7 /\ Len(p2) = 11
    BY <2>1 DEF Motion
  <2>3. /\ \A i \in 1..4 : p2[i] = p1[i]
        /\ \A i \in 1..7 : p2[4 + i] = Motion[i]
    BY DEF Motion
  <2> HIDE DEF p1, p2
  <2>4. AreTogether(p1, Motion, p2, 4, 7)
    BY <2>2, <2>3 DEF AreTogether
  <2> QED
    BY <2>4, Together
<1>3. p2 \o f3 = ClassB
  <2>1. /\ \A i \in 1..11 : p2[i] \in KindsOfField
        /\ \A i \in 1..1 : f3[i] \in KindsOfField
        /\ \A i \in 1..12 : ClassB[i] \in KindsOfField
    BY DEF ClassB, KindsOfField, TextFields, FieldNames
  <2>2. /\ p2 \in Seq(KindsOfField) /\ f3 \in Seq(KindsOfField) /\ ClassB \in Seq(KindsOfField)
        /\ Len(p2) = 11 /\ Len(f3) = 1 /\ Len(ClassB) = 12
    BY <2>1 DEF ClassB
  <2>3. /\ \A i \in 1..11 : ClassB[i] = p2[i]
        /\ \A i \in 1..1 : ClassB[11 + i] = f3[i]
    BY DEF ClassB
  <2> HIDE DEF p2, f3
  <2>4. AreTogether(p2, f3, ClassB, 11, 1)
    BY <2>2, <2>3 DEF AreTogether
  <2> QED
    BY <2>4, Together
<1>4. Layout(m) = Header \o f1 \o Motion \o f3
  BY DEF Layout
<1>5. ClassB \in Seq(KindsOfField) /\ Len(ClassB) = 12
  <2>1. \A i \in 1..12 : ClassB[i] \in KindsOfField
    BY DEF ClassB, KindsOfField, TextFields, FieldNames
  <2> QED
    BY <2>1 DEF ClassB
<1> HIDE DEF f1, f3, p1, p2
<1>6. Layout(m) = ClassB
  BY <1>1, <1>2, <1>3, <1>4, Zenon
<1> QED
  BY <1>5, <1>6 DEF Laid

LEMMA ClassBExtendedIs ==
    ASSUME NEW m, m.type = 19
    PROVE  Layout(m) = ClassBExtended /\ Laid(m) /\ Len(ClassBExtended) = 19
<1> DEFINE f1 == <<<<"spare", 8>>>>
           f3 == <<<<"spare", 4>>, <<"name", 120>>, <<"shipType", 8>>>>
           f5 == <<<<"rest", 11>>>>
           p1 == <<<<"type", 6>>, <<"repeat", 2>>, <<"mmsi", 30>>, <<"spare", 8>>>>
           p2 == <<<<"type", 6>>, <<"repeat", 2>>, <<"mmsi", 30>>, <<"spare", 8>>, <<"sog", 10>>,
                   <<"accuracy", 1>>, <<"lon", 28>>, <<"lat", 27>>, <<"cog", 12>>,
                   <<"heading", 9>>, <<"second", 6>>>>
           p3 == <<<<"type", 6>>, <<"repeat", 2>>, <<"mmsi", 30>>, <<"spare", 8>>, <<"sog", 10>>,
                   <<"accuracy", 1>>, <<"lon", 28>>, <<"lat", 27>>, <<"cog", 12>>,
                   <<"heading", 9>>, <<"second", 6>>, <<"spare", 4>>, <<"name", 120>>,
                   <<"shipType", 8>>>>
           p4 == <<<<"type", 6>>, <<"repeat", 2>>, <<"mmsi", 30>>, <<"spare", 8>>, <<"sog", 10>>,
                   <<"accuracy", 1>>, <<"lon", 28>>, <<"lat", 27>>, <<"cog", 12>>,
                   <<"heading", 9>>, <<"second", 6>>, <<"spare", 4>>, <<"name", 120>>,
                   <<"shipType", 8>>, <<"bow", 9>>, <<"stern", 9>>, <<"port", 6>>,
                   <<"starboard", 6>>>>
<1>1. Header \o f1 = p1
  <2>1. /\ \A i \in 1..3 : Header[i] \in KindsOfField
        /\ \A i \in 1..1 : f1[i] \in KindsOfField
        /\ \A i \in 1..4 : p1[i] \in KindsOfField
    BY DEF Header, KindsOfField, TextFields, FieldNames
  <2>2. /\ Header \in Seq(KindsOfField) /\ f1 \in Seq(KindsOfField) /\ p1 \in Seq(KindsOfField)
        /\ Len(Header) = 3 /\ Len(f1) = 1 /\ Len(p1) = 4
    BY <2>1 DEF Header
  <2>3. /\ \A i \in 1..3 : p1[i] = Header[i]
        /\ \A i \in 1..1 : p1[3 + i] = f1[i]
    BY DEF Header
  <2> HIDE DEF f1, p1
  <2>4. AreTogether(Header, f1, p1, 3, 1)
    BY <2>2, <2>3 DEF AreTogether
  <2> QED
    BY <2>4, Together
<1>2. p1 \o Motion = p2
  <2>1. /\ \A i \in 1..4 : p1[i] \in KindsOfField
        /\ \A i \in 1..7 : Motion[i] \in KindsOfField
        /\ \A i \in 1..11 : p2[i] \in KindsOfField
    BY DEF Motion, KindsOfField, TextFields, FieldNames
  <2>2. /\ p1 \in Seq(KindsOfField) /\ Motion \in Seq(KindsOfField) /\ p2 \in Seq(KindsOfField)
        /\ Len(p1) = 4 /\ Len(Motion) = 7 /\ Len(p2) = 11
    BY <2>1 DEF Motion
  <2>3. /\ \A i \in 1..4 : p2[i] = p1[i]
        /\ \A i \in 1..7 : p2[4 + i] = Motion[i]
    BY DEF Motion
  <2> HIDE DEF p1, p2
  <2>4. AreTogether(p1, Motion, p2, 4, 7)
    BY <2>2, <2>3 DEF AreTogether
  <2> QED
    BY <2>4, Together
<1>3. p2 \o f3 = p3
  <2>1. /\ \A i \in 1..11 : p2[i] \in KindsOfField
        /\ \A i \in 1..3 : f3[i] \in KindsOfField
        /\ \A i \in 1..14 : p3[i] \in KindsOfField
    BY DEF KindsOfField, TextFields, FieldNames
  <2>2. /\ p2 \in Seq(KindsOfField) /\ f3 \in Seq(KindsOfField) /\ p3 \in Seq(KindsOfField)
        /\ Len(p2) = 11 /\ Len(f3) = 3 /\ Len(p3) = 14
    BY <2>1
  <2>3. /\ \A i \in 1..11 : p3[i] = p2[i]
        /\ \A i \in 1..3 : p3[11 + i] = f3[i]
    OBVIOUS
  <2> HIDE DEF p2, f3, p3
  <2>4. AreTogether(p2, f3, p3, 11, 3)
    BY <2>2, <2>3 DEF AreTogether
  <2> QED
    BY <2>4, Together
<1>4. p3 \o Size = p4
  <2>1. /\ \A i \in 1..14 : p3[i] \in KindsOfField
        /\ \A i \in 1..4 : Size[i] \in KindsOfField
        /\ \A i \in 1..18 : p4[i] \in KindsOfField
    BY DEF Size, KindsOfField, TextFields, FieldNames
  <2>2. /\ p3 \in Seq(KindsOfField) /\ Size \in Seq(KindsOfField) /\ p4 \in Seq(KindsOfField)
        /\ Len(p3) = 14 /\ Len(Size) = 4 /\ Len(p4) = 18
    BY <2>1 DEF Size
  <2>3. /\ \A i \in 1..14 : p4[i] = p3[i]
        /\ \A i \in 1..4 : p4[14 + i] = Size[i]
    BY DEF Size
  <2> HIDE DEF p3, p4
  <2>4. AreTogether(p3, Size, p4, 14, 4)
    BY <2>2, <2>3 DEF AreTogether
  <2> QED
    BY <2>4, Together
<1>5. p4 \o f5 = ClassBExtended
  <2>1. /\ \A i \in 1..18 : p4[i] \in KindsOfField
        /\ \A i \in 1..1 : f5[i] \in KindsOfField
        /\ \A i \in 1..19 : ClassBExtended[i] \in KindsOfField
    BY DEF ClassBExtended, KindsOfField, TextFields, FieldNames
  <2>2. /\ p4 \in Seq(KindsOfField) /\ f5 \in Seq(KindsOfField) /\ ClassBExtended \in Seq(KindsOfField)
        /\ Len(p4) = 18 /\ Len(f5) = 1 /\ Len(ClassBExtended) = 19
    BY <2>1 DEF ClassBExtended
  <2>3. /\ \A i \in 1..18 : ClassBExtended[i] = p4[i]
        /\ \A i \in 1..1 : ClassBExtended[18 + i] = f5[i]
    BY DEF ClassBExtended
  <2> HIDE DEF p4, f5
  <2>4. AreTogether(p4, f5, ClassBExtended, 18, 1)
    BY <2>2, <2>3 DEF AreTogether
  <2> QED
    BY <2>4, Together
<1>6. Layout(m) = Header \o f1 \o Motion \o f3 \o Size \o f5
  BY DEF Layout
<1>7. ClassBExtended \in Seq(KindsOfField) /\ Len(ClassBExtended) = 19
  <2>1. \A i \in 1..19 : ClassBExtended[i] \in KindsOfField
    BY DEF ClassBExtended, KindsOfField, TextFields, FieldNames
  <2> QED
    BY <2>1 DEF ClassBExtended
<1> HIDE DEF f1, f3, f5, p1, p2, p3, p4
<1>8. Layout(m) = ClassBExtended
  BY <1>1, <1>2, <1>3, <1>4, <1>5, <1>6, Zenon
<1> QED
  BY <1>7, <1>8 DEF Laid

LEMMA StaticAIs ==
    ASSUME NEW m, m.type = 5
    PROVE  Layout(m) = StaticA /\ Laid(m) /\ Len(StaticA) = 17
<1> DEFINE f1 == <<<<"version", 2>>, <<"imo", 30>>, <<"callsign", 42>>, <<"name", 120>>, <<"shipType", 8>>>>
           f3 == <<<<"fixing", 4>>, <<"arrival", 20>>, <<"draught", 8>>, <<"destination", 120>>,
                   <<"rest", 2>>>>
           p1 == <<<<"type", 6>>, <<"repeat", 2>>, <<"mmsi", 30>>, <<"version", 2>>, <<"imo", 30>>,
                   <<"callsign", 42>>, <<"name", 120>>, <<"shipType", 8>>>>
           p2 == <<<<"type", 6>>, <<"repeat", 2>>, <<"mmsi", 30>>, <<"version", 2>>, <<"imo", 30>>,
                   <<"callsign", 42>>, <<"name", 120>>, <<"shipType", 8>>, <<"bow", 9>>,
                   <<"stern", 9>>, <<"port", 6>>, <<"starboard", 6>>>>
<1>1. Header \o f1 = p1
  <2>1. /\ \A i \in 1..3 : Header[i] \in KindsOfField
        /\ \A i \in 1..5 : f1[i] \in KindsOfField
        /\ \A i \in 1..8 : p1[i] \in KindsOfField
    BY DEF Header, KindsOfField, TextFields, FieldNames
  <2>2. /\ Header \in Seq(KindsOfField) /\ f1 \in Seq(KindsOfField) /\ p1 \in Seq(KindsOfField)
        /\ Len(Header) = 3 /\ Len(f1) = 5 /\ Len(p1) = 8
    BY <2>1 DEF Header
  <2>3. /\ \A i \in 1..3 : p1[i] = Header[i]
        /\ \A i \in 1..5 : p1[3 + i] = f1[i]
    BY DEF Header
  <2> HIDE DEF f1, p1
  <2>4. AreTogether(Header, f1, p1, 3, 5)
    BY <2>2, <2>3 DEF AreTogether
  <2> QED
    BY <2>4, Together
<1>2. p1 \o Size = p2
  <2>1. /\ \A i \in 1..8 : p1[i] \in KindsOfField
        /\ \A i \in 1..4 : Size[i] \in KindsOfField
        /\ \A i \in 1..12 : p2[i] \in KindsOfField
    BY DEF Size, KindsOfField, TextFields, FieldNames
  <2>2. /\ p1 \in Seq(KindsOfField) /\ Size \in Seq(KindsOfField) /\ p2 \in Seq(KindsOfField)
        /\ Len(p1) = 8 /\ Len(Size) = 4 /\ Len(p2) = 12
    BY <2>1 DEF Size
  <2>3. /\ \A i \in 1..8 : p2[i] = p1[i]
        /\ \A i \in 1..4 : p2[8 + i] = Size[i]
    BY DEF Size
  <2> HIDE DEF p1, p2
  <2>4. AreTogether(p1, Size, p2, 8, 4)
    BY <2>2, <2>3 DEF AreTogether
  <2> QED
    BY <2>4, Together
<1>3. p2 \o f3 = StaticA
  <2>1. /\ \A i \in 1..12 : p2[i] \in KindsOfField
        /\ \A i \in 1..5 : f3[i] \in KindsOfField
        /\ \A i \in 1..17 : StaticA[i] \in KindsOfField
    BY DEF StaticA, KindsOfField, TextFields, FieldNames
  <2>2. /\ p2 \in Seq(KindsOfField) /\ f3 \in Seq(KindsOfField) /\ StaticA \in Seq(KindsOfField)
        /\ Len(p2) = 12 /\ Len(f3) = 5 /\ Len(StaticA) = 17
    BY <2>1 DEF StaticA
  <2>3. /\ \A i \in 1..12 : StaticA[i] = p2[i]
        /\ \A i \in 1..5 : StaticA[12 + i] = f3[i]
    BY DEF StaticA
  <2> HIDE DEF p2, f3
  <2>4. AreTogether(p2, f3, StaticA, 12, 5)
    BY <2>2, <2>3 DEF AreTogether
  <2> QED
    BY <2>4, Together
<1>4. Layout(m) = Header \o f1 \o Size \o f3
  BY DEF Layout
<1>5. StaticA \in Seq(KindsOfField) /\ Len(StaticA) = 17
  <2>1. \A i \in 1..17 : StaticA[i] \in KindsOfField
    BY DEF StaticA, KindsOfField, TextFields, FieldNames
  <2> QED
    BY <2>1 DEF StaticA
<1> HIDE DEF f1, f3, p1, p2
<1>6. Layout(m) = StaticA
  BY <1>1, <1>2, <1>3, <1>4, Zenon
<1> QED
  BY <1>5, <1>6 DEF Laid

LEMMA StaticBNameIs ==
    ASSUME NEW m, m.type = 24, m.part = 0
    PROVE  Layout(m) = StaticBName /\ Laid(m) /\ Len(StaticBName) = 6
<1> DEFINE f1 == <<<<"part", 2>>, <<"name", 120>>, <<"rest", 8>>>>
<1>1. Header \o f1 = StaticBName
  <2>1. /\ \A i \in 1..3 : Header[i] \in KindsOfField
        /\ \A i \in 1..3 : f1[i] \in KindsOfField
        /\ \A i \in 1..6 : StaticBName[i] \in KindsOfField
    BY DEF Header, StaticBName, KindsOfField, TextFields, FieldNames
  <2>2. /\ Header \in Seq(KindsOfField) /\ f1 \in Seq(KindsOfField) /\ StaticBName \in Seq(KindsOfField)
        /\ Len(Header) = 3 /\ Len(f1) = 3 /\ Len(StaticBName) = 6
    BY <2>1 DEF Header, StaticBName
  <2>3. /\ \A i \in 1..3 : StaticBName[i] = Header[i]
        /\ \A i \in 1..3 : StaticBName[3 + i] = f1[i]
    BY DEF Header, StaticBName
  <2> HIDE DEF f1
  <2>4. AreTogether(Header, f1, StaticBName, 3, 3)
    BY <2>2, <2>3 DEF AreTogether
  <2> QED
    BY <2>4, Together
<1>2. Layout(m) = Header \o f1
  BY DEF Layout
<1>3. StaticBName \in Seq(KindsOfField) /\ Len(StaticBName) = 6
  <2>1. \A i \in 1..6 : StaticBName[i] \in KindsOfField
    BY DEF StaticBName, KindsOfField, TextFields, FieldNames
  <2> QED
    BY <2>1 DEF StaticBName
<1> HIDE DEF f1
<1>4. Layout(m) = StaticBName
  BY <1>1, <1>2, Zenon
<1> QED
  BY <1>3, <1>4 DEF Laid

LEMMA StaticBRestIs ==
    ASSUME NEW m, m.type = 24, m.part = 1
    PROVE  Layout(m) = StaticBRest /\ Laid(m) /\ Len(StaticBRest) = 13
<1> DEFINE f1 == <<<<"part", 2>>, <<"shipType", 8>>, <<"maker", 21>>, <<"serial", 21>>, <<"callsign", 42>>>>
           f3 == <<<<"rest", 6>>>>
           p1 == <<<<"type", 6>>, <<"repeat", 2>>, <<"mmsi", 30>>, <<"part", 2>>, <<"shipType", 8>>,
                   <<"maker", 21>>, <<"serial", 21>>, <<"callsign", 42>>>>
           p2 == <<<<"type", 6>>, <<"repeat", 2>>, <<"mmsi", 30>>, <<"part", 2>>, <<"shipType", 8>>,
                   <<"maker", 21>>, <<"serial", 21>>, <<"callsign", 42>>, <<"bow", 9>>,
                   <<"stern", 9>>, <<"port", 6>>, <<"starboard", 6>>>>
<1>1. Header \o f1 = p1
  <2>1. /\ \A i \in 1..3 : Header[i] \in KindsOfField
        /\ \A i \in 1..5 : f1[i] \in KindsOfField
        /\ \A i \in 1..8 : p1[i] \in KindsOfField
    BY DEF Header, KindsOfField, TextFields, FieldNames
  <2>2. /\ Header \in Seq(KindsOfField) /\ f1 \in Seq(KindsOfField) /\ p1 \in Seq(KindsOfField)
        /\ Len(Header) = 3 /\ Len(f1) = 5 /\ Len(p1) = 8
    BY <2>1 DEF Header
  <2>3. /\ \A i \in 1..3 : p1[i] = Header[i]
        /\ \A i \in 1..5 : p1[3 + i] = f1[i]
    BY DEF Header
  <2> HIDE DEF f1, p1
  <2>4. AreTogether(Header, f1, p1, 3, 5)
    BY <2>2, <2>3 DEF AreTogether
  <2> QED
    BY <2>4, Together
<1>2. p1 \o Size = p2
  <2>1. /\ \A i \in 1..8 : p1[i] \in KindsOfField
        /\ \A i \in 1..4 : Size[i] \in KindsOfField
        /\ \A i \in 1..12 : p2[i] \in KindsOfField
    BY DEF Size, KindsOfField, TextFields, FieldNames
  <2>2. /\ p1 \in Seq(KindsOfField) /\ Size \in Seq(KindsOfField) /\ p2 \in Seq(KindsOfField)
        /\ Len(p1) = 8 /\ Len(Size) = 4 /\ Len(p2) = 12
    BY <2>1 DEF Size
  <2>3. /\ \A i \in 1..8 : p2[i] = p1[i]
        /\ \A i \in 1..4 : p2[8 + i] = Size[i]
    BY DEF Size
  <2> HIDE DEF p1, p2
  <2>4. AreTogether(p1, Size, p2, 8, 4)
    BY <2>2, <2>3 DEF AreTogether
  <2> QED
    BY <2>4, Together
<1>3. p2 \o f3 = StaticBRest
  <2>1. /\ \A i \in 1..12 : p2[i] \in KindsOfField
        /\ \A i \in 1..1 : f3[i] \in KindsOfField
        /\ \A i \in 1..13 : StaticBRest[i] \in KindsOfField
    BY DEF StaticBRest, KindsOfField, TextFields, FieldNames
  <2>2. /\ p2 \in Seq(KindsOfField) /\ f3 \in Seq(KindsOfField) /\ StaticBRest \in Seq(KindsOfField)
        /\ Len(p2) = 12 /\ Len(f3) = 1 /\ Len(StaticBRest) = 13
    BY <2>1 DEF StaticBRest
  <2>3. /\ \A i \in 1..12 : StaticBRest[i] = p2[i]
        /\ \A i \in 1..1 : StaticBRest[12 + i] = f3[i]
    BY DEF StaticBRest
  <2> HIDE DEF p2, f3
  <2>4. AreTogether(p2, f3, StaticBRest, 12, 1)
    BY <2>2, <2>3 DEF AreTogether
  <2> QED
    BY <2>4, Together
<1>4. Layout(m) = Header \o f1 \o Size \o f3
  BY DEF Layout
<1>5. StaticBRest \in Seq(KindsOfField) /\ Len(StaticBRest) = 13
  <2>1. \A i \in 1..13 : StaticBRest[i] \in KindsOfField
    BY DEF StaticBRest, KindsOfField, TextFields, FieldNames
  <2> QED
    BY <2>1 DEF StaticBRest
<1> HIDE DEF f1, f3, p1, p2
<1>6. Layout(m) = StaticBRest
  BY <1>1, <1>2, <1>3, <1>4, Zenon
<1> QED
  BY <1>5, <1>6 DEF Laid

-----------------------------------------------------------------------------
(* A field of a message, its value as the message may send it and as it is read from
   where the message has it. *)
FieldTold(m, cut, name, width, at) ==
    /\ name \in DOMAIN m /\ Sendable(m[name], name, width)
    /\ name \in TextFields => Text(cut, at, width \div 6) = m[name].reads
    /\ name \notin TextFields =>
          /\ m[name] \in Int
          /\ (IF name \in {"lon", "lat"} THEN Sint(cut, at, width) ELSE Uint(cut, at, width)) = m[name]

Stands(m, i, name, width, at) ==
    /\ i \in 1..Len(Layout(m)) /\ Layout(m)[i] = <<name, width>> /\ Ends(Layout(m))[i - 1] = at
    /\ name \notin Unheard

LEMMA FieldIsTold ==
    ASSUME NEW m \in AisMessages, Laid(m), NEW n \in 0..BitCount(m),
           NEW cut, IsCut(cut, {0, 1}, MessageBits(m), 0, n),
           NEW i, NEW name, NEW width, NEW at, Stands(m, i, name, width, at), at + width <= n
    PROVE  FieldTold(m, cut, name, width, at)
<1> USE DEF Stands
<1> DEFINE field == <<name, width>>
<1>1. field[1] = name /\ field[2] = width /\ field = Layout(m)[i]
  OBVIOUS
<1> HIDE DEF field
<1>2. field \in KindsOfField /\ name \in DOMAIN m /\ Sendable(m[name], name, width)
  BY <1>1, FieldsHeard
<1>3. width \in Nat /\ width > 0 /\ (name \in TextFields => width = 6 * (width \div 6))
  BY <1>1, <1>2 DEF KindsOfField
<1>4. BitCount(m) \in Nat
  BY MessageBitsAre
<1>5. n \in Nat /\ Len(cut) = n
  BY <1>4 DEF IsCut
<1>6. CASE name \in TextFields
  <2> DEFINE chars == width \div 6
             text == m[name]
  <2>1. /\ at \in Nat /\ TextIs(text, chars)
        /\ \A c \in 1..chars : Uint(cut, at + 6 * (c - 1), 6) = text.six[c]
    BY <1>1, <1>6, CharactersRead
  <2>2. chars \in Nat /\ chars > 0 /\ at + 6 * chars <= n
    BY <1>3, <1>6, <2>1
  <2> HIDE DEF chars, text
  <2>3. Text(cut, at, chars) = text.reads
    BY <1>5, <2>1, <2>2, TextReads
  <2> QED
    BY <1>2, <1>6, <2>3 DEF FieldTold, chars, text
<1>7. CASE name \notin TextFields
  <2>1. IsRead(m, field, cut, at) /\ m[field[1]] \in Int
    BY <1>1, <1>7, NumberReads
  <2> QED
    BY <1>1, <1>2, <1>7, <2>1 DEF FieldTold, IsRead
<1> QED
  BY <1>6, <1>7

(* A field that a message does not have has no value. *)
LEMMA NotSent ==
    ASSUME NEW m \in AisMessages, Laid(m), NEW name,
           \A i \in 1..Len(Layout(m)) : Layout(m)[i][1] # name
    PROVE  name \notin DOMAIN m
<1> DEFINE layout == Layout(m)
           sent == {layout[i][1] : i \in DOMAIN layout}
<1>1. m = [x \in sent \ Unheard |-> m[x]]
  BY AisAssumption
<1>2. DOMAIN m = sent \ Unheard
  <2> HIDE DEF sent
  <2> QED
    BY <1>1
<1>3. DOMAIN layout = 1..Len(layout)
  BY LenProperties DEF Laid
<1> QED
  BY <1>2, <1>3

(* What is read of a message is what its bits say. *)
LEMMA DecodesTheCut ==
    ASSUME NEW m \in AisMessages, Laid(m), NEW n \in 0..BitCount(m)
    PROVE  \E cut : /\ IsCut(cut, {0, 1}, MessageBits(m), 0, n)
                    /\ Decode(Characters(MessageBits(m), n), Fill(n)) = Decoded(cut)
<1>1. BitCount(m) \in Nat /\ IsBits(MessageBits(m), BitCount(m))
  BY MessageBitsAre
<1>2. PICK cut : /\ IsCut(cut, {0, 1}, MessageBits(m), 0, n)
                 /\ Unpacked(Characters(MessageBits(m), n), Fill(n)) = Known(cut)
  BY <1>1, PackedReads
<1>3. Known(cut) # Missing /\ Known(cut)[1] = cut
  BY DEF Known, Missing
<1>4. Decode(Characters(MessageBits(m), n), Fill(n)) = Decoded(cut)
  <2> DEFINE payload == Characters(MessageBits(m), n)
             fill == Fill(n)
  <2>1. Unpacked(payload, fill) = Known(cut)
    BY <1>2
  <2> HIDE DEF payload, fill
  <2>2. Unpacked(payload, fill) # Missing /\ Unpacked(payload, fill)[1] = cut
    BY <1>3, <2>1
  <2>3. Decode(payload, fill) = Decoded(cut)
    BY <2>2, Zenon DEF Decode
  <2> QED
    BY <2>3 DEF payload, fill
<1> QED
  BY <1>2, <1>4

(* The fields of each type of message, where its layout has them. *)
LEMMA ClassATold ==
    ASSUME NEW m \in AisMessages, m.type \in 1..3, NEW n \in 0..BitCount(m),
           NEW cut, IsCut(cut, {0, 1}, MessageBits(m), 0, n)
    PROVE  /\ BitCount(m) = 168
           /\ n >= 38 => FieldTold(m, cut, "type", 6, 0) /\ FieldTold(m, cut, "mmsi", 30, 8)
           /\ n >= 168 =>
              /\ FieldTold(m, cut, "status", 4, 38)
              /\ FieldTold(m, cut, "sog", 10, 50)
              /\ FieldTold(m, cut, "lon", 28, 61)
              /\ FieldTold(m, cut, "lat", 27, 89)
              /\ FieldTold(m, cut, "cog", 12, 116)
              /\ FieldTold(m, cut, "heading", 9, 128)
<1> DEFINE end == Ends(Layout(m))
<1>1. Layout(m) = ClassA /\ Laid(m) /\ Len(ClassA) = 13
  BY ClassAIs
<1>2. AreEnds(end, ClassA)
  BY <1>1, EndsInOrder DEF Laid
<1> HIDE DEF end
<1>3. /\ end[0] = 0 /\ end[1] = 6 /\ end[2] = 8 /\ end[3] = 38 /\ end[4] = 42 /\ end[5] = 50
      /\ end[6] = 60 /\ end[7] = 61 /\ end[8] = 89 /\ end[9] = 116 /\ end[10] = 128 /\ end[11] = 137
      /\ end[12] = 143 /\ end[13] = 168
  <2>1. end[0] = 0 /\ \A i \in 1..13 : end[i] = end[i - 1] + ClassA[i][2]
    BY <1>1, <1>2 DEF AreEnds
  <2> QED
    BY <2>1 DEF ClassA
<1>4. BitCount(m) = 168
  BY <1>1, <1>3 DEF BitCount, end
<1>5. /\ Stands(m, 1, "type", 6, 0)
      /\ Stands(m, 3, "mmsi", 30, 8)
      /\ Stands(m, 4, "status", 4, 38)
      /\ Stands(m, 6, "sog", 10, 50)
      /\ Stands(m, 8, "lon", 28, 61)
      /\ Stands(m, 9, "lat", 27, 89)
      /\ Stands(m, 10, "cog", 12, 116)
      /\ Stands(m, 11, "heading", 9, 128)
  BY <1>1, <1>3 DEF Stands, ClassA, Unheard, end
<1>6. n >= 38 => FieldTold(m, cut, "type", 6, 0) /\ FieldTold(m, cut, "mmsi", 30, 8)
  BY <1>1, <1>5, FieldIsTold
<1>7. n >= 168 =>
         /\ FieldTold(m, cut, "status", 4, 38)
         /\ FieldTold(m, cut, "sog", 10, 50)
         /\ FieldTold(m, cut, "lon", 28, 61)
         /\ FieldTold(m, cut, "lat", 27, 89)
         /\ FieldTold(m, cut, "cog", 12, 116)
         /\ FieldTold(m, cut, "heading", 9, 128)
  BY <1>1, <1>5, FieldIsTold
<1> QED
  BY <1>4, <1>6, <1>7

LEMMA ClassBTold ==
    ASSUME NEW m \in AisMessages, m.type = 18, NEW n \in 0..BitCount(m),
           NEW cut, IsCut(cut, {0, 1}, MessageBits(m), 0, n)
    PROVE  /\ BitCount(m) = 168
           /\ n >= 38 => FieldTold(m, cut, "type", 6, 0) /\ FieldTold(m, cut, "mmsi", 30, 8)
           /\ n >= 168 =>
              /\ FieldTold(m, cut, "sog", 10, 46)
              /\ FieldTold(m, cut, "lon", 28, 57)
              /\ FieldTold(m, cut, "lat", 27, 85)
              /\ FieldTold(m, cut, "cog", 12, 112)
              /\ FieldTold(m, cut, "heading", 9, 124)
<1> DEFINE end == Ends(Layout(m))
<1>1. Layout(m) = ClassB /\ Laid(m) /\ Len(ClassB) = 12
  BY ClassBIs
<1>2. AreEnds(end, ClassB)
  BY <1>1, EndsInOrder DEF Laid
<1> HIDE DEF end
<1>3. /\ end[0] = 0 /\ end[1] = 6 /\ end[2] = 8 /\ end[3] = 38 /\ end[4] = 46 /\ end[5] = 56
      /\ end[6] = 57 /\ end[7] = 85 /\ end[8] = 112 /\ end[9] = 124 /\ end[10] = 133 /\ end[11] = 139
      /\ end[12] = 168
  <2>1. end[0] = 0 /\ \A i \in 1..12 : end[i] = end[i - 1] + ClassB[i][2]
    BY <1>1, <1>2 DEF AreEnds
  <2> QED
    BY <2>1 DEF ClassB
<1>4. BitCount(m) = 168
  BY <1>1, <1>3 DEF BitCount, end
<1>5. /\ Stands(m, 1, "type", 6, 0)
      /\ Stands(m, 3, "mmsi", 30, 8)
      /\ Stands(m, 5, "sog", 10, 46)
      /\ Stands(m, 7, "lon", 28, 57)
      /\ Stands(m, 8, "lat", 27, 85)
      /\ Stands(m, 9, "cog", 12, 112)
      /\ Stands(m, 10, "heading", 9, 124)
  BY <1>1, <1>3 DEF Stands, ClassB, Unheard, end
<1>6. n >= 38 => FieldTold(m, cut, "type", 6, 0) /\ FieldTold(m, cut, "mmsi", 30, 8)
  BY <1>1, <1>5, FieldIsTold
<1>7. n >= 168 =>
         /\ FieldTold(m, cut, "sog", 10, 46)
         /\ FieldTold(m, cut, "lon", 28, 57)
         /\ FieldTold(m, cut, "lat", 27, 85)
         /\ FieldTold(m, cut, "cog", 12, 112)
         /\ FieldTold(m, cut, "heading", 9, 124)
  BY <1>1, <1>5, FieldIsTold
<1> QED
  BY <1>4, <1>6, <1>7

LEMMA ClassBExtendedTold ==
    ASSUME NEW m \in AisMessages, m.type = 19, NEW n \in 0..BitCount(m),
           NEW cut, IsCut(cut, {0, 1}, MessageBits(m), 0, n)
    PROVE  /\ BitCount(m) = 312
           /\ n >= 38 => FieldTold(m, cut, "type", 6, 0) /\ FieldTold(m, cut, "mmsi", 30, 8)
           /\ n >= 312 =>
              /\ FieldTold(m, cut, "sog", 10, 46)
              /\ FieldTold(m, cut, "lon", 28, 57)
              /\ FieldTold(m, cut, "lat", 27, 85)
              /\ FieldTold(m, cut, "cog", 12, 112)
              /\ FieldTold(m, cut, "heading", 9, 124)
              /\ FieldTold(m, cut, "name", 120, 143)
              /\ FieldTold(m, cut, "shipType", 8, 263)
              /\ FieldTold(m, cut, "bow", 9, 271)
              /\ FieldTold(m, cut, "stern", 9, 280)
              /\ FieldTold(m, cut, "port", 6, 289)
              /\ FieldTold(m, cut, "starboard", 6, 295)
           /\ {"callsign", "destination"} \cap DOMAIN m = {}
<1> DEFINE end == Ends(Layout(m))
<1>1. Layout(m) = ClassBExtended /\ Laid(m) /\ Len(ClassBExtended) = 19
  BY ClassBExtendedIs
<1>2. AreEnds(end, ClassBExtended)
  BY <1>1, EndsInOrder DEF Laid
<1> HIDE DEF end
<1>3. /\ end[0] = 0 /\ end[1] = 6 /\ end[2] = 8 /\ end[3] = 38 /\ end[4] = 46 /\ end[5] = 56
      /\ end[6] = 57 /\ end[7] = 85 /\ end[8] = 112 /\ end[9] = 124 /\ end[10] = 133 /\ end[11] = 139
      /\ end[12] = 143 /\ end[13] = 263 /\ end[14] = 271 /\ end[15] = 280 /\ end[16] = 289 /\ end[17] = 295
      /\ end[18] = 301 /\ end[19] = 312
  <2>1. end[0] = 0 /\ \A i \in 1..19 : end[i] = end[i - 1] + ClassBExtended[i][2]
    BY <1>1, <1>2 DEF AreEnds
  <2> QED
    BY <2>1 DEF ClassBExtended
<1>4. BitCount(m) = 312
  BY <1>1, <1>3 DEF BitCount, end
<1>5. /\ Stands(m, 1, "type", 6, 0)
      /\ Stands(m, 3, "mmsi", 30, 8)
      /\ Stands(m, 5, "sog", 10, 46)
      /\ Stands(m, 7, "lon", 28, 57)
      /\ Stands(m, 8, "lat", 27, 85)
      /\ Stands(m, 9, "cog", 12, 112)
      /\ Stands(m, 10, "heading", 9, 124)
      /\ Stands(m, 13, "name", 120, 143)
      /\ Stands(m, 14, "shipType", 8, 263)
      /\ Stands(m, 15, "bow", 9, 271)
      /\ Stands(m, 16, "stern", 9, 280)
      /\ Stands(m, 17, "port", 6, 289)
      /\ Stands(m, 18, "starboard", 6, 295)
  BY <1>1, <1>3 DEF Stands, ClassBExtended, Unheard, end
<1>6. n >= 38 => FieldTold(m, cut, "type", 6, 0) /\ FieldTold(m, cut, "mmsi", 30, 8)
  BY <1>1, <1>5, FieldIsTold
<1>7. n >= 312 =>
         /\ FieldTold(m, cut, "sog", 10, 46)
         /\ FieldTold(m, cut, "lon", 28, 57)
         /\ FieldTold(m, cut, "lat", 27, 85)
         /\ FieldTold(m, cut, "cog", 12, 112)
         /\ FieldTold(m, cut, "heading", 9, 124)
         /\ FieldTold(m, cut, "name", 120, 143)
         /\ FieldTold(m, cut, "shipType", 8, 263)
         /\ FieldTold(m, cut, "bow", 9, 271)
         /\ FieldTold(m, cut, "stern", 9, 280)
         /\ FieldTold(m, cut, "port", 6, 289)
         /\ FieldTold(m, cut, "starboard", 6, 295)
  BY <1>1, <1>5, FieldIsTold
<1>8. {"callsign", "destination"} \cap DOMAIN m = {}
  <2>1. \A i \in 1..19 : ClassBExtended[i][1] \notin {"callsign", "destination"}
    BY DEF ClassBExtended
  <2> QED
    BY <1>1, <2>1, NotSent
<1> QED
  BY <1>4, <1>6, <1>7, <1>8

LEMMA StaticATold ==
    ASSUME NEW m \in AisMessages, m.type = 5, NEW n \in 0..BitCount(m),
           NEW cut, IsCut(cut, {0, 1}, MessageBits(m), 0, n)
    PROVE  /\ BitCount(m) = 424
           /\ n >= 38 => FieldTold(m, cut, "type", 6, 0) /\ FieldTold(m, cut, "mmsi", 30, 8)
           /\ n >= 422 =>
              /\ FieldTold(m, cut, "callsign", 42, 70)
              /\ FieldTold(m, cut, "name", 120, 112)
              /\ FieldTold(m, cut, "shipType", 8, 232)
              /\ FieldTold(m, cut, "bow", 9, 240)
              /\ FieldTold(m, cut, "stern", 9, 249)
              /\ FieldTold(m, cut, "port", 6, 258)
              /\ FieldTold(m, cut, "starboard", 6, 264)
              /\ FieldTold(m, cut, "destination", 120, 302)
<1> DEFINE end == Ends(Layout(m))
<1>1. Layout(m) = StaticA /\ Laid(m) /\ Len(StaticA) = 17
  BY StaticAIs
<1>2. AreEnds(end, StaticA)
  BY <1>1, EndsInOrder DEF Laid
<1> HIDE DEF end
<1>3. /\ end[0] = 0 /\ end[1] = 6 /\ end[2] = 8 /\ end[3] = 38 /\ end[4] = 40 /\ end[5] = 70
      /\ end[6] = 112 /\ end[7] = 232 /\ end[8] = 240 /\ end[9] = 249 /\ end[10] = 258 /\ end[11] = 264
      /\ end[12] = 270 /\ end[13] = 274 /\ end[14] = 294 /\ end[15] = 302 /\ end[16] = 422 /\ end[17] = 424
  <2>1. end[0] = 0 /\ \A i \in 1..17 : end[i] = end[i - 1] + StaticA[i][2]
    BY <1>1, <1>2 DEF AreEnds
  <2> QED
    BY <2>1 DEF StaticA
<1>4. BitCount(m) = 424
  BY <1>1, <1>3 DEF BitCount, end
<1>5. /\ Stands(m, 1, "type", 6, 0)
      /\ Stands(m, 3, "mmsi", 30, 8)
      /\ Stands(m, 6, "callsign", 42, 70)
      /\ Stands(m, 7, "name", 120, 112)
      /\ Stands(m, 8, "shipType", 8, 232)
      /\ Stands(m, 9, "bow", 9, 240)
      /\ Stands(m, 10, "stern", 9, 249)
      /\ Stands(m, 11, "port", 6, 258)
      /\ Stands(m, 12, "starboard", 6, 264)
      /\ Stands(m, 16, "destination", 120, 302)
  BY <1>1, <1>3 DEF Stands, StaticA, Unheard, end
<1>6. n >= 38 => FieldTold(m, cut, "type", 6, 0) /\ FieldTold(m, cut, "mmsi", 30, 8)
  BY <1>1, <1>5, FieldIsTold
<1>7. n >= 422 =>
         /\ FieldTold(m, cut, "callsign", 42, 70)
         /\ FieldTold(m, cut, "name", 120, 112)
         /\ FieldTold(m, cut, "shipType", 8, 232)
         /\ FieldTold(m, cut, "bow", 9, 240)
         /\ FieldTold(m, cut, "stern", 9, 249)
         /\ FieldTold(m, cut, "port", 6, 258)
         /\ FieldTold(m, cut, "starboard", 6, 264)
         /\ FieldTold(m, cut, "destination", 120, 302)
  BY <1>1, <1>5, FieldIsTold
<1> QED
  BY <1>4, <1>6, <1>7

LEMMA StaticBNameTold ==
    ASSUME NEW m \in AisMessages, m.type = 24, m.part = 0, NEW n \in 0..BitCount(m),
           NEW cut, IsCut(cut, {0, 1}, MessageBits(m), 0, n)
    PROVE  /\ BitCount(m) = 168
           /\ n >= 38 => FieldTold(m, cut, "type", 6, 0) /\ FieldTold(m, cut, "mmsi", 30, 8)
           /\ n >= 40 => FieldTold(m, cut, "part", 2, 38)
           /\ n >= 160 =>
              /\ FieldTold(m, cut, "name", 120, 40)
           /\ {"callsign", "shipType", "bow", "destination"} \cap DOMAIN m = {}
<1> DEFINE end == Ends(Layout(m))
<1>1. Layout(m) = StaticBName /\ Laid(m) /\ Len(StaticBName) = 6
  BY StaticBNameIs
<1>2. AreEnds(end, StaticBName)
  BY <1>1, EndsInOrder DEF Laid
<1> HIDE DEF end
<1>3. /\ end[0] = 0 /\ end[1] = 6 /\ end[2] = 8 /\ end[3] = 38 /\ end[4] = 40 /\ end[5] = 160
      /\ end[6] = 168
  <2>1. end[0] = 0 /\ \A i \in 1..6 : end[i] = end[i - 1] + StaticBName[i][2]
    BY <1>1, <1>2 DEF AreEnds
  <2> QED
    BY <2>1 DEF StaticBName
<1>4. BitCount(m) = 168
  BY <1>1, <1>3 DEF BitCount, end
<1>5. /\ Stands(m, 1, "type", 6, 0)
      /\ Stands(m, 3, "mmsi", 30, 8)
      /\ Stands(m, 4, "part", 2, 38)
      /\ Stands(m, 5, "name", 120, 40)
  BY <1>1, <1>3 DEF Stands, StaticBName, Unheard, end
<1>6. n >= 38 => FieldTold(m, cut, "type", 6, 0) /\ FieldTold(m, cut, "mmsi", 30, 8)
  BY <1>1, <1>5, FieldIsTold
<1>7. n >= 160 =>
         /\ FieldTold(m, cut, "name", 120, 40)
  BY <1>1, <1>5, FieldIsTold
<1>8. n >= 40 => FieldTold(m, cut, "part", 2, 38)
  BY <1>1, <1>5, FieldIsTold
<1>9. {"callsign", "shipType", "bow", "destination"} \cap DOMAIN m = {}
  <2>1. \A i \in 1..6 : StaticBName[i][1] \notin {"callsign", "shipType", "bow", "destination"}
    BY DEF StaticBName
  <2> QED
    BY <1>1, <2>1, NotSent
<1> QED
  BY <1>4, <1>6, <1>7, <1>8, <1>9

LEMMA StaticBRestTold ==
    ASSUME NEW m \in AisMessages, m.type = 24, m.part = 1, NEW n \in 0..BitCount(m),
           NEW cut, IsCut(cut, {0, 1}, MessageBits(m), 0, n)
    PROVE  /\ BitCount(m) = 168
           /\ n >= 38 => FieldTold(m, cut, "type", 6, 0) /\ FieldTold(m, cut, "mmsi", 30, 8)
           /\ n >= 40 => FieldTold(m, cut, "part", 2, 38)
           /\ n >= 162 =>
              /\ FieldTold(m, cut, "shipType", 8, 40)
              /\ FieldTold(m, cut, "callsign", 42, 90)
              /\ FieldTold(m, cut, "bow", 9, 132)
              /\ FieldTold(m, cut, "stern", 9, 141)
              /\ FieldTold(m, cut, "port", 6, 150)
              /\ FieldTold(m, cut, "starboard", 6, 156)
           /\ {"name", "destination"} \cap DOMAIN m = {}
<1> DEFINE end == Ends(Layout(m))
<1>1. Layout(m) = StaticBRest /\ Laid(m) /\ Len(StaticBRest) = 13
  BY StaticBRestIs
<1>2. AreEnds(end, StaticBRest)
  BY <1>1, EndsInOrder DEF Laid
<1> HIDE DEF end
<1>3. /\ end[0] = 0 /\ end[1] = 6 /\ end[2] = 8 /\ end[3] = 38 /\ end[4] = 40 /\ end[5] = 48
      /\ end[6] = 69 /\ end[7] = 90 /\ end[8] = 132 /\ end[9] = 141 /\ end[10] = 150 /\ end[11] = 156
      /\ end[12] = 162 /\ end[13] = 168
  <2>1. end[0] = 0 /\ \A i \in 1..13 : end[i] = end[i - 1] + StaticBRest[i][2]
    BY <1>1, <1>2 DEF AreEnds
  <2> QED
    BY <2>1 DEF StaticBRest
<1>4. BitCount(m) = 168
  BY <1>1, <1>3 DEF BitCount, end
<1>5. /\ Stands(m, 1, "type", 6, 0)
      /\ Stands(m, 3, "mmsi", 30, 8)
      /\ Stands(m, 4, "part", 2, 38)
      /\ Stands(m, 5, "shipType", 8, 40)
      /\ Stands(m, 8, "callsign", 42, 90)
      /\ Stands(m, 9, "bow", 9, 132)
      /\ Stands(m, 10, "stern", 9, 141)
      /\ Stands(m, 11, "port", 6, 150)
      /\ Stands(m, 12, "starboard", 6, 156)
  BY <1>1, <1>3 DEF Stands, StaticBRest, Unheard, end
<1>6. n >= 38 => FieldTold(m, cut, "type", 6, 0) /\ FieldTold(m, cut, "mmsi", 30, 8)
  BY <1>1, <1>5, FieldIsTold
<1>7. n >= 162 =>
         /\ FieldTold(m, cut, "shipType", 8, 40)
         /\ FieldTold(m, cut, "callsign", 42, 90)
         /\ FieldTold(m, cut, "bow", 9, 132)
         /\ FieldTold(m, cut, "stern", 9, 141)
         /\ FieldTold(m, cut, "port", 6, 150)
         /\ FieldTold(m, cut, "starboard", 6, 156)
  BY <1>1, <1>5, FieldIsTold
<1>8. n >= 40 => FieldTold(m, cut, "part", 2, 38)
  BY <1>1, <1>5, FieldIsTold
<1>9. {"name", "destination"} \cap DOMAIN m = {}
  <2>1. \A i \in 1..13 : StaticBRest[i][1] \notin {"name", "destination"}
    BY DEF StaticBRest
  <2> QED
    BY <1>1, <2>1, NotSent
<1> QED
  BY <1>4, <1>6, <1>7, <1>8, <1>9

(* A position is read as it was sent, or not at all if it has no place. *)
LEMMA PlaceIsRead ==
    ASSUME NEW m, NEW cut, NEW at, NEW class, NEW status,
           FieldTold(m, cut, "sog", 10, at), FieldTold(m, cut, "lon", 28, at + 11),
           FieldTold(m, cut, "lat", 27, at + 39), FieldTold(m, cut, "cog", 12, at + 66),
           FieldTold(m, cut, "heading", 9, at + 78),
           status = IF class = "A" THEN Known(m.status) ELSE Missing
    PROVE  PositionReports(cut, m.mmsi, class, status, at) = PlaceRead(m, class)
<1> DEFINE lon == Sint(cut, at + 11, 28)
           lat == Sint(cut, at + 39, 27)
           sog == Uint(cut, at, 10)
           cog == Uint(cut, at + 66, 12)
           heading == Uint(cut, at + 78, 9)
<1>1. lon = m.lon /\ lat = m.lat /\ sog = m.sog /\ cog = m.cog /\ heading = m.heading
  BY DEF FieldTold, TextFields
<1>2. m.lon \in Int /\ m.lat \in Int /\ m.sog \in Int /\ m.cog \in Int /\ m.heading \in Int
  BY DEF FieldTold, TextFields
<1>3. /\ m.lon = 181 * Degree \/ m.lon \in -180 * Degree..180 * Degree
      /\ m.lat = 91 * Degree \/ m.lat \in -90 * Degree..90 * Degree
  <2>1. m.lon = 181 * Degree \/ m.lon \in -180 * Degree..180 * Degree
    BY DEF FieldTold, Sendable, TextFields
  <2>2. m.lat = 91 * Degree \/ m.lat \in -90 * Degree..90 * Degree
    BY DEF FieldTold, Sendable, TextFields
  <2> QED
    BY <2>1, <2>2
<1>4. /\ m.sog \in 0..(TwoTo(10) - 1) /\ 0 <= m.cog /\ m.cog <= 3600
      /\ m.heading = 511 \/ m.heading <= 359
  <2>1. m.sog \in 0..(TwoTo(10) - 1)
    BY DEF FieldTold, Sendable, TextFields
  <2>2. m.cog \in 0..3600
    BY DEF FieldTold, Sendable, TextFields
  <2>3. 0 <= m.cog /\ m.cog <= 3600
    <3> DEFINE courses == 0..3600
    <3>1. \A x \in courses : 0 <= x /\ x <= 3600
      BY SMT
    <3>2. m.cog \in courses
      BY <2>2
    <3> HIDE DEF courses
    <3> QED
      BY <3>1, <3>2
  <2>4. m.heading = 511 \/ m.heading \in 0..359
    BY DEF FieldTold, Sendable, TextFields
  <2> QED
    BY <2>1, <2>3, <2>4
<1>5. KnownIf(sog, sog < 1023) = Unless(m.sog, 1023)
  <2>1. TwoTo(10) = 1024
    BY PowersOfTwo, SMT
  <2>2. sog < 1023 <=> m.sog # 1023
    BY <1>1, <1>2, <1>4, <2>1
  <2> QED
    BY <1>1, <2>2 DEF KnownIf, Unless
<1>6. KnownIf(cog, cog < 3600) = Unless(m.cog, 3600)
  <2>1. cog < 3600 <=> m.cog # 3600
    BY <1>1, <1>2, <1>4
  <2> QED
    BY <1>1, <2>1 DEF KnownIf, Unless
<1>7. KnownIf(heading, heading < 360) = Unless(m.heading, 511)
  <2>1. heading < 360 <=> m.heading # 511
    BY <1>1, <1>2, <1>4
  <2> QED
    BY <1>1, <2>1 DEF KnownIf, Unless
<1>8. Degree \in Int /\ Degree > 0
  BY SMT DEF Degree
<1>9. (lon \notin -180 * Degree..180 * Degree <=> m.lon = 181 * Degree)
      /\ (lat \notin -90 * Degree..90 * Degree <=> m.lat = 91 * Degree)
  BY <1>1, <1>2, <1>3, <1>8
<1> HIDE DEF lon, lat, sog, cog, heading
<1>10. CASE m.lon = 181 * Degree \/ m.lat = 91 * Degree
  <2>1. PlaceRead(m, class) = <<>>
    BY <1>10, Zenon DEF PlaceRead
  <2>2. PositionReports(cut, m.mmsi, class, status, at) = <<>>
    BY <1>9, <1>10, Zenon DEF PositionReports, lon, lat, sog, cog, heading
  <2> QED
    BY <2>1, <2>2
<1>11. CASE ~(m.lon = 181 * Degree \/ m.lat = 91 * Degree)
  <2> DEFINE said == IF class = "A" THEN Known(m.status) ELSE Missing
  <2>1. PlaceRead(m, class) =
           <<[report |-> "position", mmsi |-> m.mmsi, class |-> class, status |-> said,
              lat |-> m.lat, lon |-> m.lon, sog |-> Unless(m.sog, 1023),
              cog |-> Unless(m.cog, 3600), heading |-> Unless(m.heading, 511)]>>
    BY <1>11, Zenon DEF PlaceRead
  <2>2. said = status
    OBVIOUS
  <2> HIDE DEF said
  <2>3. PositionReports(cut, m.mmsi, class, status, at) =
           <<[report |-> "position", mmsi |-> m.mmsi, class |-> class, status |-> status,
              lat |-> lat, lon |-> lon, sog |-> KnownIf(sog, sog < 1023),
              cog |-> KnownIf(cog, cog < 3600), heading |-> KnownIf(heading, heading < 360)]>>
    BY <1>9, <1>11, Zenon DEF PositionReports, lon, lat, sog, cog, heading
  <2> QED
    <3> DEFINE a == Unless(m.sog, 1023)
               b == Unless(m.cog, 3600)
               c == Unless(m.heading, 511)
    <3>1. PlaceRead(m, class) =
             <<[report |-> "position", mmsi |-> m.mmsi, class |-> class, status |-> status,
                lat |-> m.lat, lon |-> m.lon, sog |-> a, cog |-> b, heading |-> c]>>
      BY <2>1, <2>2
    <3>2. PositionReports(cut, m.mmsi, class, status, at) =
             <<[report |-> "position", mmsi |-> m.mmsi, class |-> class, status |-> status,
                lat |-> lat, lon |-> lon, sog |-> a, cog |-> b, heading |-> c]>>
      BY <1>5, <1>6, <1>7, <2>3
    <3> HIDE DEF a, b, c
    <3> QED
      BY <1>1, <3>1, <3>2
<1> QED
  BY <1>10, <1>11

(* The size of a vessel is what is to either side of its antenna. *)
LEMMA SizeIsRead ==
    ASSUME NEW m, NEW cut, NEW at \in Int,
           FieldTold(m, cut, "bow", 9, at), FieldTold(m, cut, "stern", 9, at + 9),
           FieldTold(m, cut, "port", 6, at + 18), FieldTold(m, cut, "starboard", 6, at + 24)
    PROVE  Dimensions(cut, at) = [length |-> Unless(m.bow + m.stern, 0),
                                  beam |-> Unless(m.port + m.starboard, 0)]
<1> DEFINE sum(offset, len) == Uint(cut, at + offset, len) + Uint(cut, at + offset + len, len)
<1>1. at + 0 = at /\ (at + 0) + 9 = at + 9 /\ (at + 18) + 6 = at + 24
  OBVIOUS
<1>2. sum(0, 9) = m.bow + m.stern /\ sum(18, 6) = m.port + m.starboard
  BY <1>1 DEF FieldTold, TextFields
<1>3. m.bow \in Nat /\ m.stern \in Nat /\ m.port \in Nat /\ m.starboard \in Nat
  BY DEF FieldTold, Sendable, TextFields
<1>4. sum(0, 9) > 0 <=> m.bow + m.stern # 0
  BY <1>2, <1>3
<1>5. sum(18, 6) > 0 <=> m.port + m.starboard # 0
  BY <1>2, <1>3
<1> QED
  BY <1>2, <1>4, <1>5, Zenon DEF Dimensions, KnownIf, Unless

(* An auxiliary craft's number says so. *)
LEMMA AuxiliaryIs ==
    ASSUME NEW mmsi \in Int, mmsi >= 0
    PROVE  IsAuxiliary(mmsi) <=> OfAnAuxiliary(mmsi)
  BY SMT DEF IsAuxiliary, OfAnAuxiliary

(* What is made of bits of a type and a number, by how many they are. *)
PartOf(bits) == IF Len(bits) >= 40 THEN Uint(bits, 38, 2) ELSE -1
Says(bits, type, mmsi, part) ==
    Uint(bits, 0, 6) = type /\ Uint(bits, 8, 30) = mmsi /\ PartOf(bits) = part

LEMMA TooShort ==
    ASSUME NEW bits, Len(bits) < 38 \/ ~LongEnough(Uint(bits, 0, 6), PartOf(bits), bits)
    PROVE  Decoded(bits) = <<>>
  BY DEF Decoded, PartOf

LEMMA OfNobody ==
    ASSUME NEW bits, NEW type, NEW part, Says(bits, type, 0, part)
    PROVE  Decoded(bits) = <<>>
  BY DEF Decoded, Says

LEMMA LongIsDecoded ==
    ASSUME NEW bits, NEW type \in Int, NEW mmsi, NEW part, Says(bits, type, mmsi, part),
           Len(bits) \in Nat, Len(bits) >= 38, mmsi # 0, LongEnough(type, part, bits)
    PROVE  /\ type \in 1..3 =>
              Decoded(bits) = PositionReports(bits, mmsi, "A", Known(Uint(bits, 38, 4)), 50)
           /\ type = 18 => Decoded(bits) = PositionReports(bits, mmsi, "B", Missing, 46)
           /\ type = 19 => Decoded(bits) = ExtendedReports(bits, mmsi)
           /\ type = 5 =>
              Decoded(bits) = <<ParticularsReport(mmsi, Text(bits, 112, 20), Text(bits, 70, 7),
                                                  Uint(bits, 232, 8), Dimensions(bits, 240),
                                                  Text(bits, 302, 20))>>
           /\ type = 24 /\ part = 0 =>
              Decoded(bits) = <<ParticularsReport(mmsi, Text(bits, 40, 20), Missing, Unsent, NoSize,
                                                  Missing)>>
           /\ type = 24 /\ part = 1 =>
              Decoded(bits) = <<ParticularsReport(mmsi, Missing, Text(bits, 90, 7),
                                                  Uint(bits, 40, 8),
                                                  IF IsAuxiliary(mmsi) THEN NoSize
                                                  ELSE Dimensions(bits, 132),
                                                  Missing)>>
<1>1. /\ Uint(bits, 0, 6) = type /\ Uint(bits, 8, 30) = mmsi
      /\ (IF Len(bits) >= 40 THEN Uint(bits, 38, 2) ELSE -1) = part
  BY DEF Says, PartOf
<1>2. ~(Len(bits) < 38 \/ mmsi = 0 \/ ~LongEnough(type, part, bits))
  OBVIOUS
<1>3. CASE type \in 1..3
  <2>1. type # 18 /\ type # 19 /\ type # 5 /\ type # 24
    BY <1>3
  <2> QED
    BY <1>1, <1>2, <1>3, <2>1 DEF Decoded
<1>4. CASE type = 18
  BY <1>1, <1>2, <1>4 DEF Decoded
<1>5. CASE type = 19
  BY <1>1, <1>2, <1>5 DEF Decoded
<1>6. CASE type = 5
  BY <1>1, <1>2, <1>6 DEF Decoded
<1>7. CASE type = 24 /\ part = 0
  BY <1>1, <1>2, <1>7 DEF Decoded
<1>8. CASE type = 24 /\ part = 1
  BY <1>1, <1>2, <1>8 DEF Decoded
<1> QED
  BY <1>3, <1>4, <1>5, <1>6, <1>7, <1>8

(* How a message reads from the first n of its bits. *)
ReadsWell(m, n, cut) ==
    Decoded(cut) \in IF n >= BitCount(m) - Unread(m) THEN {ReportsOf(m)} ELSE {<<>>, ReportsOf(m)}

(* It is as it was sent if it is read at all, and it is read if nothing is missing. *)
ReadOrNot(m, n, cut, least) ==
    /\ least <= BitCount(m) - Unread(m) /\ BitCount(m) - Unread(m) \in Int /\ least \in Int
    /\ n \in Nat
    /\ n < least => Decoded(cut) = <<>>
    /\ n >= least => Decoded(cut) = ReportsOf(m)

LEMMA ReadOrNotIsWell ==
    ASSUME NEW m, NEW n, NEW cut, NEW least, ReadOrNot(m, n, cut, least)
    PROVE  ReadsWell(m, n, cut)
<1>1. CASE n < least
  <2>1. ~(n >= BitCount(m) - Unread(m)) /\ Decoded(cut) = <<>>
    BY <1>1 DEF ReadOrNot
  <2> QED
    BY <2>1 DEF ReadsWell
<1>2. CASE n >= least
  <2>1. Decoded(cut) = ReportsOf(m)
    BY <1>2 DEF ReadOrNot
  <2> QED
    BY <2>1 DEF ReadsWell
<1> QED
  BY <1>1, <1>2 DEF ReadOrNot

(* What the first fields say. *)
LEMMA HeaderSays ==
    ASSUME NEW m, NEW cut, FieldTold(m, cut, "type", 6, 0), FieldTold(m, cut, "mmsi", 30, 8)
    PROVE  /\ Says(cut, m.type, m.mmsi, PartOf(cut))
           /\ m.type \in Int /\ m.mmsi \in Int /\ m.mmsi >= 0
  BY DEF FieldTold, Says, Sendable, TextFields

LEMMA ClassAReads ==
    ASSUME NEW m \in AisMessages, m.type \in 1..3, NEW n \in 0..BitCount(m),
           NEW cut, IsCut(cut, {0, 1}, MessageBits(m), 0, n)
    PROVE  ReadsWell(m, n, cut)
<1>1. BitCount(m) = 168 /\ Unread(m) = 0
  BY ClassATold DEF Unread
<1>2. n \in Nat /\ Len(cut) = n
  BY <1>1 DEF IsCut
<1>3. n >= 38 => FieldTold(m, cut, "type", 6, 0) /\ FieldTold(m, cut, "mmsi", 30, 8)
  BY ClassATold
<1>4. ASSUME n < 168 PROVE Decoded(cut) = <<>>
  <2>1. n >= 38 => ~LongEnough(m.type, PartOf(cut), cut)
    BY <1>2, <1>4 DEF LongEnough
  <2> QED
    BY <1>2, <1>3, <2>1, HeaderSays, TooShort DEF Says
<1>5. ASSUME n >= 168 PROVE Decoded(cut) = ReportsOf(m)
  <2>1. /\ FieldTold(m, cut, "status", 4, 38) /\ FieldTold(m, cut, "sog", 10, 50)
        /\ FieldTold(m, cut, "lon", 28, 61) /\ FieldTold(m, cut, "lat", 27, 89)
        /\ FieldTold(m, cut, "cog", 12, 116) /\ FieldTold(m, cut, "heading", 9, 128)
    BY <1>5, ClassATold
  <2>2. /\ Says(cut, m.type, m.mmsi, PartOf(cut)) /\ m.type \in Int /\ m.mmsi \in Int
    BY <1>2, <1>3, <1>5, HeaderSays
  <2>3. CASE m.mmsi = 0
    BY <2>2, <2>3, OfNobody DEF ReportsOf
  <2>4. CASE m.mmsi # 0
    <3>1. Decoded(cut) = PositionReports(cut, m.mmsi, "A", Known(Uint(cut, 38, 4)), 50)
      BY <1>2, <1>5, <2>2, <2>4, LongIsDecoded DEF LongEnough, PartOf
    <3>2. Uint(cut, 38, 4) = m.status
      BY <2>1 DEF FieldTold, TextFields
    <3>3. ReportsOf(m) = PlaceRead(m, "A")
      BY <2>4 DEF ReportsOf
    <3> QED
      BY <2>1, <3>1, <3>2, <3>3, PlaceIsRead
  <2> QED
    BY <2>3, <2>4
<1>6. ReadOrNot(m, n, cut, 168)
  BY <1>1, <1>2, <1>4, <1>5 DEF ReadOrNot
<1> QED
  BY <1>6, ReadOrNotIsWell

LEMMA ClassBReads ==
    ASSUME NEW m \in AisMessages, m.type = 18, NEW n \in 0..BitCount(m),
           NEW cut, IsCut(cut, {0, 1}, MessageBits(m), 0, n)
    PROVE  ReadsWell(m, n, cut)
<1>1. BitCount(m) = 168 /\ Unread(m) = 0
  BY ClassBTold DEF Unread
<1>2. n \in Nat /\ Len(cut) = n
  BY <1>1 DEF IsCut
<1>3. n >= 38 => FieldTold(m, cut, "type", 6, 0) /\ FieldTold(m, cut, "mmsi", 30, 8)
  BY ClassBTold
<1>4. ASSUME n < 168 PROVE Decoded(cut) = <<>>
  <2>1. n >= 38 => ~LongEnough(m.type, PartOf(cut), cut)
    BY <1>2, <1>4 DEF LongEnough
  <2> QED
    BY <1>2, <1>3, <2>1, HeaderSays, TooShort DEF Says
<1>5. ASSUME n >= 168 PROVE Decoded(cut) = ReportsOf(m)
  <2>1. /\ FieldTold(m, cut, "sog", 10, 46)
        /\ FieldTold(m, cut, "lon", 28, 57) /\ FieldTold(m, cut, "lat", 27, 85)
        /\ FieldTold(m, cut, "cog", 12, 112) /\ FieldTold(m, cut, "heading", 9, 124)
    BY <1>5, ClassBTold
  <2>2. /\ Says(cut, m.type, m.mmsi, PartOf(cut)) /\ m.type \in Int /\ m.mmsi \in Int
    BY <1>2, <1>3, <1>5, HeaderSays
  <2>3. CASE m.mmsi = 0
    BY <2>2, <2>3, OfNobody DEF ReportsOf
  <2>4. CASE m.mmsi # 0
    <3>1. Decoded(cut) = PositionReports(cut, m.mmsi, "B", Missing, 46)
      BY <1>2, <1>5, <2>2, <2>4, LongIsDecoded DEF LongEnough, PartOf
    <3>2. ReportsOf(m) = PlaceRead(m, "B")
      BY <2>4 DEF ReportsOf
    <3> QED
      BY <2>1, <3>1, <3>2, PlaceIsRead
  <2> QED
    BY <2>3, <2>4
<1>6. ReadOrNot(m, n, cut, 168)
  BY <1>1, <1>2, <1>4, <1>5 DEF ReadOrNot
<1> QED
  BY <1>6, ReadOrNotIsWell

(* What is made of a size and a ship type that are none, and of what a message has of
   the rest, is what is to be read. *)
LEMMA ParticularsAreRead ==
    ASSUME NEW m, NEW name, NEW callsign, NEW shipType, NEW size, NEW destination,
           name = OrNone(m, "name"), callsign = OrNone(m, "callsign"),
           destination = OrNone(m, "destination"),
           shipType = IF "shipType" \in DOMAIN m THEN m.shipType ELSE 0,
           size = IF Sized(m) THEN [length |-> Unless(m.bow + m.stern, 0),
                                    beam |-> Unless(m.port + m.starboard, 0)]
                  ELSE NoSize
    PROVE  <<ParticularsReport(m.mmsi, name, callsign, shipType, size, destination)>> = ParticularsRead(m)
<1> DEFINE length == IF Sized(m) THEN Unless(m.bow + m.stern, 0) ELSE Missing
           beam == IF Sized(m) THEN Unless(m.port + m.starboard, 0) ELSE Missing
           kind == IF "shipType" \in DOMAIN m THEN Unless(m.shipType, 0) ELSE Missing
<1>1. size.length = length /\ size.beam = beam
  <2>1. CASE Sized(m)
    BY <2>1
  <2>2. CASE ~Sized(m)
    BY <2>2 DEF NoSize
  <2> QED
    BY <2>1, <2>2
<1>2. KnownIf(shipType, shipType # 0) = kind
  <2>1. CASE "shipType" \in DOMAIN m
    BY <2>1 DEF KnownIf, Unless
  <2>2. CASE "shipType" \notin DOMAIN m
    BY <2>2 DEF KnownIf
  <2> QED
    BY <2>1, <2>2
<1>3. ParticularsRead(m) =
         <<[report |-> "particulars", mmsi |-> m.mmsi, name |-> name, callsign |-> callsign,
            shipType |-> kind, length |-> length, beam |-> beam, destination |-> destination]>>
  BY Zenon DEF ParticularsRead
<1> HIDE DEF length, beam, kind
<1> QED
  BY <1>1, <1>2, <1>3 DEF ParticularsReport

(* A report put behind those there are. *)
LEMMA PutBehind ==
    ASSUME NEW m, NEW class, NEW report
    PROVE  Append(PlaceRead(m, class), report) = PlaceRead(m, class) \o <<report>>
<1> DEFINE S == {PlaceRead(m, class)[1], report}
<1>1. PlaceRead(m, class) \in Seq(S)
  <2> DEFINE x == PlaceRead(m, class)[1]
  <2>1. PlaceRead(m, class) = <<>> \/ PlaceRead(m, class) = <<x>>
    BY DEF PlaceRead
  <2>2. x \in S
    OBVIOUS
  <2> HIDE DEF S, x
  <2>3. <<>> \in Seq(S) /\ <<x>> \in Seq(S)
    BY <2>2
  <2> QED
    BY <2>1, <2>3, Zenon
<1>2. report \in S
  OBVIOUS
<1> HIDE DEF S
<1> QED
  BY <1>1, <1>2, AppendIsConcat

LEMMA ClassBExtendedReads ==
    ASSUME NEW m \in AisMessages, m.type = 19, NEW n \in 0..BitCount(m),
           NEW cut, IsCut(cut, {0, 1}, MessageBits(m), 0, n)
    PROVE  ReadsWell(m, n, cut)
<1>1. BitCount(m) = 312 /\ Unread(m) = 0
  BY ClassBExtendedTold DEF Unread
<1>2. n \in Nat /\ Len(cut) = n
  BY <1>1 DEF IsCut
<1>3. n >= 38 => FieldTold(m, cut, "type", 6, 0) /\ FieldTold(m, cut, "mmsi", 30, 8)
  BY ClassBExtendedTold
<1>4. ASSUME n < 312 PROVE Decoded(cut) = <<>>
  <2>1. n >= 38 => ~LongEnough(m.type, PartOf(cut), cut)
    BY <1>2, <1>4 DEF LongEnough
  <2> QED
    BY <1>2, <1>3, <2>1, HeaderSays, TooShort DEF Says
<1>5. ASSUME n >= 312 PROVE Decoded(cut) = ReportsOf(m)
  <2>1. /\ FieldTold(m, cut, "sog", 10, 46) /\ FieldTold(m, cut, "lon", 28, 57)
        /\ FieldTold(m, cut, "lat", 27, 85) /\ FieldTold(m, cut, "cog", 12, 112)
        /\ FieldTold(m, cut, "heading", 9, 124) /\ FieldTold(m, cut, "name", 120, 143)
        /\ FieldTold(m, cut, "shipType", 8, 263) /\ FieldTold(m, cut, "bow", 9, 271)
        /\ FieldTold(m, cut, "stern", 9, 280) /\ FieldTold(m, cut, "port", 6, 289)
        /\ FieldTold(m, cut, "starboard", 6, 295)
    BY <1>5, ClassBExtendedTold
  <2>2. /\ Says(cut, m.type, m.mmsi, PartOf(cut)) /\ m.type \in Int /\ m.mmsi \in Int
        /\ m.mmsi >= 0
    BY <1>2, <1>3, <1>5, HeaderSays
  <2>3. CASE m.mmsi = 0
    BY <2>2, <2>3, OfNobody DEF ReportsOf
  <2>4. CASE m.mmsi # 0
    <3> DEFINE report ==
           ParticularsReport(m.mmsi, Text(cut, 143, 20), Missing, Uint(cut, 263, 8), Dimensions(cut, 271),
                             Missing)
    <3>1. Decoded(cut) = ExtendedReports(cut, m.mmsi)
      BY <1>2, <1>5, <2>2, <2>4, LongIsDecoded DEF LongEnough
    <3>2. /\ Text(cut, 143, 20) = OrNone(m, "name") /\ Missing = OrNone(m, "callsign")
          /\ Missing = OrNone(m, "destination")
      BY <2>1, ClassBExtendedTold DEF FieldTold, TextFields, OrNone
    <3>3. Uint(cut, 263, 8) = IF "shipType" \in DOMAIN m THEN m.shipType ELSE 0
      BY <2>1 DEF FieldTold, TextFields
    <3>4. Dimensions(cut, 271) = IF Sized(m) THEN [length |-> Unless(m.bow + m.stern, 0),
                                        beam |-> Unless(m.port + m.starboard, 0)]
                     ELSE NoSize
      <4>1. Dimensions(cut, 271) = [length |-> Unless(m.bow + m.stern, 0),
                                        beam |-> Unless(m.port + m.starboard, 0)]
        BY <2>1, SizeIsRead
      <4>2. Sized(m)
        BY <2>1 DEF FieldTold, Sized
      <4> QED
        BY <4>1, <4>2
    <3>5. <<report>> = ParticularsRead(m)
      BY <3>2, <3>3, <3>4, ParticularsAreRead
    <3> HIDE DEF report
    <3>6. PositionReports(cut, m.mmsi, "B", Missing, 46) = PlaceRead(m, "B")
      BY <2>1, PlaceIsRead
    <3>7. ExtendedReports(cut, m.mmsi) = Append(PlaceRead(m, "B"), report)
      BY <3>6 DEF ExtendedReports, report
    <3>8. ReportsOf(m) = PlaceRead(m, "B") \o ParticularsRead(m)
      BY <2>4 DEF ReportsOf
    <3>9. Append(PlaceRead(m, "B"), report) = PlaceRead(m, "B") \o <<report>>
      BY PutBehind
    <3> QED
      BY <3>1, <3>5, <3>7, <3>8, <3>9, Zenon
  <2> QED
    BY <2>3, <2>4
<1>6. ReadOrNot(m, n, cut, 312)
  BY <1>1, <1>2, <1>4, <1>5 DEF ReadOrNot
<1> QED
  BY <1>6, ReadOrNotIsWell

LEMMA StaticAReads ==
    ASSUME NEW m \in AisMessages, m.type = 5, NEW n \in 0..BitCount(m),
           NEW cut, IsCut(cut, {0, 1}, MessageBits(m), 0, n)
    PROVE  ReadsWell(m, n, cut)
<1>1. BitCount(m) = 424 /\ Unread(m) = 2
  BY StaticATold DEF Unread
<1>2. n \in Nat /\ Len(cut) = n
  BY <1>1 DEF IsCut
<1>3. n >= 38 => FieldTold(m, cut, "type", 6, 0) /\ FieldTold(m, cut, "mmsi", 30, 8)
  BY StaticATold
<1>4. ASSUME n < 422 PROVE Decoded(cut) = <<>>
  <2>1. n >= 38 => ~LongEnough(m.type, PartOf(cut), cut)
    BY <1>2, <1>4 DEF LongEnough
  <2> QED
    BY <1>2, <1>3, <2>1, HeaderSays, TooShort DEF Says
<1>5. ASSUME n >= 422 PROVE Decoded(cut) = ReportsOf(m)
  <2>1. /\ FieldTold(m, cut, "callsign", 42, 70) /\ FieldTold(m, cut, "name", 120, 112)
        /\ FieldTold(m, cut, "shipType", 8, 232) /\ FieldTold(m, cut, "bow", 9, 240)
        /\ FieldTold(m, cut, "stern", 9, 249) /\ FieldTold(m, cut, "port", 6, 258)
        /\ FieldTold(m, cut, "starboard", 6, 264) /\ FieldTold(m, cut, "destination", 120, 302)
    BY <1>5, StaticATold
  <2>2. /\ Says(cut, m.type, m.mmsi, PartOf(cut)) /\ m.type \in Int /\ m.mmsi \in Int
        /\ m.mmsi >= 0
    BY <1>2, <1>3, <1>5, HeaderSays
  <2>3. CASE m.mmsi = 0
    BY <2>2, <2>3, OfNobody DEF ReportsOf
  <2>4. CASE m.mmsi # 0
    <3> DEFINE report ==
           ParticularsReport(m.mmsi, Text(cut, 112, 20), Text(cut, 70, 7), Uint(cut, 232, 8), Dimensions(cut, 240),
                             Text(cut, 302, 20))
    <3>1. Decoded(cut) = <<report>>
      BY <1>2, <1>5, <2>2, <2>4, LongIsDecoded DEF LongEnough
    <3>2. /\ Text(cut, 112, 20) = OrNone(m, "name") /\ Text(cut, 70, 7) = OrNone(m, "callsign")
          /\ Text(cut, 302, 20) = OrNone(m, "destination")
      BY <2>1 DEF FieldTold, TextFields, OrNone
    <3>3. Uint(cut, 232, 8) = IF "shipType" \in DOMAIN m THEN m.shipType ELSE 0
      BY <2>1 DEF FieldTold, TextFields
    <3>4. Dimensions(cut, 240) = IF Sized(m) THEN [length |-> Unless(m.bow + m.stern, 0),
                                        beam |-> Unless(m.port + m.starboard, 0)]
                     ELSE NoSize
      <4>1. Dimensions(cut, 240) = [length |-> Unless(m.bow + m.stern, 0),
                                        beam |-> Unless(m.port + m.starboard, 0)]
        BY <2>1, SizeIsRead
      <4>2. Sized(m)
        BY <2>1 DEF FieldTold, Sized
      <4> QED
        BY <4>1, <4>2
    <3>5. <<report>> = ParticularsRead(m)
      BY <3>2, <3>3, <3>4, ParticularsAreRead
    <3> HIDE DEF report
    <3>6. ReportsOf(m) = ParticularsRead(m)
      BY <2>4 DEF ReportsOf
    <3> QED
      BY <3>1, <3>5, <3>6
  <2> QED
    BY <2>3, <2>4
<1>6. ReadOrNot(m, n, cut, 422)
  BY <1>1, <1>2, <1>4, <1>5 DEF ReadOrNot
<1> QED
  BY <1>6, ReadOrNotIsWell

LEMMA StaticBNameReads ==
    ASSUME NEW m \in AisMessages, m.type = 24, m.part = 0, NEW n \in 0..BitCount(m),
           NEW cut, IsCut(cut, {0, 1}, MessageBits(m), 0, n)
    PROVE  ReadsWell(m, n, cut)
<1>1. BitCount(m) = 168 /\ Unread(m) = 0
  BY StaticBNameTold DEF Unread
<1>2. n \in Nat /\ Len(cut) = n
  BY <1>1 DEF IsCut
<1>3. n >= 38 => FieldTold(m, cut, "type", 6, 0) /\ FieldTold(m, cut, "mmsi", 30, 8)
  BY StaticBNameTold
<1>4. PartOf(cut) = IF n >= 40 THEN m.part ELSE -1
  <2>1. n >= 40 => FieldTold(m, cut, "part", 2, 38)
    BY StaticBNameTold
  <2> QED
    BY <1>2, <2>1 DEF PartOf, FieldTold, TextFields
<1>5. ASSUME n < 160 PROVE Decoded(cut) = <<>>
  <2>1. n >= 38 => ~LongEnough(m.type, PartOf(cut), cut)
    BY <1>2, <1>4, <1>5 DEF LongEnough
  <2> QED
    BY <1>2, <1>3, <2>1, HeaderSays, TooShort DEF Says
<1>6. ASSUME n >= 160 PROVE Decoded(cut) = ReportsOf(m)
  <2>1. /\ FieldTold(m, cut, "name", 120, 40)
    BY <1>6, StaticBNameTold
  <2>2. /\ Says(cut, m.type, m.mmsi, PartOf(cut)) /\ m.type \in Int /\ m.mmsi \in Int
        /\ m.mmsi >= 0
    BY <1>2, <1>3, <1>6, HeaderSays
  <2>3. CASE m.mmsi = 0
    BY <2>2, <2>3, OfNobody DEF ReportsOf
  <2>4. CASE m.mmsi # 0
    <3> DEFINE report ==
           ParticularsReport(m.mmsi, Text(cut, 40, 20), Missing, Unsent, NoSize,
                             Missing)
    <3>1. Decoded(cut) = <<report>>
      BY <1>2, <1>4, <1>6, <2>2, <2>4, LongIsDecoded DEF LongEnough
    <3>2. /\ Text(cut, 40, 20) = OrNone(m, "name") /\ Missing = OrNone(m, "callsign")
          /\ Missing = OrNone(m, "destination")
      BY <2>1, StaticBNameTold DEF FieldTold, TextFields, OrNone
    <3>3. Unsent = IF "shipType" \in DOMAIN m THEN m.shipType ELSE 0
      BY <2>1, StaticBNameTold DEF FieldTold, TextFields, Unsent
    <3>4. NoSize = IF Sized(m) THEN [length |-> Unless(m.bow + m.stern, 0),
                                        beam |-> Unless(m.port + m.starboard, 0)]
                     ELSE NoSize
      <4>1. ~Sized(m)
        BY StaticBNameTold DEF Sized
      <4> QED
        BY <4>1
    <3>5. <<report>> = ParticularsRead(m)
      BY <3>2, <3>3, <3>4, ParticularsAreRead
    <3> HIDE DEF report
    <3>6. ReportsOf(m) = ParticularsRead(m)
      BY <2>4 DEF ReportsOf
    <3> QED
      BY <3>1, <3>5, <3>6
  <2> QED
    BY <2>3, <2>4
<1>7. ReadOrNot(m, n, cut, 160)
  BY <1>1, <1>2, <1>5, <1>6 DEF ReadOrNot
<1> QED
  BY <1>7, ReadOrNotIsWell

LEMMA StaticBRestReads ==
    ASSUME NEW m \in AisMessages, m.type = 24, m.part = 1, NEW n \in 0..BitCount(m),
           NEW cut, IsCut(cut, {0, 1}, MessageBits(m), 0, n)
    PROVE  ReadsWell(m, n, cut)
<1>1. BitCount(m) = 168 /\ Unread(m) = 6
  BY StaticBRestTold DEF Unread
<1>2. n \in Nat /\ Len(cut) = n
  BY <1>1 DEF IsCut
<1>3. n >= 38 => FieldTold(m, cut, "type", 6, 0) /\ FieldTold(m, cut, "mmsi", 30, 8)
  BY StaticBRestTold
<1>4. PartOf(cut) = IF n >= 40 THEN m.part ELSE -1
  <2>1. n >= 40 => FieldTold(m, cut, "part", 2, 38)
    BY StaticBRestTold
  <2> QED
    BY <1>2, <2>1 DEF PartOf, FieldTold, TextFields
<1>5. ASSUME n < 162 PROVE Decoded(cut) = <<>>
  <2>1. n >= 38 => ~LongEnough(m.type, PartOf(cut), cut)
    BY <1>2, <1>4, <1>5 DEF LongEnough
  <2> QED
    BY <1>2, <1>3, <2>1, HeaderSays, TooShort DEF Says
<1>6. ASSUME n >= 162 PROVE Decoded(cut) = ReportsOf(m)
  <2>1. /\ FieldTold(m, cut, "shipType", 8, 40) /\ FieldTold(m, cut, "callsign", 42, 90)
        /\ FieldTold(m, cut, "bow", 9, 132) /\ FieldTold(m, cut, "stern", 9, 141)
        /\ FieldTold(m, cut, "port", 6, 150) /\ FieldTold(m, cut, "starboard", 6, 156)
    BY <1>6, StaticBRestTold
  <2>2. /\ Says(cut, m.type, m.mmsi, PartOf(cut)) /\ m.type \in Int /\ m.mmsi \in Int
        /\ m.mmsi >= 0
    BY <1>2, <1>3, <1>6, HeaderSays
  <2>3. CASE m.mmsi = 0
    BY <2>2, <2>3, OfNobody DEF ReportsOf
  <2>4. CASE m.mmsi # 0
    <3> DEFINE size == IF IsAuxiliary(m.mmsi) THEN NoSize ELSE Dimensions(cut, 132)
    <3> DEFINE report ==
           ParticularsReport(m.mmsi, Missing, Text(cut, 90, 7), Uint(cut, 40, 8), size,
                             Missing)
    <3>1. Decoded(cut) = <<report>>
      BY <1>2, <1>4, <1>6, <2>2, <2>4, LongIsDecoded DEF LongEnough
    <3>2. /\ Missing = OrNone(m, "name") /\ Text(cut, 90, 7) = OrNone(m, "callsign")
          /\ Missing = OrNone(m, "destination")
      BY <2>1, StaticBRestTold DEF FieldTold, TextFields, OrNone
    <3>3. Uint(cut, 40, 8) = IF "shipType" \in DOMAIN m THEN m.shipType ELSE 0
      BY <2>1 DEF FieldTold, TextFields
    <3>4. size = IF Sized(m) THEN [length |-> Unless(m.bow + m.stern, 0),
                                        beam |-> Unless(m.port + m.starboard, 0)]
                     ELSE NoSize
      <4>1. Dimensions(cut, 132) = [length |-> Unless(m.bow + m.stern, 0),
                                        beam |-> Unless(m.port + m.starboard, 0)]
        BY <2>1, SizeIsRead
      <4>2. Sized(m) <=> ~IsAuxiliary(m.mmsi)
        BY <2>1, <2>2, AuxiliaryIs DEF FieldTold, Sized
      <4> QED
        BY <4>1, <4>2
    <3> HIDE DEF size
    <3>5. <<report>> = ParticularsRead(m)
      BY <3>2, <3>3, <3>4, ParticularsAreRead
    <3> HIDE DEF report
    <3>6. ReportsOf(m) = ParticularsRead(m)
      BY <2>4 DEF ReportsOf
    <3> QED
      BY <3>1, <3>5, <3>6
  <2> QED
    BY <2>3, <2>4
<1>7. ReadOrNot(m, n, cut, 162)
  BY <1>1, <1>2, <1>5, <1>6 DEF ReadOrNot
<1> QED
  BY <1>7, ReadOrNotIsWell

(* Cut short anywhere, a message reads well, whatever its type. *)
LEMMA EachReadsWell ==
    ASSUME NEW m \in AisMessages, NEW n \in 0..BitCount(m)
    PROVE  Decode(Characters(MessageBits(m), n), Fill(n)) \in
              IF n >= BitCount(m) - Unread(m) THEN {ReportsOf(m)} ELSE {<<>>, ReportsOf(m)}
<1>1. m.type \in {1, 2, 3, 5, 18, 19, 24} /\ (m.type = 24 => m.part \in {0, 1})
  BY AisAssumption
<1>2. Laid(m)
  BY <1>1, ClassAIs, ClassBIs, ClassBExtendedIs, StaticAIs, StaticBNameIs, StaticBRestIs
<1>3. PICK cut : /\ IsCut(cut, {0, 1}, MessageBits(m), 0, n)
                 /\ Decode(Characters(MessageBits(m), n), Fill(n)) = Decoded(cut)
  BY <1>2, DecodesTheCut
<1>4. ReadsWell(m, n, cut)
  BY <1>1, <1>3, ClassAReads, ClassBReads, ClassBExtendedReads, StaticAReads, StaticBNameReads,
     StaticBRestReads
<1> QED
  BY <1>3, <1>4 DEF ReadsWell

LEMMA AMessageIsWhole ==
    ASSUME AMessage
    PROVE  WholeOrNothing'
<1>1. PICK m \in AisMessages : \E n \in 0..BitCount(m) :
         input' = [what |-> "payload", message |-> m, bits |-> n,
                   payload |-> Characters(MessageBits(m), n), fill |-> Fill(n)]
  BY Zenon DEF AMessage
<1>2. PICK n \in 0..BitCount(m) :
         input' = [what |-> "payload", message |-> m, bits |-> n,
                   payload |-> Characters(MessageBits(m), n), fill |-> Fill(n)]
  BY <1>1
<1>3. /\ input'.message = m /\ input'.bits = n /\ input'.fill = Fill(n)
      /\ input'.payload = Characters(MessageBits(m), n)
  BY <1>2
<1> QED
  BY <1>3, EachReadsWell, Zenon DEF WholeOrNothing

(* What each kind of input says is of the step that picks it. *)
LEMMA EachOfItsKind ==
    ASSUME Next
    PROVE  /\ input'.what = "line" => DamagedLine
           /\ input'.what = "position" => APosition
           /\ input'.what = "payload" => AMessage
           /\ input'.what = "message" => AHubMessage
           /\ input'.what = "altered" => AnAlteredMessage
           /\ input'.what = "vessel" => AVessel
           /\ input'.what = "table" => ATable
<1>1. CASE DamagedLine
  BY <1>1 DEF DamagedLine
<1>2. CASE APosition
  <2>1. PICK kind \in {<<"R", "M", "C">>, <<"G", "G", "A">>}, a \in Angles, place \in 0..9,
             ns \in {<<"N">>, <<"S">>, <<>>}, flag \in Flags, mode \in Modes, time \in Times :
                /\ IF kind = <<"R", "M", "C">> THEN flag \in {<<"A">>, <<"V">>, <<"1">>} ELSE mode = <<>>
                /\ place \in {4, 5} \/ (flag = <<"A">> /\ mode = <<>>)
                /\ input' = [what |-> "position", kind |-> kind, angle |-> a, place |-> place,
                             ns |-> ns, flag |-> flag, mode |-> mode, time |-> time]
    BY <1>2, Zenon DEF APosition
  <2>2. input'.what = "position"
    BY <2>1
  <2> QED
    BY <1>2, <2>2
<1>3. CASE AMessage
  <2>1. PICK m \in AisMessages : \E n \in 0..BitCount(m) :
           input' = [what |-> "payload", message |-> m, bits |-> n,
                     payload |-> Characters(MessageBits(m), n), fill |-> Fill(n)]
    BY <1>3, Zenon DEF AMessage
  <2>2. input'.what = "payload"
    BY <2>1
  <2> QED
    BY <1>3, <2>2
<1>4. CASE AHubMessage
  BY <1>4 DEF AHubMessage
<1>5. CASE AnAlteredMessage
  <2>1. PICK m \in HubMessages, where \in {"message", "fix", "sources", "targets"},
             v \in {Absent} \cup {Present(x) : x \in Values} :
                \E k \in KeysAt(where), i \in Objects(ToLine(m), where) :
                    input' = [what |-> "altered", message |-> m, where |-> where, at |-> i, key |-> k,
                              line |-> AlteredLine(ToLine(m), where, i, k, v)]
    BY <1>5, Zenon DEF AnAlteredMessage
  <2>2. input'.what = "altered"
    BY <2>1
  <2> QED
    BY <1>5, <2>2
<1>6. CASE AVessel
  BY <1>6 DEF AVessel
<1>7. CASE ATable
  BY <1>7 DEF ATable
<1> QED
  BY <1>1, <1>2, <1>3, <1>4, <1>5, <1>6, <1>7 DEF Next

(* A line with one character changed is rejected or says what it said, for any sentence
   (nmea::parse). *)
THEOREM LineDamageIsCaught == Spec => []DamageIsCaught
<1>1. Init => DamageIsCaught
  BY DEF Init, Nothing, DamageIsCaught
<1>2. DamageIsCaught /\ [Next]_input => DamageIsCaught'
  <2>1. CASE Next /\ input'.what = "line"
    BY <2>1, EachOfItsKind, ADamagedLineIsCaught
  <2>2. CASE input'.what # "line"
    BY <2>2 DEF DamageIsCaught
  <2>3. CASE UNCHANGED input
    BY <2>3 DEF DamageIsCaught
  <2> QED
    BY <2>1, <2>2, <2>3
<1> QED
  BY <1>1, <1>2, PTL DEF Spec

(* A position reads as it was sent, whatever it is, and with its decimal point moved or lost
   as no latitude and no longitude (nmea::position, coord, utc). *)
THEOREM PositionsAreRead == Spec => []PositionAsSent
<1>1. Init => PositionAsSent
  BY DEF Init, Nothing, PositionAsSent
<1>2. PositionAsSent /\ [Next]_input => PositionAsSent'
  <2>1. CASE Next /\ input'.what = "position"
    BY <2>1, EachOfItsKind, APositionIsRead
  <2>2. CASE input'.what # "position"
    BY <2>2 DEF PositionAsSent
  <2>3. CASE UNCHANGED input
    BY <2>3 DEF PositionAsSent
  <2> QED
    BY <2>1, <2>2, <2>3
<1> QED
  BY <1>1, <1>2, PTL DEF Spec

(* Every AIS message, of each type that is read and with any values of its fields, reads as
   it was sent, and cut short anywhere as it was sent or not at all (ais::decode). *)
THEOREM PayloadsAreRead == Spec => []WholeOrNothing
<1>1. Init => WholeOrNothing
  BY DEF Init, Nothing, WholeOrNothing
<1>2. WholeOrNothing /\ [Next]_input => WholeOrNothing'
  <2>1. CASE Next /\ input'.what = "payload"
    BY <2>1, EachOfItsKind, AMessageIsWhole
  <2>2. CASE input'.what # "payload"
    BY <2>2 DEF WholeOrNothing
  <2>3. CASE UNCHANGED input
    BY <2>3 DEF WholeOrNothing
  <2> QED
    BY <2>1, <2>2, <2>3
<1> QED
  BY <1>1, <1>2, PTL DEF Spec

(* Whatever message the hub may write, an app that reads its line has it, and the line says
   null of nothing (Message::to_line, Message::from_line). *)
THEOREM MessagesAreRead == Spec => []HubIsRead
<1>1. Init => HubIsRead
  BY DEF Init, Nothing, HubIsRead
<1>2. HubIsRead /\ [Next]_input => HubIsRead'
  <2>1. CASE Next /\ input'.what = "message"
    BY <2>1, EachOfItsKind, AHubMessageIsRead
  <2>2. CASE input'.what # "message"
    BY <2>2 DEF HubIsRead
  <2>3. CASE UNCHANGED input
    BY <2>3 DEF HubIsRead
  <2> QED
    BY <2>1, <2>2, <2>3
<1> QED
  BY <1>1, <1>2, PTL DEF Spec

(* Any key of any one object of a message given any JSON value, or none, is never misread,
   and costs nothing else but what cannot be without it (Message::from_line). *)
THEOREM MessagesAreNeverMisread == Spec => []NeverMisread
<1>1. Init => NeverMisread
  BY DEF Init, Nothing, NeverMisread
<1>2. NeverMisread /\ [Next]_input => NeverMisread'
  <2>1. CASE Next /\ input'.what = "altered"
    BY <2>1, EachOfItsKind, AnAlteredMessageIsNeverMisread
  <2>2. CASE input'.what # "altered"
    BY <2>2 DEF NeverMisread
  <2>3. CASE UNCHANGED input
    BY <2>3 DEF NeverMisread
  <2> QED
    BY <2>1, <2>2, <2>3
<1> QED
  BY <1>1, <1>2, PTL DEF Spec

(* What the traffic table says of a vessel's closest approach is so for any two courses,
   any world and any age of the report: never nearer, at that time as near as that, a
   danger exactly when it comes within DANGER_CPA within DANGER_TCPA (Vessel::target). *)
THEOREM ApproachIsClosest == Spec => []ClosestIsClosest
<1>1. Init => ClosestIsClosest
  BY DEF Init, Nothing, ClosestIsClosest
<1>2. ClosestIsClosest /\ [Next]_input => ClosestIsClosest'
  <2>1. CASE Next /\ input'.what = "vessel"
    BY <2>1, EachOfItsKind, AVesselIsClosest
  <2>2. CASE input'.what # "vessel"
    BY <2>2 DEF ClosestIsClosest
  <2>3. CASE UNCHANGED input
    BY <2>3 DEF ClosestIsClosest
  <2> QED
    BY <2>1, <2>2, <2>3
<1> QED
  BY <1>1, <1>2, PTL DEF Spec

(* Apps are sent one order of any table, whatever order the HashMap has it in
   (Traffic::targets). *)
THEOREM TableHasOneOrder == Spec => []OneOrder
<1>1. Init => OneOrder
  BY DEF Init, Nothing, OneOrder
<1>2. OneOrder /\ [Next]_input => OneOrder'
  <2>1. CASE Next /\ input'.what = "table"
    BY <2>1, EachOfItsKind, ATableHasOneOrder
  <2>2. CASE input'.what # "table"
    BY <2>2 DEF OneOrder
  <2>3. CASE UNCHANGED input
    BY <2>3 DEF OneOrder
  <2> QED
    BY <2>1, <2>2, <2>3
<1> QED
  BY <1>1, <1>2, PTL DEF Spec
================================================================================
