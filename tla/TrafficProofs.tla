----------------------------- MODULE TrafficProofs -----------------------------
(***************************************************************************)
(* What Traffic promises, for every set of vessels, size of the table,     *)
(* LOST_AFTER and lateness: no vessel about is forgotten for no reason,    *)
(* none is shown beyond its time, and what is known of it is its own.      *)
(***************************************************************************)
EXTENDS Traffic, FiniteSetTheorems, WellFoundedInduction, TLAPS

(* What the table and the last message say of a vessel, beside what was heard of it:
   an entry is as old as the last report, its position as the last position. *)
Kept(m) ==
    /\ vessels[m].heard = heard[m]
    /\ vessels[m].position # Never => vessels[m].position = placed[m]

InTime ==
    /\ now <= tickDue + Lateness
    /\ \A m \in Mmsis : heard[m] <= now /\ placed[m] <= heard[m]
    /\ \A m \in DOMAIN vessels : Kept(m)
    /\ \A m \in DOMAIN shown :
          /\ tickDue - TickEvery - heard[m] < LOST_AFTER
          /\ shown[m] => tickDue - TickEvery - placed[m] < LOST_AFTER

(* Nothing is held over of a vessel that is not in the table. *)
Untold == \A m \in Mmsis \ DOMAIN vessels : told[m] = NothingSaid

IInv == TypeOK /\ InTime /\ SaysItsLast /\ Untold

-----------------------------------------------------------------------------
(* A vessel of the table that is not lost stays as it is, but for a lost position. *)
LEMMA ExpireKeeps ==
    ASSUME NEW vs, IsTable(vs)
    PROVE  /\ IsTable(Expire(vs))
           /\ DOMAIN Expire(vs) = {m \in DOMAIN vs : ~Lost(vs[m].heard)}
           /\ \A m \in DOMAIN Expire(vs) :
                 /\ Expire(vs)[m].heard = vs[m].heard
                 /\ Expire(vs)[m].position = IF Lost(vs[m].position) THEN Never ELSE vs[m].position
                 /\ Expire(vs)[m].particulars = vs[m].particulars
<1>1. DOMAIN Expire(vs) = {m \in DOMAIN vs : ~Lost(vs[m].heard)}
  BY DEF Expire
<1>2. ASSUME NEW m \in DOMAIN Expire(vs)
      PROVE  /\ Expire(vs)[m] \in Vessels
             /\ Expire(vs)[m].heard = vs[m].heard
             /\ Expire(vs)[m].position = IF Lost(vs[m].position) THEN Never ELSE vs[m].position
             /\ Expire(vs)[m].particulars = vs[m].particulars
  <2>1. vs[m] \in Vessels /\ ~Lost(vs[m].heard)
    BY <1>1, <1>2 DEF IsTable
  <2>2. Expire(vs)[m] = [vs[m] EXCEPT !.position = IF Lost(@) THEN Never ELSE @]
    BY <1>1, <1>2 DEF Expire
  <2> QED
    BY <2>1, <2>2 DEF Vessels, Instants
<1>3. IsTable(Expire(vs))
  <2>1. Expire(vs) = [m \in DOMAIN Expire(vs) |-> Expire(vs)[m]]
    BY DEF Expire
  <2> QED
    BY <1>1, <1>2, <2>1 DEF IsTable
<1> QED
  BY <1>1, <1>2, <1>3

(* A vessel's entry before a report of it. *)
Entry(vs, m) == IF m \in DOMAIN vs THEN vs[m] ELSE NewVessel

(* What it is after: `w`, heard now. *)
Filled(w, old, r) ==
    /\ w.heard = now
    /\ w.position = IF r.position THEN now ELSE old.position
    /\ \A f \in Fields :
          w.particulars[f] = IF f \in DOMAIN r.says THEN r.says[f] ELSE old.particulars[f]

(* A report is taken by its own vessel, and by no other. *)
LEMMA TakesReport ==
    ASSUME NEW vs, IsTable(vs), NEW m \in Mmsis, NEW r \in Reports, now \in Nat
    PROVE  /\ IsTable(Takes(vs, m, r))
           /\ DOMAIN Takes(vs, m, r) = DOMAIN vs \cup {m}
           /\ \A n \in DOMAIN vs \ {m} : Takes(vs, m, r)[n] = vs[n]
           /\ Filled(Takes(vs, m, r)[m], Entry(vs, m), r)
<1> DEFINE old == Entry(vs, m)
           v == [old EXCEPT !.heard = now]
           w == IF r.position THEN [v EXCEPT !.position = now] ELSE FilledIn(v, r.says)
<1>1. old \in Vessels
  BY DEF IsTable, Entry, NewVessel, NothingSaid, Vessels, Instants
<1>2. /\ v \in Vessels /\ v.heard = now
      /\ v.position = old.position /\ v.particulars = old.particulars
  BY <1>1 DEF Vessels
<1>3. /\ w \in Vessels /\ w.heard = now
      /\ w.position = IF r.position THEN now ELSE old.position
      /\ \A f \in Fields :
            w.particulars[f] = IF f \in DOMAIN r.says THEN r.says[f] ELSE old.particulars[f]
  <2>1. CASE r = APosition
    <3>1. r.position /\ DOMAIN r.says = {}
      BY <2>1 DEF APosition
    <3>2. w = [v EXCEPT !.position = now]
      BY <3>1
    <3>3. now \in Instants
      BY DEF Instants
    <3> QED
      BY <1>2, <3>1, <3>2, <3>3 DEF Vessels
  <2>2. CASE r # APosition
    <3>0. PICK fs \in SUBSET Fields : r \in {Particulars(says) : says \in [fs -> Values]}
      BY <2>2 DEF Reports
    <3>1. PICK says \in [fs -> Values] : r = Particulars(says)
      BY <3>0
    <3>2. ~r.position /\ r.says = says /\ DOMAIN says = fs
      BY <3>1 DEF Particulars
    <3> DEFINE told2 == [f \in Fields |-> IF f \in DOMAIN r.says THEN r.says[f]
                                                                ELSE v.particulars[f]]
    <3>3. w = [v EXCEPT !.particulars = told2]
      BY <1>2, <3>2 DEF FilledIn, Vessels
    <3>4. told2 \in [Fields -> Values \cup {Unsaid}]
      BY <1>2, <3>0, <3>1, <3>2 DEF Vessels
    <3>5. w.heard = now /\ w.position = old.position /\ w.particulars = told2
      BY <1>2, <3>3 DEF Vessels
    <3>6. w \in Vessels
      BY <1>2, <3>3, <3>4 DEF Vessels
    <3> QED
      BY <1>2, <3>2, <3>5, <3>6
  <2> QED
    BY <2>1, <2>2
<1>4. Takes(vs, m, r) = [n \in DOMAIN vs \cup {m} |-> IF n = m THEN w ELSE vs[n]]
  BY DEF Takes, Entry
<1>5. IsTable(Takes(vs, m, r))
  BY <1>3, <1>4 DEF IsTable
<1>6. DOMAIN Takes(vs, m, r) = DOMAIN vs \cup {m}
  BY <1>4
<1>7. Takes(vs, m, r)[m] = w /\ \A n \in DOMAIN vs \ {m} : Takes(vs, m, r)[n] = vs[n]
  BY <1>4
<1> HIDE DEF w, old
<1> QED
  BY <1>3, <1>5, <1>6, <1>7 DEF Filled, old

(* A table less one of its vessels. *)
LEMMA WithoutOne ==
    ASSUME NEW vs, IsTable(vs), NEW m \in DOMAIN vs
    PROVE  /\ IsTable(Without(vs, m))
           /\ DOMAIN Without(vs, m) = DOMAIN vs \ {m}
           /\ \A n \in DOMAIN Without(vs, m) : Without(vs, m)[n] = vs[n]
  BY DEF IsTable, Without, Restrict

(* A table is finite, since the vessels there are are. *)
LEMMA TableIsFinite ==
    ASSUME NEW vs, IsTable(vs)
    PROVE  IsFiniteSet(DOMAIN vs) /\ Cardinality(DOMAIN vs) \in Nat
  BY TrafficAssumption, FS_Subset, FS_CardinalityType DEF IsTable

(* What the vessels of a table kept of an entry of the one before. *)
Keeps(vs, n) ==
    /\ n \in DOMAIN vessels
    /\ vs[n].heard = vessels[n].heard
    /\ vs[n].particulars = vessels[n].particulars
    /\ \/ vs[n].position = vessels[n].position
       \/ vs[n].position = Never /\ Lost(vessels[n].position)

(* A table with room for a report and with its other entries as they were; the report
   taken by it, or not. *)
Answers(room, m, r) ==
    /\ IsTable(room)
    /\ \A n \in DOMAIN room : Keeps(room, n)
    /\ \/ /\ Cardinality(DOMAIN room \cup {m}) <= MAX_VESSELS
          /\ vessels' = Takes(room, m, r)
          /\ (m \in DOMAIN vessels => m \in DOMAIN room)
       \/ /\ Cardinality(DOMAIN room) <= MAX_VESSELS
          /\ vessels' = room /\ m \notin DOMAIN room

(* Traffic::update, seen from its outcome: a report taken by a table with room, or left. *)
LEMMA UpdateRoom ==
    ASSUME TypeOK, NEW m \in Mmsis, NEW r \in Reports, Update(m, r)
    PROVE  \E room : Answers(room, m, r)
<1> DEFINE kept == Expire(vessels)
<1>1. /\ IsTable(vessels) /\ IsFiniteSet(DOMAIN vessels)
      /\ Cardinality(DOMAIN vessels) <= MAX_VESSELS
      /\ MAX_VESSELS \in Nat
  BY TableIsFinite, TrafficAssumption DEF TypeOK
<1>2. CASE m \in DOMAIN vessels
  <2>1. vessels' = Takes(vessels, m, r)
    BY <1>2 DEF Update
  <2>2. DOMAIN vessels \cup {m} = DOMAIN vessels
    BY <1>2
  <2>3. \A n \in DOMAIN vessels : Keeps(vessels, n)
    BY DEF Keeps
  <2> QED
    BY <1>1, <1>2, <2>1, <2>2, <2>3 DEF Answers
<1>3. CASE m \notin DOMAIN vessels
  <2>1. /\ IsTable(kept) /\ IsFiniteSet(DOMAIN kept) /\ DOMAIN kept \subseteq DOMAIN vessels
        /\ \A n \in DOMAIN kept : Keeps(kept, n)
        /\ Cardinality(DOMAIN kept) \in Nat /\ Cardinality(DOMAIN kept) <= MAX_VESSELS
    <3>1. /\ IsTable(kept) /\ DOMAIN kept \subseteq DOMAIN vessels
          /\ \A n \in DOMAIN kept : Keeps(kept, n)
      BY <1>1, ExpireKeeps DEF Keeps
    <3>2. IsFiniteSet(DOMAIN kept) /\ Cardinality(DOMAIN kept) \in Nat
      BY <3>1, TableIsFinite
    <3>3. Cardinality(DOMAIN kept) <= Cardinality(DOMAIN vessels)
      BY <1>1, <3>1, FS_Subset
    <3>4. Cardinality(DOMAIN vessels) \in Nat
      BY <1>1, FS_CardinalityType
    <3> HIDE DEF kept
    <3> QED
      BY <1>1, <3>1, <3>2, <3>3, <3>4
  <2>2. m \notin DOMAIN kept
    BY <1>3, <2>1
  <2>3. CASE Cardinality(DOMAIN kept) < MAX_VESSELS
    <3>1. vessels' = Takes(kept, m, r)
      BY <1>3, <2>3 DEF Update
    <3>2. Cardinality(DOMAIN kept \cup {m}) = Cardinality(DOMAIN kept) + 1
      BY <2>1, <2>2, FS_AddElement
    <3> HIDE DEF kept
    <3>3. Cardinality(DOMAIN kept \cup {m}) <= MAX_VESSELS
      BY <1>1, <2>1, <2>3, <3>2
    <3> QED
      BY <1>3, <2>1, <3>1, <3>3 DEF Answers
  <2>4. CASE ~(Cardinality(DOMAIN kept) < MAX_VESSELS)
    <3>1. CASE vessels' = kept
      BY <2>1, <2>2, <3>1 DEF Answers
    <3>2. CASE vessels' # kept
      <4>1. PICK room \in MakeRoom(kept, r) : vessels' = Takes(room, m, r)
        BY <1>3, <2>4, <3>2 DEF Update
      <4>2. PICK n \in DOMAIN kept : room = Without(kept, n)
        BY <4>1 DEF MakeRoom, LeastWorth
      <4> HIDE DEF kept
      <4>3. /\ IsTable(room) /\ DOMAIN room = DOMAIN kept \ {n}
            /\ \A k \in DOMAIN room : room[k] = kept[k]
        BY <2>1, <4>2, WithoutOne
      <4>4. /\ IsFiniteSet(DOMAIN room)
            /\ Cardinality(DOMAIN room) = Cardinality(DOMAIN kept) - 1
        BY <2>1, <4>3, FS_RemoveElement
      <4>5. Cardinality(DOMAIN room \cup {m}) = Cardinality(DOMAIN room) + 1
        BY <2>2, <4>3, <4>4, FS_AddElement
      <4>6. Cardinality(DOMAIN room \cup {m}) <= MAX_VESSELS
        BY <1>1, <2>1, <4>4, <4>5
      <4>7. \A k \in DOMAIN room : Keeps(room, k)
        BY <2>1, <4>3 DEF Keeps
      <4> QED
        BY <1>3, <4>1, <4>3, <4>6, <4>7 DEF Answers
    <3> QED
      BY <3>1, <3>2
  <2> QED
    BY <2>3, <2>4
<1> QED
  BY <1>2, <1>3

-----------------------------------------------------------------------------
(* Init: an empty table. *)
LEMMA InitInv == Init => IInv
<1> SUFFICES ASSUME Init PROVE IInv
  OBVIOUS
<1>1. DOMAIN vessels = {} /\ DOMAIN shown = {} /\ Cardinality({}) = 0
  BY FS_EmptySet DEF Init, Targets
<1>2. IsTable(vessels) /\ shown \in [DOMAIN shown -> BOOLEAN]
  BY <1>1 DEF IsTable, Init, Targets
<1>3. Cardinality(DOMAIN vessels) <= MAX_VESSELS
  BY <1>1, TrafficAssumption
<1>t. TypeOK
  <2>1. heard \in [Mmsis -> Instants] /\ placed \in [Mmsis -> Instants]
    BY DEF Init, Instants
  <2>2. told \in [Mmsis -> [Fields -> Values \cup {Unsaid}]]
    BY DEF Init, NothingSaid
  <2> QED
    BY <1>1, <1>2, <1>3, <2>1, <2>2 DEF Init, TypeOK
<1>4. InTime
  BY <1>1, TrafficAssumption DEF Init, InTime, Never
<1> QED
  BY <1>1, <1>t, <1>4 DEF IInv, SaysItsLast, Untold, Init

(* A report keeps the invariant, whatever the table makes of it. *)
LEMMA HearInv ==
    ASSUME IInv, NEW m \in Mmsis, NEW r \in Reports, Hear(m, r)
    PROVE  IInv'
<1>1. /\ TypeOK /\ Update(m, r) /\ now \in Nat
      /\ now' = now /\ tickDue' = tickDue /\ shown' = shown
  BY DEF Hear, IInv, TypeOK
<1>2. PICK room : Answers(room, m, r)
  BY <1>1, UpdateRoom, Zenon
<1>3. \/ r.position /\ DOMAIN r.says = {}
      \/ ~r.position /\ DOMAIN r.says \subseteq Fields /\ r.says \in [DOMAIN r.says -> Values]
  <2>1. CASE r = APosition
    BY <2>1 DEF APosition
  <2>2. CASE r # APosition
    <3>1. PICK fs \in SUBSET Fields : r \in {Particulars(says) : says \in [fs -> Values]}
      BY <2>2 DEF Reports
    <3> QED
      BY <3>1 DEF Particulars
  <2> QED
    BY <2>1, <2>2
<1>4. /\ heard' = [heard EXCEPT ![m] = now]
      /\ heard' \in [Mmsis -> Instants]
      /\ placed' = IF r.position THEN [placed EXCEPT ![m] = now] ELSE placed
      /\ placed' \in [Mmsis -> Instants]
      /\ crowded' \in BOOLEAN
  BY <1>1, <1>3 DEF Hear, TypeOK, Instants
<1>5. /\ told' \in [Mmsis -> [Fields -> Values \cup {Unsaid}]]
      /\ \A n \in Mmsis \ DOMAIN vessels' : told'[n] = NothingSaid
      /\ \A n \in Mmsis \ {m} : n \in DOMAIN vessels' => told'[n] = told[n]
      /\ m \in DOMAIN vessels' =>
            \A f \in Fields : told'[m][f] = IF f \in DOMAIN r.says THEN r.says[f] ELSE told[m][f]
  <2> DEFINE t == [f \in Fields |-> IF f \in DOMAIN r.says THEN r.says[f] ELSE told[m][f]]
             said == [told EXCEPT ![m] = t]
  <2>1. told \in [Mmsis -> [Fields -> Values \cup {Unsaid}]]
    BY <1>1 DEF TypeOK
  <2>2. told' = [n \in Mmsis |-> IF n \in DOMAIN vessels' THEN said[n] ELSE NothingSaid]
    BY DEF Hear, Remembered
  <2>3. t \in [Fields -> Values \cup {Unsaid}]
    BY <1>3, <2>1
  <2>4. NothingSaid \in [Fields -> Values \cup {Unsaid}]
    BY DEF NothingSaid
  <2>5. said \in [Mmsis -> [Fields -> Values \cup {Unsaid}]] /\ said[m] = t
    BY <2>1, <2>3
  <2>6. \A n \in Mmsis \ {m} : said[n] = told[n]
    BY <2>1
  <2> HIDE DEF said
  <2>7. told' \in [Mmsis -> [Fields -> Values \cup {Unsaid}]]
    BY <2>2, <2>4, <2>5
  <2> QED
    BY <2>2, <2>5, <2>6, <2>7
<1>6. /\ IsTable(vessels') /\ Cardinality(DOMAIN vessels') <= MAX_VESSELS
      /\ \A n \in DOMAIN vessels' \ {m} : Keeps(vessels', n)
      /\ m \in DOMAIN vessels' => Filled(vessels'[m], Entry(room, m), r)
  <2>1. CASE /\ Cardinality(DOMAIN room \cup {m}) <= MAX_VESSELS
             /\ vessels' = Takes(room, m, r)
    <3>1. IsTable(room) /\ \A n \in DOMAIN room : Keeps(room, n)
      BY <1>2 DEF Answers
    <3>2. /\ IsTable(Takes(room, m, r)) /\ DOMAIN Takes(room, m, r) = DOMAIN room \cup {m}
          /\ \A n \in DOMAIN room \ {m} : Takes(room, m, r)[n] = room[n]
          /\ Filled(Takes(room, m, r)[m], Entry(room, m), r)
      BY <1>1, <3>1, TakesReport
    <3>3. /\ IsTable(vessels') /\ DOMAIN vessels' = DOMAIN room \cup {m}
          /\ \A n \in DOMAIN room \ {m} : vessels'[n] = room[n]
          /\ Filled(vessels'[m], Entry(room, m), r)
      BY <2>1, <3>2
    <3>4. \A n \in DOMAIN vessels' \ {m} : Keeps(vessels', n)
      BY <3>1, <3>3 DEF Keeps
    <3> QED
      BY <2>1, <3>3, <3>4
  <2>2. CASE /\ Cardinality(DOMAIN room) <= MAX_VESSELS
             /\ vessels' = room /\ m \notin DOMAIN room
    BY <1>2, <2>2 DEF Answers
  <2> QED
    BY <1>2, <2>1, <2>2 DEF Answers
<1>7. m \in DOMAIN vessels' /\ m \in DOMAIN vessels => m \in DOMAIN room
  BY <1>2 DEF Answers
<1>8. TypeOK'
  BY <1>1, <1>4, <1>5, <1>6 DEF TypeOK, IsTable
<1>9. InTime'
  <2>1. \A n \in Mmsis : heard'[n] <= now /\ placed'[n] <= heard'[n]
    BY <1>1, <1>4 DEF IInv, InTime, TypeOK, Instants, Never
  <2>2. ASSUME NEW n \in DOMAIN vessels' PROVE Kept(n)'
    <3>1. CASE n # m
      BY <1>1, <1>4, <1>6, <2>2, <3>1 DEF IInv, InTime, Kept, Keeps, TypeOK, IsTable
    <3>2. CASE n = m
      <4>1. CASE r.position
        BY <1>1, <1>4, <1>6, <2>2, <3>2, <4>1 DEF Kept, Filled, TypeOK
      <4>2. CASE ~r.position /\ m \in DOMAIN room
        <5>1. Keeps(room, m)
          BY <1>2, <4>2 DEF Answers
        <5> QED
          BY <1>1, <1>4, <1>6, <2>2, <3>2, <4>2, <5>1
             DEF IInv, InTime, Kept, Keeps, Filled, Entry, TypeOK
      <4>3. CASE ~r.position /\ m \notin DOMAIN room
        BY <1>1, <1>4, <1>6, <2>2, <3>2, <4>3 DEF Kept, Filled, Entry, NewVessel, TypeOK
      <4> QED
        BY <4>1, <4>2, <4>3
    <3> QED
      BY <3>1, <3>2
  <2>3. ASSUME NEW n \in DOMAIN shown
        PROVE  /\ tickDue - TickEvery - heard'[n] < LOST_AFTER
               /\ shown[n] => tickDue - TickEvery - placed'[n] < LOST_AFTER
    <3>1. n \in Mmsis /\ heard[n] \in Instants /\ placed[n] \in Instants
      BY <1>1, <2>3 DEF TypeOK
    <3>2. /\ heard[n] <= now /\ placed[n] <= now
          /\ tickDue - TickEvery - heard[n] < LOST_AFTER
          /\ shown[n] => tickDue - TickEvery - placed[n] < LOST_AFTER
      BY <1>1, <2>3, <3>1 DEF IInv, InTime, Instants, Never
    <3>3. heard'[n] \in {heard[n], now} /\ placed'[n] \in {placed[n], now}
      BY <1>1, <1>4, <3>1 DEF TypeOK
    <3>4. tickDue \in Nat /\ now \in Nat /\ LOST_AFTER \in Nat
      BY <1>1, TrafficAssumption DEF TypeOK
    <3> QED
      BY <3>1, <3>2, <3>3, <3>4 DEF Instants, Never, TickEvery
  <2> QED
    BY <1>1, <2>1, <2>2, <2>3 DEF IInv, InTime
<1>10. SaysItsLast'
  <2> SUFFICES ASSUME NEW n \in DOMAIN vessels'
               PROVE  vessels'[n].particulars = told'[n]
    BY DEF SaysItsLast
  <2>1. /\ n \in Mmsis /\ told'[n] \in [Fields -> Values \cup {Unsaid}]
        /\ vessels'[n].particulars \in [Fields -> Values \cup {Unsaid}]
    BY <1>5, <1>6 DEF IsTable, Vessels
  <2>2. CASE n # m
    BY <1>5, <1>6, <2>1, <2>2 DEF IInv, SaysItsLast, Keeps
  <2>3. CASE n = m
    <3>1. Entry(room, m).particulars = told[m]
      <4>1. CASE m \in DOMAIN room
        BY <1>2, <4>1 DEF Answers, Keeps, Entry, IInv, SaysItsLast
      <4>2. CASE m \notin DOMAIN room
        BY <1>7, <2>3, <4>2 DEF Entry, NewVessel, IInv, Untold
      <4> QED
        BY <4>1, <4>2
    <3>2. \A f \in Fields : vessels'[m].particulars[f] = told'[m][f]
      BY <1>5, <1>6, <2>3, <3>1 DEF Filled
    <3> QED
      BY <2>1, <2>3, <3>2
  <2> QED
    BY <2>2, <2>3
<1>11. Untold'
  BY <1>5 DEF Untold
<1> QED
  BY <1>8, <1>9, <1>10, <1>11 DEF IInv

(* The tick drops the lost and shows the rest. *)
LEMMA TickInv == IInv /\ Tick => IInv'
<1> SUFFICES ASSUME IInv, Tick PROVE IInv'
  OBVIOUS
<1>1. /\ TypeOK /\ now \in Nat /\ now' = now /\ tickDue' = now + 1
      /\ vessels' = Expire(vessels) /\ shown' = Targets(vessels')
      /\ heard' = heard /\ placed' = placed /\ told' = Remembered(told) /\ crowded' = crowded
  BY DEF Tick, TickEvery, IInv, TypeOK
<1>2. /\ IsTable(vessels) /\ IsTable(vessels') /\ DOMAIN vessels' \subseteq DOMAIN vessels
      /\ \A m \in DOMAIN vessels' : Keeps(vessels', m) /\ ~Lost(vessels'[m].heard)
                                                       /\ ~Lost(vessels'[m].position)
  <2>1. IsTable(vessels)
    BY <1>1 DEF TypeOK
  <2>2. ~Lost(Never)
    BY DEF Lost
  <2>3. \A m \in DOMAIN Expire(vessels) :
           /\ Keeps(Expire(vessels), m)
           /\ ~Lost(Expire(vessels)[m].heard) /\ ~Lost(Expire(vessels)[m].position)
    BY <2>1, <2>2, ExpireKeeps DEF Keeps
  <2>4. IsTable(Expire(vessels)) /\ DOMAIN Expire(vessels) \subseteq DOMAIN vessels
    BY <2>1, ExpireKeeps
  <2> QED
    BY <1>1, <2>1, <2>3, <2>4
<1>3. Cardinality(DOMAIN vessels') <= MAX_VESSELS
  <2>1. IsFiniteSet(DOMAIN vessels) /\ Cardinality(DOMAIN vessels) \in Nat
    BY <1>2, TableIsFinite
  <2>2. Cardinality(DOMAIN vessels') \in Nat
    BY <1>2, TableIsFinite
  <2>3. Cardinality(DOMAIN vessels') <= Cardinality(DOMAIN vessels)
    BY <1>2, <2>1, FS_Subset
  <2> QED
    BY <1>1, <2>1, <2>2, <2>3, TrafficAssumption DEF TypeOK
<1>4. DOMAIN shown' = DOMAIN vessels' /\ shown' \in [DOMAIN shown' -> BOOLEAN]
  BY <1>1 DEF Targets
<1>t. /\ told' \in [Mmsis -> [Fields -> Values \cup {Unsaid}]]
      /\ \A m \in Mmsis : told'[m] = IF m \in DOMAIN vessels' THEN told[m] ELSE NothingSaid
  BY <1>1 DEF TypeOK, Remembered, NothingSaid
<1>5. TypeOK'
  BY <1>1, <1>2, <1>3, <1>4, <1>t DEF TypeOK, IsTable
<1>6. \A m \in DOMAIN vessels' : Kept(m)'
  BY <1>1, <1>2 DEF IInv, InTime, Kept, Keeps
<1>7. ASSUME NEW m \in DOMAIN shown'
      PROVE  /\ tickDue' - TickEvery - heard'[m] < LOST_AFTER
             /\ shown'[m] => tickDue' - TickEvery - placed'[m] < LOST_AFTER
  <2>1. vessels'[m] \in Vessels /\ m \in DOMAIN vessels' /\ Kept(m)'
    BY <1>2, <1>4, <1>6, <1>7 DEF IsTable
  <2>2. now - vessels'[m].heard < LOST_AFTER
    BY <1>1, <1>2, <2>1, TrafficAssumption DEF Vessels, Lost, Never
  <2>3. shown'[m] = (vessels'[m].position # Never)
    BY <1>1, <2>1 DEF Targets
  <2>4. ASSUME shown'[m] PROVE now - vessels'[m].position < LOST_AFTER
    <3>1. vessels'[m].position # Never /\ ~Lost(vessels'[m].position)
      BY <1>2, <2>1, <2>3, <2>4
    <3>2. vessels'[m].position \in Nat
      BY <2>1, <3>1 DEF Vessels, Instants
    <3> QED
      BY <1>1, <3>1, <3>2, TrafficAssumption DEF Lost
  <2>5. vessels'[m].heard = heard'[m]
    BY <2>1 DEF Kept
  <2>6. shown'[m] => vessels'[m].position = placed'[m]
    BY <2>1, <2>3 DEF Kept
  <2>7. vessels'[m].heard \in Nat /\ vessels'[m].position \in Int
    BY <2>1 DEF Vessels, Instants, Never
  <2> QED
    BY <1>1, <2>2, <2>4, <2>5, <2>6, <2>7 DEF TickEvery
<1>8. InTime'
  BY <1>1, <1>6, <1>7, TrafficAssumption DEF IInv, InTime
<1>9. SaysItsLast'
  BY <1>1, <1>2, <1>t DEF IInv, SaysItsLast, Keeps, IsTable
<1>10. Untold'
  BY <1>t DEF Untold
<1> QED
  BY <1>5, <1>8, <1>9, <1>10 DEF IInv

(* The next step, one case for each action. *)
LEMMA NextInv == IInv /\ [Next]_vars => IInv'
<1> SUFFICES ASSUME IInv, [Next]_vars PROVE IInv'
  OBVIOUS
<1>1. ASSUME NEW m \in Mmsis, NEW r \in Reports, Hear(m, r) PROVE IInv'
  BY <1>1, HearInv
<1>2. CASE Tick
  BY <1>2, TickInv
<1>3. CASE Advance
  <2>1. /\ now' = now + 1 /\ now < tickDue + Lateness
        /\ UNCHANGED <<tickDue, vessels, shown, heard, placed, told, crowded>>
    BY <1>3 DEF Advance
  <2>2. TypeOK'
    BY <2>1 DEF IInv, TypeOK, IsTable
  <2>3. \A m \in DOMAIN vessels' : Kept(m)'
    BY <2>1 DEF IInv, InTime, Kept
  <2>4. \A m \in Mmsis : heard'[m] <= now' /\ placed'[m] <= heard'[m]
    BY <2>1 DEF IInv, InTime, TypeOK, Instants, Never
  <2>5. now' <= tickDue' + Lateness
    BY <2>1, TrafficAssumption DEF IInv, TypeOK
  <2>6. InTime'
    BY <2>1, <2>3, <2>4, <2>5 DEF IInv, InTime
  <2>7. SaysItsLast'
    BY <2>1 DEF IInv, SaysItsLast
  <2>8. Untold'
    BY <2>1 DEF IInv, Untold
  <2> QED
    BY <2>2, <2>6, <2>7, <2>8 DEF IInv
<1>4. CASE UNCHANGED vars
  <2>1. UNCHANGED <<now, tickDue, vessels, shown, heard, placed, told, crowded>>
    BY <1>4 DEF vars
  <2> QED
    BY <2>1 DEF IInv, TypeOK, IsTable, InTime, Kept, SaysItsLast, Untold
<1> QED
  BY <1>1, <1>2, <1>3, <1>4 DEF Next

(* The table, and what is shown of it, are as old as what was heard, and say it. *)
(* The invariant holds of every reachable state, for any number of vessels. *)
THEOREM InvariantHolds == Spec => []IInv
  BY InitInv, NextInv, PTL DEF Spec

(* The table keeps its type, and never more than MAX_VESSELS. *)
THEOREM TypeCorrect == Spec => []TypeOK
<1>1. IInv => TypeOK
  BY DEF IInv
<1> QED
  BY <1>1, InvariantHolds, PTL

(* What is known of a vessel is the last it said of each thing since it came into the
   table: all of it, and nothing else. *)
THEOREM LastSaidIsKnown == Spec => []SaysItsLast
<1>1. IInv => SaysItsLast
  BY DEF IInv
<1> QED
  BY <1>1, InvariantHolds, PTL

(* What was shown at a tick was not lost then, and the next tick is not far. *)
LEMMA LostFromTime == IInv => LostLeavesOnTime
<1> SUFFICES ASSUME IInv, NEW m \in DOMAIN shown
             PROVE  /\ now - heard[m] <= LOST_AFTER + Lateness
                    /\ shown[m] => now - placed[m] <= LOST_AFTER + Lateness
  BY DEF LostLeavesOnTime
<1>1. m \in Mmsis /\ heard[m] \in Instants /\ placed[m] \in Instants
  BY DEF IInv, TypeOK
<1>2. /\ now <= tickDue + Lateness
      /\ tickDue - TickEvery - heard[m] < LOST_AFTER
      /\ shown[m] => tickDue - TickEvery - placed[m] < LOST_AFTER
  BY DEF IInv, InTime
<1>3. now \in Nat /\ tickDue \in Nat /\ LOST_AFTER \in Nat /\ Lateness \in Nat
  BY TrafficAssumption DEF IInv, TypeOK
<1> QED
  BY <1>1, <1>2, <1>3 DEF Instants, Never, TickEvery

(* No vessel is shown more than LOST_AFTER and the loop's lateness after it was last
   heard, and none with a position older than that. *)
THEOREM LostLeave == Spec => []LostLeavesOnTime
  BY LostFromTime, InvariantHolds, PTL

-----------------------------------------------------------------------------
(* What one report makes of the table, by the branches of Traffic::update. *)
LEMMA UpdateCases ==
    ASSUME TypeOK, NEW m \in Mmsis, NEW r \in Reports, Update(m, r)
    PROVE  LET kept == Expire(vessels)
           IN \/ m \in DOMAIN vessels /\ vessels' = Takes(vessels, m, r)
              \/ /\ m \notin DOMAIN vessels /\ Cardinality(DOMAIN kept) < MAX_VESSELS
                 /\ vessels' = Takes(kept, m, r)
              \/ /\ m \notin DOMAIN vessels /\ ~(Cardinality(DOMAIN kept) < MAX_VESSELS)
                 /\ \E n \in LeastWorth(kept) :
                       /\ kept[n].position = Never \/ r.position
                       /\ vessels' = Takes(Without(kept, n), m, r)
              \/ /\ m \notin DOMAIN vessels /\ ~(Cardinality(DOMAIN kept) < MAX_VESSELS)
                 /\ \A n \in LeastWorth(kept) : kept[n].position # Never /\ ~r.position
                 /\ vessels' = kept
<1> DEFINE kept == Expire(vessels)
<1>1. CASE m \in DOMAIN vessels
  BY <1>1 DEF Update
<1>2. CASE m \notin DOMAIN vessels /\ Cardinality(DOMAIN kept) < MAX_VESSELS
  BY <1>2 DEF Update
<1>3. CASE m \notin DOMAIN vessels /\ ~(Cardinality(DOMAIN kept) < MAX_VESSELS)
  <2>1. CASE \E room \in MakeRoom(kept, r) : vessels' = Takes(room, m, r)
    BY <1>3, <2>1 DEF MakeRoom
  <2>2. CASE MakeRoom(kept, r) = {} /\ vessels' = kept
    <3>1. \A n \in LeastWorth(kept) : kept[n].position # Never /\ ~r.position
      BY <2>2 DEF MakeRoom
    <3> QED
      BY <1>3, <2>2, <3>1
  <2> QED
    BY <1>3, <2>1, <2>2 DEF Update
<1> QED
  BY <1>1, <1>2, <1>3

(* Of the entries of a table that is not empty, one is worth no more than any. *)
LEMMA LeastOfMany ==
    ASSUME NEW vs, IsTable(vs), DOMAIN vs # {}
    PROVE  LeastWorth(vs) # {}
<1> DEFINE bare == {m \in DOMAIN vs : vs[m].position = Never}
           T == IF bare # {} THEN bare ELSE DOMAIN vs
           N == {vs[m].heard : m \in T}
<1>1. T # {} /\ T \subseteq DOMAIN vs
  OBVIOUS
<1>2. N \subseteq Nat /\ N # {}
  BY <1>1 DEF IsTable, Vessels
<1>3. PICK least \in N : \A n \in N : ~(n < least)
  <2> HIDE DEF N
  <2>1. PICK least \in N : \A n \in N : ~(<<n, least>> \in OpToRel(<, Nat))
    BY <1>2, NatLessThanWellFounded, WFMin
  <2> QED
    BY <1>2, <2>1, Zenon DEF OpToRel
<1>4. PICK m \in T : vs[m].heard = least
  BY <1>3
<1>5. \A n \in DOMAIN vs : ~LessWorth(vs[n], vs[m])
  <2> SUFFICES ASSUME NEW n \in DOMAIN vs, LessWorth(vs[n], vs[m]) PROVE FALSE
    OBVIOUS
  <2>1. n \in T
    BY <1>4 DEF LessWorth
  <2>2. vs[n].heard < vs[m].heard
    BY <1>4, <2>1 DEF LessWorth
  <2>3. vs[n].heard \in N
    BY <2>1
  <2> QED
    BY <1>3, <1>4, <2>2, <2>3
<1> QED
  BY <1>1, <1>4, <1>5 DEF LeastWorth

(* A vessel's entry, with the position it reported unless that is lost. *)
InTable(m) ==
    /\ m \in DOMAIN vessels
    /\ placed[m] # Never /\ ~Lost(placed[m]) => vessels[m].position = placed[m]

(* AllAboutAreKept, with the instants that the invariant gives left out. *)
LEMMA AboutInTable ==
    ASSUME IInv
    PROVE  AllAboutAreKept <=> (~crowded => \A m \in About : InTable(m))
  BY DEF AllAboutAreKept, InTable, IInv, InTime, Kept, About

(* The tables an update starts from keep every vessel that is about, with its position. *)
LEMMA KeptInTable ==
    ASSUME IInv, NEW m \in About, InTable(m)
    PROVE  /\ m \in DOMAIN Expire(vessels)
           /\ Expire(vessels)[m].heard = heard[m]
           /\ placed[m] # Never /\ ~Lost(placed[m]) => Expire(vessels)[m].position = placed[m]
<1>1. /\ IsTable(vessels) /\ m \in DOMAIN vessels /\ vessels[m].heard = heard[m]
      /\ ~Lost(heard[m])
  BY DEF IInv, TypeOK, InTime, Kept, InTable, About
<1> QED
  BY <1>1, ExpireKeeps DEF InTable

(* A table has a vessel as InTable says of the table of the state. *)
Has(vs, m) ==
    /\ m \in DOMAIN vs
    /\ placed[m] # Never /\ ~Lost(placed[m]) => vs[m].position = placed[m]

(* What a report changes of who is about: only the vessel that sent it. *)
LEMMA HearChanges ==
    ASSUME IInv, NEW m \in Mmsis, NEW r \in Reports, Hear(m, r)
    PROVE  /\ now' = now /\ now \in Nat /\ now # Never
           /\ heard'[m] = now /\ placed'[m] = IF r.position THEN now ELSE placed[m]
           /\ \A n \in Mmsis \ {m} : heard'[n] = heard[n] /\ placed'[n] = placed[n]
           /\ \A n \in Mmsis \ {m} : n \in About' <=> n \in About
           /\ m \in About'
           /\ placed[m] # Never /\ ~Lost(placed[m]) => m \in About
<1>1. /\ now' = now /\ now \in Nat /\ now # Never
      /\ heard' = [heard EXCEPT ![m] = now]
      /\ placed' = IF r.position THEN [placed EXCEPT ![m] = now] ELSE placed
      /\ heard \in [Mmsis -> Instants] /\ placed \in [Mmsis -> Instants]
  BY DEF Hear, IInv, TypeOK, Never
<1>2. /\ heard'[m] = now /\ placed'[m] = IF r.position THEN now ELSE placed[m]
      /\ \A n \in Mmsis \ {m} : heard'[n] = heard[n] /\ placed'[n] = placed[n]
  BY <1>1
<1>3. \A n \in Mmsis \ {m} : n \in About' <=> n \in About
  BY <1>1, <1>2 DEF About, Lost
<1>4. m \in About'
  BY <1>1, <1>2, TrafficAssumption DEF About, Lost
<1>5. ASSUME placed[m] # Never, ~Lost(placed[m]) PROVE m \in About
  <2>1. /\ placed[m] \in Nat /\ heard[m] \in Instants /\ placed[m] <= heard[m]
        /\ now - placed[m] < LOST_AFTER
    BY <1>1, <1>5, TrafficAssumption DEF IInv, InTime, Lost, Instants
  <2>2. heard[m] # Never /\ now - heard[m] < LOST_AFTER
    BY <1>1, <2>1, TrafficAssumption DEF Instants, Never
  <2> QED
    BY <1>1, <2>1, <2>2, TrafficAssumption DEF About, Lost, Instants
<1> QED
  BY <1>1, <1>2, <1>3, <1>4, <1>5

(* A report taken leaves the entries of the others, and fills in that of its vessel. *)
LEMMA TakenInTable ==
    ASSUME IInv, NEW m \in Mmsis, NEW r \in Reports, Hear(m, r),
           NEW vs, IsTable(vs), vessels' = Takes(vs, m, r)
    PROVE  /\ (m \in About => Has(vs, m)) \/ r.position => InTable(m)'
           /\ \A n \in Mmsis \ {m} : Has(vs, n) => InTable(n)'
<1>1. /\ DOMAIN vessels' = DOMAIN vs \cup {m}
      /\ \A n \in DOMAIN vs \ {m} : vessels'[n] = vs[n]
      /\ Filled(vessels'[m], Entry(vs, m), r)
  <2>1. now \in Nat
    BY DEF IInv, TypeOK
  <2>2. /\ DOMAIN Takes(vs, m, r) = DOMAIN vs \cup {m}
        /\ \A n \in DOMAIN vs \ {m} : Takes(vs, m, r)[n] = vs[n]
        /\ Filled(Takes(vs, m, r)[m], Entry(vs, m), r)
    BY <2>1, TakesReport
  <2> QED
    BY <2>2
<1>2. ASSUME NEW n \in Mmsis \ {m}, Has(vs, n) PROVE InTable(n)'
  BY <1>1, <1>2, HearChanges DEF Has, InTable, Lost
<1>3. ASSUME r.position PROVE InTable(m)'
  BY <1>1, <1>3, HearChanges DEF InTable, Filled
<1>4. ASSUME ~r.position, m \in About => Has(vs, m) PROVE InTable(m)'
  <2>1. placed'[m] = placed[m] /\ now' = now
        /\ (placed[m] # Never /\ ~Lost(placed[m]) => m \in About)
    BY <1>4, HearChanges
  <2>2. vessels'[m].position = Entry(vs, m).position
    BY <1>1, <1>4 DEF Filled
  <2> QED
    BY <1>1, <1>4, <2>1, <2>2 DEF InTable, Has, Entry, Lost
<1> QED
  BY <1>2, <1>3, <1>4

-----------------------------------------------------------------------------
(* A newcomer finds room as long as no more than MAX_VESSELS are about. *)
LEMMA HearKeepsAbout ==
    ASSUME IInv, AllAboutAreKept, NEW m \in Mmsis, NEW r \in Reports, Hear(m, r)
    PROVE  AllAboutAreKept'
<1> DEFINE kept == Expire(vessels)
<1>1. TypeOK /\ Update(m, r) /\ IsTable(vessels)
  BY DEF IInv, TypeOK, Hear
<1>2. IInv'
  BY HearInv
<1>3. CASE crowded'
  BY <1>3 DEF AllAboutAreKept
<1>4. CASE ~crowded'
  <2>1. ~crowded /\ Cardinality(About \cup {m}) <= MAX_VESSELS
    <3>1. About \cup {m} \subseteq Mmsis
      BY DEF About
    <3>2. Cardinality(About \cup {m}) \in Nat
      BY <3>1, TrafficAssumption, FS_Subset, FS_CardinalityType
    <3>3. ~crowded /\ ~(Cardinality(About \cup {m}) > MAX_VESSELS)
      BY <1>4 DEF Hear
    <3> QED
      BY <3>2, <3>3, TrafficAssumption
  <2>2. \A n \in About : InTable(n)
    BY <2>1, AboutInTable
  <2>3. \A n \in About' : InTable(n)'
    <3>1. CASE m \in DOMAIN vessels
      <4>1. vessels' = Takes(vessels, m, r)
        BY <1>1, <3>1 DEF Update
      <4>2. \A n \in About : Has(vessels, n)
        BY <2>2 DEF Has, InTable
      <4>3. \A n \in About' : n \in Mmsis /\ (n = m \/ n \in About)
        BY HearChanges DEF About
      <4> QED
        BY <1>1, <4>1, <4>2, <4>3, TakenInTable
    <3>2. CASE m \notin DOMAIN vessels
      <4>1. /\ IsTable(kept) /\ DOMAIN kept \subseteq About /\ m \notin DOMAIN kept
            /\ \A n \in About : Has(kept, n)
        <5>1. IsTable(kept) /\ DOMAIN kept \subseteq DOMAIN vessels /\ m \notin DOMAIN kept
          BY <1>1, <3>2, ExpireKeeps
        <5>2. \A n \in About : Has(kept, n)
          BY <2>2, KeptInTable DEF Has
        <5>3. ASSUME NEW n \in DOMAIN kept PROVE n \in About
          <6>1. n \in DOMAIN vessels /\ ~Lost(vessels[n].heard)
            BY <1>1, <5>3, ExpireKeeps
          <6> QED
            BY <1>1, <6>1 DEF IInv, InTime, Kept, About, IsTable, Vessels, Never
        <5> QED
          BY <5>1, <5>2, <5>3
      <4>2. Cardinality(DOMAIN kept) < MAX_VESSELS
        <5> HIDE DEF kept
        <5>1. IsFiniteSet(DOMAIN kept) /\ Cardinality(DOMAIN kept) \in Nat
          BY <4>1, TableIsFinite
        <5>2. Cardinality(DOMAIN kept \cup {m}) = Cardinality(DOMAIN kept) + 1
          BY <4>1, <5>1, FS_AddElement
        <5>3. IsFiniteSet(About \cup {m})
          BY TrafficAssumption, FS_Subset DEF About
        <5>4. Cardinality(DOMAIN kept \cup {m}) <= Cardinality(About \cup {m})
          BY <4>1, <5>3, FS_Subset
        <5>5. Cardinality(About \cup {m}) \in Nat
          BY <5>3, FS_CardinalityType
        <5> QED
          BY <2>1, <5>1, <5>2, <5>4, <5>5, TrafficAssumption
      <4>3. vessels' = Takes(kept, m, r)
        BY <1>1, <3>2, <4>2 DEF Update
      <4>4. \A n \in About' : n \in Mmsis /\ (n = m \/ n \in About)
        BY HearChanges DEF About
      <4> HIDE DEF kept
      <4> QED
        BY <4>1, <4>3, <4>4, TakenInTable
    <3> QED
      BY <3>1, <3>2
  <2>4. AllAboutAreKept' <=> (~crowded' => \A n \in About' : InTable(n)')
    BY <1>2 DEF AllAboutAreKept, InTable, IInv, InTime, Kept, About
  <2> QED
    BY <2>3, <2>4
<1> QED
  BY <1>3, <1>4

(* What is not lost now was not lost before. *)
LEMMA AgesOnly ==
    ASSUME NEW a \in Nat, NEW b \in Nat, a <= b, NEW t \in Nat, NEW age \in Nat,
           ~(b - t >= age)
    PROVE  ~(a - t >= age)
  OBVIOUS

(* Time, and the tick, lose no vessel that is still about. *)
LEMMA TimeKeeps ==
    ASSUME IInv, Tick \/ Advance \/ UNCHANGED vars, NEW m \in About'
    PROVE  /\ m \in About /\ heard' = heard /\ placed' = placed /\ crowded' = crowded
           /\ ~Lost(placed[m])' => ~Lost(placed[m])
           /\ InTable(m) => InTable(m)'
<1>1. /\ heard' = heard /\ placed' = placed /\ crowded' = crowded
      /\ now \in Nat /\ now' \in Nat /\ now <= now'
      /\ heard \in [Mmsis -> Instants] /\ placed \in [Mmsis -> Instants]
  BY DEF IInv, TypeOK, Tick, Advance, vars
<1>2. m \in Mmsis /\ heard[m] # Never /\ ~Lost(heard[m])'
  BY <1>1 DEF About
<1>3. ASSUME NEW t \in Instants, ~(t # Never /\ now' - t >= LOST_AFTER)
      PROVE  ~Lost(t)
  <2>1. CASE t = Never
    BY <2>1 DEF Lost
  <2>2. CASE t \in Nat /\ t # Never
    <3>1. ~(now' - t >= LOST_AFTER)
      BY <1>3, <2>2
    <3>2. now \in Nat /\ now' \in Nat /\ now <= now' /\ LOST_AFTER \in Nat
      BY <1>1, TrafficAssumption
    <3>3. ~(now - t >= LOST_AFTER)
      BY <2>2, <3>1, <3>2, AgesOnly
    <3> QED
      BY <3>3 DEF Lost
  <2> QED
    BY <1>3, <2>1, <2>2 DEF Instants
<1>4. m \in About
  BY <1>1, <1>2, <1>3 DEF About, Lost
<1>5. ~Lost(placed[m])' => ~Lost(placed[m])
  BY <1>1, <1>2, <1>3 DEF Lost
<1>6. ASSUME InTable(m) PROVE InTable(m)'
  <2>1. CASE Tick
    <3>1. /\ m \in DOMAIN Expire(vessels)
          /\ placed[m] # Never /\ ~Lost(placed[m]) =>
                Expire(vessels)[m].position = placed[m]
      BY <1>4, <1>6, KeptInTable
    <3>2. vessels' = Expire(vessels)
      BY <2>1 DEF Tick
    <3> QED
      BY <1>1, <1>5, <3>1, <3>2 DEF InTable
  <2>2. CASE Advance \/ UNCHANGED vars
    <3>1. vessels' = vessels
      BY <2>2 DEF Advance, vars
    <3> QED
      BY <1>1, <1>5, <1>6, <3>1 DEF InTable
  <2> QED
    BY <2>1, <2>2
<1> QED
  BY <1>1, <1>4, <1>5, <1>6

(* Until the table has overflowed, every vessel about is in it, with its position. *)
THEOREM AllKept == Spec => []AllAboutAreKept
<1>1. Init => AllAboutAreKept
  BY DEF Init, AllAboutAreKept, About
<1>2. IInv /\ AllAboutAreKept /\ [Next]_vars => AllAboutAreKept'
  <2> SUFFICES ASSUME IInv, AllAboutAreKept, [Next]_vars PROVE AllAboutAreKept'
    OBVIOUS
  <2>1. ASSUME NEW m \in Mmsis, NEW r \in Reports, Hear(m, r) PROVE AllAboutAreKept'
    BY <2>1, HearKeepsAbout
  <2>2. ASSUME Tick \/ Advance \/ UNCHANGED vars PROVE AllAboutAreKept'
    <3>1. ~crowded => \A m \in About : InTable(m)
      BY AboutInTable
    <3>2. IInv'
      BY NextInv
    <3>3. AllAboutAreKept' <=> (~crowded' => \A m \in About' : InTable(m)')
      BY <3>2 DEF AllAboutAreKept, InTable, IInv, InTime, Kept, About
    <3>4. ASSUME ~crowded', NEW m \in About' PROVE InTable(m)'
      <4>1. m \in About /\ crowded' = crowded /\ (InTable(m) => InTable(m)')
        BY <2>2, <3>4, TimeKeeps
      <4> QED
        BY <3>1, <3>4, <4>1
    <3> QED
      BY <3>3, <3>4
  <2> QED
    BY <2>1, <2>2 DEF Next
<1> QED
  BY <1>1, <1>2, InvariantHolds, PTL DEF Spec

-----------------------------------------------------------------------------
(* The others with a position heard since a vessel's position, and a vessel PlacedIsKept speaks of. *)
Since(m) == {n \in Mmsis \ {m} : heard[n] >= placed[m] /\ placed[n] # Never}
Stays(m) ==
    /\ m \in About /\ placed[m] # Never /\ ~Lost(placed[m])
    /\ Cardinality(Since(m)) < MAX_VESSELS

(* PlacedIsKept in these words. *)
LEMMA PlacedInTable == PlacedIsKept <=> \A m \in Mmsis : Stays(m) => InTable(m)
  BY DEF PlacedIsKept, Stays, InTable, Since, About

(* The least of a full table whose entry has a position has as many others after it,
   the newcomer among them, as there is room for. *)
LEMMA LeastHasManyAfter ==
    ASSUME IInv, NEW h \in Mmsis, NEW r \in Reports, Hear(h, r), h \notin DOMAIN vessels,
           r.position, NEW m \in LeastWorth(Expire(vessels)), m # h,
           Expire(vessels)[m].position = placed[m], placed[m] # Never,
           ~(Cardinality(DOMAIN Expire(vessels)) < MAX_VESSELS)
    PROVE  ~(Cardinality(Since(m)') < MAX_VESSELS)
<1> DEFINE kept == Expire(vessels)
<1>1. /\ IsTable(kept) /\ DOMAIN kept \subseteq DOMAIN vessels
      /\ \A n \in DOMAIN kept : /\ kept[n].heard = heard[n] /\ n \in Mmsis
                                /\ kept[n].position # Never => placed[n] # Never
  <2>1. /\ IsTable(vessels)
        /\ \A n \in DOMAIN vessels :
              /\ vessels[n].heard = heard[n]
              /\ vessels[n].position # Never => placed[n] # Never
    BY DEF IInv, TypeOK, InTime, Kept
  <2>2. /\ IsTable(kept) /\ DOMAIN kept \subseteq DOMAIN vessels
        /\ \A n \in DOMAIN kept :
              /\ kept[n].heard = vessels[n].heard
              /\ kept[n].position # Never => vessels[n].position # Never
    BY <2>1, ExpireKeeps
  <2> HIDE DEF kept
  <2> QED
    BY <2>1, <2>2 DEF IsTable
<1>2. /\ m \in DOMAIN kept /\ \A n \in DOMAIN kept : ~LessWorth(kept[n], kept[m])
      /\ kept[m].position # Never
  BY DEF LeastWorth
<1>3. /\ heard'[h] = now /\ placed'[h] = now /\ now # Never /\ placed'[m] = placed[m]
      /\ \A n \in Mmsis \ {h} : heard'[n] = heard[n] /\ placed'[n] = placed[n]
  BY <1>1, <1>2, HearChanges
<1>4. /\ placed[m] <= heard[m] /\ placed[m] <= now
      /\ placed[m] \in Instants /\ heard[m] \in Instants /\ now \in Nat
  BY <1>1, <1>2 DEF IInv, InTime, TypeOK, Instants, Never
<1>5. ASSUME NEW n \in DOMAIN kept \ {m} PROVE heard[n] >= placed[m] /\ placed[n] # Never
  <2> HIDE DEF kept
  <2>1. ~LessWorth(kept[n], kept[m]) /\ kept[m].position # Never
    BY <1>2
  <2>2. ~(kept[n].heard < kept[m].heard) /\ kept[n].position # Never
    BY <2>1 DEF LessWorth
  <2>3. ~(heard[n] < heard[m])
    BY <1>1, <1>2, <2>2
  <2>4. heard[n] \in Instants
    BY <1>1 DEF IInv, TypeOK
  <2> QED
    BY <1>1, <1>4, <2>2, <2>3, <2>4 DEF Instants, Never
<1> HIDE DEF kept
<1>6. (DOMAIN kept \ {m}) \cup {h} \subseteq Since(m)'
  <2>1. \A n \in (DOMAIN kept \ {m}) \cup {h} : n \in Mmsis \ {m} /\ heard'[n] >= placed'[m] /\ placed'[n] # Never
    <3>1. heard'[h] >= placed'[m]
      BY <1>3, <1>4 DEF Instants, Never
    <3>2. \A n \in DOMAIN kept \ {m} : n # h
      BY <1>1
    <3> QED
      BY <1>1, <1>3, <1>5, <3>1, <3>2
  <2> QED
    BY <2>1 DEF Since
<1>7. /\ IsFiniteSet(DOMAIN kept) /\ IsFiniteSet(DOMAIN kept \ {m})
      /\ Cardinality(DOMAIN kept) \in Nat
      /\ Cardinality(DOMAIN kept \ {m}) = Cardinality(DOMAIN kept) - 1
  BY <1>1, <1>2, TableIsFinite, FS_RemoveElement
<1>8. Cardinality((DOMAIN kept \ {m}) \cup {h}) = Cardinality(DOMAIN kept)
  <2>1. h \notin DOMAIN kept \ {m}
    BY <1>1
  <2>2. Cardinality((DOMAIN kept \ {m}) \cup {h}) = Cardinality(DOMAIN kept \ {m}) + 1
    BY <1>7, <2>1, FS_AddElement
  <2> QED
    BY <1>7, <2>2
<1>9. IsFiniteSet(Since(m)') /\ Cardinality(Since(m)') \in Nat
  BY TrafficAssumption, FS_Subset, FS_CardinalityType DEF Since
<1>10. Cardinality(DOMAIN kept) <= Cardinality(Since(m)')
  BY <1>6, <1>8, <1>9, FS_Subset
<1>11. ~(Cardinality(DOMAIN kept) < MAX_VESSELS)
  BY DEF kept
<1> QED
  BY <1>7, <1>9, <1>10, <1>11, TrafficAssumption

(* A report of another vessel leaves one that stays in the table. *)
LEMMA OthersKeepPlaced ==
    ASSUME IInv, PlacedIsKept, NEW h \in Mmsis, NEW r \in Reports, Hear(h, r),
           NEW m \in Mmsis \ {h}, Stays(m)'
    PROVE  InTable(m)'
<1> DEFINE kept == Expire(vessels)
<1>1. TypeOK /\ Update(h, r) /\ IsTable(vessels) /\ IsTable(kept)
  BY ExpireKeeps DEF IInv, TypeOK, Hear
<1>2. /\ now' = now /\ placed'[m] = placed[m] /\ m \in About
      /\ placed[m] # Never /\ ~Lost(placed[m])
  BY HearChanges DEF Stays, Lost
<1>3. Cardinality(Since(m)) < MAX_VESSELS
  <2>1. \A n \in Mmsis : /\ heard'[n] = heard[n] \/ (heard'[n] = now /\ heard[n] <= now)
                         /\ placed[n] # Never => placed'[n] # Never
    BY HearChanges DEF IInv, InTime
  <2>2. now \in Nat /\ heard \in [Mmsis -> Instants] /\ placed[m] \in Instants
    BY DEF IInv, TypeOK
  <2>3. Since(m) \subseteq Since(m)'
    BY <1>2, <2>1, <2>2 DEF Since, Instants, Never
  <2>4. IsFiniteSet(Since(m)') /\ Cardinality(Since(m)') \in Nat
    BY TrafficAssumption, FS_Subset, FS_CardinalityType DEF Since
  <2>5. IsFiniteSet(Since(m)) /\ Cardinality(Since(m)) \in Nat
    BY TrafficAssumption, FS_Subset, FS_CardinalityType DEF Since
  <2>6. Cardinality(Since(m)) <= Cardinality(Since(m)')
    BY <2>3, <2>4, FS_Subset
  <2>7. Cardinality(Since(m)') < MAX_VESSELS
    BY DEF Stays
  <2> QED
    BY <2>4, <2>5, <2>6, <2>7, TrafficAssumption
<1>4. InTable(m)
  BY <1>2, <1>3, PlacedInTable DEF Stays
<1>5. Has(vessels, m) /\ Has(kept, m)
  BY <1>2, <1>4, KeptInTable DEF Has, InTable
<1>6. CASE vessels' = Takes(vessels, h, r)
  BY <1>1, <1>5, <1>6, TakenInTable
<1>7. CASE vessels' = Takes(kept, h, r)
  BY <1>1, <1>5, <1>7, TakenInTable
<1>8. ASSUME h \notin DOMAIN vessels, ~(Cardinality(DOMAIN kept) < MAX_VESSELS),
             NEW n \in LeastWorth(kept), kept[n].position = Never \/ r.position,
             vessels' = Takes(Without(kept, n), h, r)
      PROVE  InTable(m)'
  <2>1. n # m
    <3>1. Cardinality(Since(m)') < MAX_VESSELS
      BY DEF Stays
    <3>2. kept[m].position = placed[m]
      BY <1>2, <1>5 DEF Has
    <3>3. ASSUME n = m PROVE r.position
      BY <1>2, <1>8, <3>2, <3>3
    <3> QED
      BY <1>2, <1>8, <3>1, <3>2, <3>3, LeastHasManyAfter
  <2>2. n \in DOMAIN kept
    BY DEF LeastWorth
  <2> HIDE DEF kept
  <2>3. IsTable(Without(kept, n)) /\ Has(Without(kept, n), m)
    <3>1. /\ IsTable(Without(kept, n)) /\ DOMAIN Without(kept, n) = DOMAIN kept \ {n}
          /\ \A k \in DOMAIN Without(kept, n) : Without(kept, n)[k] = kept[k]
      BY <1>1, <2>2, WithoutOne
    <3> QED
      BY <1>5, <2>1, <3>1 DEF Has
  <2> QED
    BY <1>8, <2>3, TakenInTable
<1>9. CASE vessels' = kept
  BY <1>2, <1>5, <1>9 DEF Has, InTable, Lost
<1> QED
  BY <1>1, <1>6, <1>7, <1>8, <1>9, UpdateCases

(* A vessel's own report keeps it, or gives it a place. *)
LEMMA OwnKeepsPlaced ==
    ASSUME IInv, PlacedIsKept, NEW m \in Mmsis, NEW r \in Reports, Hear(m, r), Stays(m)'
    PROVE  InTable(m)'
<1> DEFINE kept == Expire(vessels)
<1>1. TypeOK /\ Update(m, r) /\ IsTable(vessels) /\ IsTable(kept)
  BY ExpireKeeps DEF IInv, TypeOK, Hear
<1>2. CASE r.position
  <2>1. CASE vessels' = Takes(vessels, m, r)
    BY <1>1, <1>2, <2>1, TakenInTable
  <2>2. CASE vessels' = Takes(kept, m, r)
    BY <1>1, <1>2, <2>2, TakenInTable
  <2>3. ASSUME NEW n \in LeastWorth(kept), vessels' = Takes(Without(kept, n), m, r)
        PROVE  InTable(m)'
    <3>1. n \in DOMAIN kept
      BY DEF LeastWorth
    <3> HIDE DEF kept
    <3>2. IsTable(Without(kept, n))
      BY <1>1, <3>1, WithoutOne
    <3> QED
      BY <1>2, <2>3, <3>2, TakenInTable
  <2>4. CASE /\ ~(Cardinality(DOMAIN kept) < MAX_VESSELS)
             /\ \A n \in LeastWorth(kept) : kept[n].position # Never /\ ~r.position
    <3> HIDE DEF kept
    <3>1. DOMAIN kept # {}
      BY <2>4, TrafficAssumption, FS_EmptySet
    <3> QED
      BY <1>1, <1>2, <2>4, <3>1, LeastOfMany
  <2> QED
    BY <1>1, <2>1, <2>2, <2>3, <2>4, UpdateCases
<1>3. CASE ~r.position
  <2>1. /\ now' = now /\ placed'[m] = placed[m]
        /\ \A n \in Mmsis \ {m} : heard'[n] = heard[n] /\ placed'[n] = placed[n]
        /\ placed[m] # Never /\ ~Lost(placed[m]) => m \in About
    BY <1>3, HearChanges
  <2>2. Since(m)' = Since(m)
    BY <2>1 DEF Since
  <2>3. Stays(m)
    BY <2>1, <2>2 DEF Stays, Lost
  <2>4. InTable(m)
    BY <2>3, PlacedInTable
  <2>5. vessels' = Takes(vessels, m, r)
    BY <1>1, <2>4 DEF Update, InTable
  <2> QED
    BY <1>1, <2>4, <2>5, TakenInTable DEF Has, InTable
<1> QED
  BY <1>2, <1>3

(* A vessel with a position stays while there is room for those heard since that have
   one too. *)
THEOREM PlacedKept == Spec => []PlacedIsKept
<1>1. Init => PlacedIsKept
  BY DEF Init, PlacedIsKept, About
<1>2. IInv /\ PlacedIsKept /\ [Next]_vars => PlacedIsKept'
  <2> SUFFICES ASSUME IInv, PlacedIsKept, [Next]_vars, NEW m \in Mmsis, Stays(m)'
               PROVE  InTable(m)'
    BY DEF PlacedIsKept, Stays, InTable, Since, About
  <2>1. ASSUME NEW h \in Mmsis, NEW r \in Reports, Hear(h, r) PROVE InTable(m)'
    BY <2>1, OthersKeepPlaced, OwnKeepsPlaced
  <2>2. ASSUME Tick \/ Advance \/ UNCHANGED vars PROVE InTable(m)'
    <3>1. m \in About'
      BY DEF Stays
    <3>2. /\ m \in About /\ heard' = heard /\ placed' = placed
          /\ ~Lost(placed[m])' => ~Lost(placed[m])
          /\ InTable(m) => InTable(m)'
      BY <2>2, <3>1, TimeKeeps
    <3>3. ~Lost(placed[m])'
      BY DEF Stays
    <3>4. Stays(m)
      BY <3>2, <3>3 DEF Stays, Since
    <3> QED
      BY <3>2, <3>4, PlacedInTable
  <2> QED
    BY <2>1, <2>2 DEF Next
<1> QED
  BY <1>1, <1>2, InvariantHolds, PTL DEF Spec
================================================================================
