--------------------------- MODULE NavigationProofs ---------------------------
(***************************************************************************)
(* The freshness rules of Navigation, for every StaleAfter, every set of   *)
(* position sentences and a clock of any length.                           *)
(***************************************************************************)
EXTENDS NavigationHistory, TLAPS

(* The order of the instants a Navigation keeps: a part is no younger than the
   position beside it, the position no younger than the last sentence, and the
   last sentence no younger than the clock; and the newest position came with
   one of the two parts. *)
InOrder ==
    /\ nav.heard <= now
    /\ nav.at <= nav.heard
    /\ \A k \in Kinds : nav.part[k].at <= nav.at
    /\ nav.at # Never => \E k \in Kinds : nav.part[k].at = nav.at

IInv == TypeOK /\ InOrder

-----------------------------------------------------------------------------
(* What Navigation::update returns is a Navigation, with the instants in order
   when the ones before it were. *)
LEMMA UpdateInOrder ==
    ASSUME IInv, NEW p \in AnyPosition
    PROVE  LET n == Update(nav, p, now)
           IN /\ n \in Navigations
              /\ n.heard = now
              /\ n.at <= n.heard
              /\ \A k \in Kinds : n.part[k].at <= n.at
              /\ n.at # Never => \E k \in Kinds : n.part[k].at = n.at
<1> USE DEF IInv, TypeOK, InOrder, Navigations, Part, Instants, Never, AnyPosition, Kinds
<1>1. CASE ~p.valid
  <2> DEFINE n == [nav EXCEPT !.heard = now, !.lost = TRUE]
  <2>1. Update(nav, p, now) = n
    BY <1>1 DEF Update
  <2>2. n \in Navigations /\ n.heard = now /\ n.at = nav.at /\ n.part = nav.part
    OBVIOUS
  <2> QED
    BY <2>1, <2>2
<1>2. CASE p.valid /\ ~p.placed
  <2> DEFINE n == [nav EXCEPT !.heard = now]
  <2>1. Update(nav, p, now) = n
    BY <1>2 DEF Update
  <2>2. n \in Navigations /\ n.heard = now /\ n.at = nav.at /\ n.part = nav.part
    OBVIOUS
  <2> QED
    BY <2>1, <2>2
<1>3. CASE p.valid /\ p.placed
  <2> DEFINE own == [at |-> now, filled |-> p.filled]
             n == [nav EXCEPT !.heard = now, !.lost = FALSE, !.at = now, !.part[p.kind] = own]
  <2>1. Update(nav, p, now) = n
    BY <1>3 DEF Update
  <2>2. /\ own \in Part
        /\ own.at = now
    OBVIOUS
  <2>3. /\ n.heard = now
        /\ n.at = now
        /\ n.lost = FALSE
        /\ n.part = [nav.part EXCEPT ![p.kind] = own]
    OBVIOUS
  <2>4. n.part \in [Kinds -> Part]
    BY <2>2, <2>3
  <2>5. n \in Navigations
    BY <2>3, <2>4
  <2>6. \A k \in Kinds : n.part[k].at <= now
    BY <2>2, <2>3
  <2>7. n.part[p.kind].at = now
    BY <2>2, <2>3
  <2> QED
    BY <2>1, <2>3, <2>5, <2>6, <2>7
<1> QED
  BY <1>1, <1>2, <1>3

(* Init: nothing was heard. *)
LEMMA InitInv == Init => IInv
  BY DEF Init, IInv, TypeOK, InOrder, NoNavigation, NoPart, Navigations, Part, Instants, Never,
         Kinds

(* The next step, one case for each action. *)
LEMMA NextInv == IInv /\ [Next]_vars => IInv'
<1> SUFFICES ASSUME IInv, [Next]_vars PROVE IInv'
  OBVIOUS
<1>1. CASE Advance
  BY <1>1 DEF Advance, IInv, TypeOK, InOrder, Navigations, Instants, Never
<1>2. ASSUME NEW p \in Positions, Hear(p) PROVE IInv'
  <2>1. p \in AnyPosition
    BY PositionsAssumption
  <2>2. nav' = Update(nav, p, now) /\ now' = now
    BY <1>2 DEF Hear
  <2> QED
    BY <2>1, <2>2, UpdateInOrder DEF IInv, TypeOK, InOrder
<1>3. CASE UNCHANGED vars
  BY <1>3 DEF vars, IInv, TypeOK, InOrder
<1> QED
  BY <1>1, <1>2, <1>3 DEF Next

(* The instants a Navigation keeps stay in the order the judgement of the fix
   relies on. *)
THEOREM InvariantHolds == Spec => []IInv
  BY InitInv, NextInv, PTL DEF Spec

(* Type correctness of the fix and its clock. *)
THEOREM TypeCorrect == Spec => []TypeOK
<1>1. IInv => TypeOK
  BY DEF IInv
<1> QED
  BY <1>1, InvariantHolds, PTL

-----------------------------------------------------------------------------
(* A receiver is lost by its last sentence, which no position is younger than. *)
LEMMA LostFromOrder == IInv => LostIsNeverOk
<1> SUFFICES ASSUME IInv, nav.lost, nav.at # Never, ~Talking(nav, now)
             PROVE  now - nav.at >= StaleAfter
  BY DEF LostIsNeverOk, Fix, State, Status
<1> QED
  BY StaleAfterAssumption
     DEF IInv, TypeOK, InOrder, Navigations, Instants, Never, Talking, Recent

(* The status says nofix only of one that talks. *)
LEMMA NofixFromStatus == IInv => NofixIsFresh
  BY DEF NofixIsFresh, Fix, State, Status, Talking, Recent

(* Which instant a part of the fix shows. *)
LEMMA PartShownRange ==
    ASSUME IInv, NEW k \in Kinds, PartShown(nav, k) # Never
    PROVE  /\ PartShown(nav, k) = nav.part[k].at
           /\ PartShown(nav, k) \in Nat
           /\ nav.at \in Nat
           /\ PartShown(nav, k) <= nav.at
           /\ nav.at - PartShown(nav, k) < StaleAfter
  BY StaleAfterAssumption
     DEF IInv, TypeOK, InOrder, Navigations, Part, Instants, Never, PartShown, Recent

(* A part is dropped when it is StaleAfter older than the position, which is itself younger than that in an ok fix. *)
LEMMA PartsFromOrder == IInv => PartsBounded
<1> SUFFICES ASSUME IInv, Fix.status = "ok", NEW i \in {Fix.sog, Fix.satellites} \ {Never}
             PROVE  now - i < 2 * StaleAfter
  BY DEF PartsBounded
<1>1. PICK k \in Kinds : i = PartShown(nav, k) /\ nav.at # Never
  BY DEF Fix, State, Kinds
<1>2. now - nav.at < StaleAfter
  BY <1>1, StaleAfterAssumption
     DEF Fix, State, Status, IInv, TypeOK, Navigations, Instants, Never
<1>3. i \in Nat /\ nav.at \in Nat /\ nav.at - i < StaleAfter
  BY <1>1, PartShownRange
<1> QED
  BY <1>2, <1>3, StaleAfterAssumption DEF IInv, TypeOK

(* Of the two parts one is as young as the position. *)
LEMMA TogetherFromOrder == IInv => PartsTogether
<1> SUFFICES ASSUME IInv, Fix.sog # Never, Fix.satellites # Never
             PROVE  /\ Fix.sog - Fix.satellites < StaleAfter
                    /\ Fix.satellites - Fix.sog < StaleAfter
  BY DEF PartsTogether
<1>1. Fix.sog = PartShown(nav, "rmc") /\ Fix.satellites = PartShown(nav, "gga")
  BY DEF Fix, State
<1>2. "rmc" \in Kinds /\ "gga" \in Kinds
  BY DEF Kinds
<1>3. \A k \in Kinds : /\ PartShown(nav, k) = nav.part[k].at
                       /\ PartShown(nav, k) \in Nat
                       /\ nav.at \in Nat
                       /\ PartShown(nav, k) <= nav.at
                       /\ nav.at - PartShown(nav, k) < StaleAfter
  BY <1>1, PartShownRange DEF Kinds
<1>4. Fix.sog = nav.at \/ Fix.satellites = nav.at
  BY <1>1, <1>3 DEF IInv, InOrder, Never, Kinds
<1> QED
  BY <1>1, <1>2, <1>3, <1>4, StaleAfterAssumption

(* A receiver that has said it has no fix is never shown as having one. *)
THEOREM LostNeverOk == Spec => []LostIsNeverOk
  BY LostFromOrder, InvariantHolds, PTL

(* nofix is only said of a receiver heard in the last StaleAfter. *)
THEOREM NofixFresh == Spec => []NofixIsFresh
  BY NofixFromStatus, InvariantHolds, PTL

(* A speed or satellite count in an ok fix is less than twice StaleAfter old. *)
THEOREM PartsStayBounded == Spec => []PartsBounded
  BY PartsFromOrder, InvariantHolds, PTL

(* Speed and satellites shown together were heard less than StaleAfter apart. *)
THEOREM PartsStayTogether == Spec => []PartsTogether
  BY TogetherFromOrder, InvariantHolds, PTL

-----------------------------------------------------------------------------
(* No step but hearing a whole valid position makes a fix ok: from the
   instants in order, since a fix that was not ok is old, was never there, or
   was denied, and time and the other sentences mend none of these. *)
LEMMA StepMakesOk ==
    IInv /\ [Next]_vars =>
        [Fix.status # "ok" /\ Fix'.status = "ok" => nav'.at = now' /\ ~nav'.lost]_vars
<1> SUFFICES ASSUME IInv, Next, Fix.status # "ok", Fix'.status = "ok"
             PROVE  nav'.at = now' /\ ~nav'.lost
  OBVIOUS
<1> USE DEF Never, Instants, Navigations
<1>0. StaleAfter \in Nat \ {0} /\ nav \in Navigations /\ now \in Nat
  BY StaleAfterAssumption DEF IInv, TypeOK
<1>1. CASE Advance
  <2>1. nav' = nav /\ now' = now + 1
    BY <1>1 DEF Advance
  <2>2. Status(nav, now + 1) = "ok" /\ Status(nav, now) # "ok"
    BY <2>1 DEF Fix, State
  <2>3. nav.at # Never /\ now + 1 - nav.at < StaleAfter
    BY <2>2, <1>0 DEF Status, Navigations
  <2>4. now - nav.at < StaleAfter
    BY <2>3, <1>0 DEF Navigations
  <2>5. nav.lost /\ Talking(nav, now)
    BY <2>2, <2>3, <2>4, <1>0 DEF Status, Navigations
  <2>6. Talking(nav, now + 1)
    BY <2>3, <1>0 DEF IInv, InOrder, Talking, Recent, Navigations
  <2> QED
    BY <2>2, <2>3, <2>5, <2>6 DEF Status
<1>2. ASSUME NEW p \in Positions, Hear(p) PROVE nav'.at = now' /\ ~nav'.lost
  <2>1. nav' = Update(nav, p, now) /\ now' = now /\ p \in AnyPosition
    BY <1>2, PositionsAssumption DEF Hear
  <2>2. Status(nav', now) = "ok" /\ Status(nav, now) # "ok"
    BY <2>1 DEF Fix, State
  <2>3. nav'.heard = now
    BY <2>1, <1>0 DEF Update, Navigations
  <2>4. Talking(nav', now)
    BY <2>3, <1>0 DEF Talking, Recent
  <2>5. nav'.at # Never /\ ~nav'.lost /\ now - nav'.at < StaleAfter
    <3>1. nav' \in Navigations
      BY <2>1, UpdateInOrder
    <3> QED
      BY <2>2, <2>4, <3>1, <1>0 DEF Status, Navigations
  <2>6. CASE ~p.valid
    BY <2>1, <2>5, <2>6, <1>0 DEF Update, Navigations
  <2>7. CASE p.valid /\ ~p.placed
    <3>1. nav'.at = nav.at /\ nav'.lost = nav.lost
      BY <2>1, <2>7, <1>0 DEF Update, Navigations
    <3> QED
      BY <3>1, <2>2, <2>5, <1>0 DEF Status, Navigations
  <2>8. CASE p.valid /\ p.placed
    BY <2>1, <2>8, <1>0 DEF Update, Navigations
  <2> QED
    BY <2>6, <2>7, <2>8
<1> QED
  BY <1>1, <1>2 DEF Next

(* Neither time nor any sentence but a whole valid position brings a fix back
   to ok. *)
THEOREM OkTakesAPosition == Spec => OnlyAPositionMakesOk
  BY InvariantHolds, StepMakesOk, PTL DEF Spec, OnlyAPositionMakesOk

-----------------------------------------------------------------------------
(* What is in the history, and the places in it of what each part of the fix is
   read from. *)
Heard == [said: AnyPosition, at: Nat]
PlacedAt == {i \in DOMAIN log : Placed(log[i])}
VoidAt == {i \in DOMAIN log : Void(log[i])}
OwnAt(k) == {i \in DOMAIN log : Placed(log[i]) /\ log[i].said.kind = k}
Newest(S) == IF S = {} THEN 0 ELSE Max(S)

(* The struct is a summary of the history: each instant in it, and the flag, is what
   the newest sentence of one sort says. *)
Summary ==
    /\ log \in Seq(Heard)
    /\ nav.heard = AtWhere(Len(log))
    /\ Newest(PlacedAt) \in PlacedAt \cup {0}
    /\ Newest(VoidAt) \in VoidAt \cup {0}
    /\ nav.at = AtWhere(Newest(PlacedAt))
    /\ nav.lost <=> Newest(VoidAt) > Newest(PlacedAt)
    /\ \A k \in Kinds :
        /\ Newest(OwnAt(k)) \in OwnAt(k) \cup {0}
        /\ nav.part[k] = IF Newest(OwnAt(k)) = 0 THEN NoPart
                         ELSE [at |-> log[Newest(OwnAt(k))].at,
                               filled |-> log[Newest(OwnAt(k))].said.filled]

HInv == IInv /\ Summary

(* The history's readings, by those places. *)
LEMMA ReadAtPlaces ==
    /\ LastWhere(Placed) = Newest(PlacedAt)
    /\ LastWhere(Void) = Newest(VoidAt)
    /\ \A k : LastWhere(LAMBDA e : Placed(e) /\ e.said.kind = k) = Newest(OwnAt(k))
BY DEF LastWhere, Where, Newest, PlacedAt, VoidAt, OwnAt

(* What came last is newest. *)
LEMMA LastIsNewest ==
    ASSUME NEW n \in Nat, NEW S \in SUBSET (1..n)
    PROVE  Newest(S \cup {n + 1}) = n + 1
<1> DEFINE T == S \cup {n + 1}
<1>1. n + 1 \in T /\ T \subseteq 1..(n + 1) /\ T # {}
  OBVIOUS
<1>2. \A x, y \in T : x \in Nat /\ y <= n + 1
  BY <1>1
<1>3. PICK m \in T : m = Max(T) /\ \A y \in T : m >= y
  <2>1. \E x \in T : \A y \in T : x >= y
    BY <1>1, <1>2
  <2> HIDE DEF T
  <2> QED
    BY <2>1 DEF Max
<1>4. m = n + 1
  BY <1>1, <1>2, <1>3
<1> HIDE DEF T
<1> QED
  BY <1>1, <1>3, <1>4 DEF Newest, T

(* A sentence more in the history: the newest of those like it, and the newest of the
   others is the one that was. *)
LEMMA OneMoreHeard ==
    ASSUME log \in Seq(Heard), NEW e \in Heard, log' = Append(log, e)
    PROVE  LET n == Len(log) + 1
           IN /\ n \in Nat /\ Len(log') = n /\ log'[n] = e
              /\ \A i \in DOMAIN log : i \in 1..Len(log) /\ log'[i] = log[i]
              /\ log' \in Seq(Heard)
              /\ PlacedAt' = IF Placed(e) THEN PlacedAt \cup {n} ELSE PlacedAt
              /\ VoidAt' = IF Void(e) THEN VoidAt \cup {n} ELSE VoidAt
              /\ \A k \in Kinds :
                    OwnAt(k)' = IF Placed(e) /\ e.said.kind = k THEN OwnAt(k) \cup {n}
                                ELSE OwnAt(k)
<1> DEFINE n == Len(log) + 1
<1>1. /\ n \in Nat /\ Len(log') = n /\ log'[n] = e /\ log' \in Seq(Heard)
      /\ DOMAIN log' = DOMAIN log \cup {n} /\ n \notin DOMAIN log
      /\ \A i \in DOMAIN log : i \in 1..Len(log) /\ log'[i] = log[i]
  OBVIOUS
<1> HIDE DEF n
<1>2. PlacedAt' = IF Placed(e) THEN PlacedAt \cup {n} ELSE PlacedAt
  BY <1>1 DEF PlacedAt, Placed
<1>3. VoidAt' = IF Void(e) THEN VoidAt \cup {n} ELSE VoidAt
  BY <1>1 DEF VoidAt, Void
<1>4. ASSUME NEW k \in Kinds
      PROVE  OwnAt(k)' = IF Placed(e) /\ e.said.kind = k THEN OwnAt(k) \cup {n} ELSE OwnAt(k)
  BY <1>1 DEF OwnAt, Placed
<1> QED
  BY <1>1, <1>2, <1>3, <1>4 DEF n

(* Init: nothing was heard, and the history is empty. *)
LEMMA HInitInv == HInit => HInv
<1> SUFFICES ASSUME HInit PROVE HInv
  OBVIOUS
<1>1. IInv /\ log = <<>> /\ nav = NoNavigation
  BY InitInv DEF HInit, Init
<1>2. PlacedAt = {} /\ VoidAt = {} /\ \A k \in Kinds : OwnAt(k) = {}
  BY <1>1 DEF PlacedAt, VoidAt, OwnAt
<1>3. Len(log) = 0 /\ log \in Seq(Heard)
  BY <1>1
<1> QED
  BY <1>1, <1>2, <1>3 DEF HInv, Summary, Newest, AtWhere, NoNavigation

(* A sentence heard is summed up by Navigation::update as it is written down. *)
LEMMA HearSummedUp == ASSUME HInv, NEW p \in Positions, HHear(p) PROVE Summary'
<1> DEFINE e == [said |-> p, at |-> now]
           n == Len(log) + 1
<1>1. /\ p \in AnyPosition /\ now \in Nat /\ nav \in Navigations /\ log \in Seq(Heard)
      /\ log' = Append(log, e) /\ nav' = Update(nav, p, now)
  BY PositionsAssumption DEF HInv, IInv, TypeOK, Summary, HHear, Hear
<1>2. e \in Heard /\ e.at = now /\ e.said = p
  BY <1>1 DEF Heard
<1> HIDE DEF e
<1>3. /\ n \in Nat /\ Len(log') = n /\ log'[n] = e
      /\ \A i \in DOMAIN log : i \in 1..Len(log) /\ log'[i] = log[i]
      /\ log' \in Seq(Heard)
      /\ PlacedAt' = IF Placed(e) THEN PlacedAt \cup {n} ELSE PlacedAt
      /\ VoidAt' = IF Void(e) THEN VoidAt \cup {n} ELSE VoidAt
      /\ \A k \in Kinds :
            OwnAt(k)' = IF Placed(e) /\ e.said.kind = k THEN OwnAt(k) \cup {n} ELSE OwnAt(k)
  BY <1>1, <1>2, OneMoreHeard
<1>4. /\ PlacedAt \in SUBSET (1..Len(log)) /\ VoidAt \in SUBSET (1..Len(log))
      /\ \A k \in Kinds : OwnAt(k) \in SUBSET (1..Len(log))
  BY <1>1 DEF PlacedAt, VoidAt, OwnAt
<1>5. /\ Len(log) \in Nat
      /\ Newest(PlacedAt \cup {n}) = n /\ Newest(VoidAt \cup {n}) = n
      /\ \A k \in Kinds : Newest(OwnAt(k) \cup {n}) = n
  <2>1. Len(log) \in Nat
    BY <1>1
  <2> QED
    BY <1>4, <2>1, LastIsNewest
<1>6. /\ Newest(PlacedAt) \in PlacedAt \cup {0} /\ Newest(VoidAt) \in VoidAt \cup {0}
      /\ nav.at = AtWhere(Newest(PlacedAt))
      /\ nav.lost <=> Newest(VoidAt) > Newest(PlacedAt)
  BY DEF HInv, Summary
<1>7. ASSUME NEW k \in Kinds
      PROVE  /\ Newest(OwnAt(k)) \in OwnAt(k) \cup {0}
             /\ nav.part[k] = IF Newest(OwnAt(k)) = 0 THEN NoPart
                              ELSE [at |-> log[Newest(OwnAt(k))].at,
                                    filled |-> log[Newest(OwnAt(k))].said.filled]
  BY DEF HInv, Summary
<1>8. /\ Newest(PlacedAt)' = IF Placed(e) THEN n ELSE Newest(PlacedAt)
      /\ Newest(VoidAt)' = IF Void(e) THEN n ELSE Newest(VoidAt)
      /\ \A k \in Kinds : Newest(OwnAt(k))' = IF Placed(e) /\ e.said.kind = k THEN n
                                              ELSE Newest(OwnAt(k))
  <2>1. Newest(PlacedAt)' = IF Placed(e) THEN n ELSE Newest(PlacedAt)
    BY <1>3, <1>5 DEF Newest
  <2>2. Newest(VoidAt)' = IF Void(e) THEN n ELSE Newest(VoidAt)
    BY <1>3, <1>5 DEF Newest
  <2>3. ASSUME NEW k \in Kinds
        PROVE  Newest(OwnAt(k))' = IF Placed(e) /\ e.said.kind = k THEN n ELSE Newest(OwnAt(k))
    BY <1>3, <1>5 DEF Newest
  <2> QED
    BY <2>1, <2>2, <2>3
<1>9. /\ nav'.heard = now
      /\ nav'.at = IF Placed(e) THEN now ELSE nav.at
      /\ nav'.lost = IF Void(e) THEN TRUE ELSE IF Placed(e) THEN FALSE ELSE nav.lost
      /\ \A k \in Kinds :
            nav'.part[k] = IF Placed(e) /\ e.said.kind = k
                           THEN [at |-> now, filled |-> p.filled] ELSE nav.part[k]
  <2> USE DEF Placed, Void, Navigations
  <2>1. CASE ~p.valid
    BY <1>1, <1>2, <2>1 DEF Update
  <2>2. CASE p.valid /\ ~p.placed
    BY <1>1, <1>2, <2>2 DEF Update
  <2>3. CASE p.valid /\ p.placed
    BY <1>1, <1>2, <2>3 DEF Update
  <2> QED
    BY <1>1, <2>1, <2>2, <2>3 DEF AnyPosition
<1>10. ASSUME NEW i \in DOMAIN log PROVE i # 0 /\ log'[i] = log[i]
  BY <1>3
<1>11. nav'.heard = AtWhere(Len(log))'
  BY <1>2, <1>3, <1>5, <1>9 DEF AtWhere
<1>12. /\ Newest(PlacedAt)' \in PlacedAt' \cup {0} /\ Newest(VoidAt)' \in VoidAt' \cup {0}
       /\ \A k \in Kinds : Newest(OwnAt(k))' \in OwnAt(k)' \cup {0}
  <2>1. Newest(PlacedAt)' \in PlacedAt' \cup {0}
    BY <1>3, <1>6, <1>8
  <2>2. Newest(VoidAt)' \in VoidAt' \cup {0}
    BY <1>3, <1>6, <1>8
  <2>3. ASSUME NEW k \in Kinds PROVE Newest(OwnAt(k))' \in OwnAt(k)' \cup {0}
    BY <1>3, <1>7, <1>8
  <2> QED
    BY <2>1, <2>2, <2>3
<1>13. nav'.at = AtWhere(Newest(PlacedAt))'
  <2>1. CASE Placed(e)
    BY <2>1, <1>2, <1>3, <1>5, <1>8, <1>9 DEF AtWhere
  <2>2. CASE ~Placed(e)
    <3>1. Newest(PlacedAt) = 0 \/ Newest(PlacedAt) \in DOMAIN log
      BY <1>6 DEF PlacedAt
    <3> QED
      BY <2>2, <3>1, <1>6, <1>8, <1>9, <1>10 DEF AtWhere
  <2> QED
    BY <2>1, <2>2
<1>14. nav'.lost <=> Newest(VoidAt)' > Newest(PlacedAt)'
  <2>1. Newest(VoidAt) \in 0..Len(log) /\ Newest(PlacedAt) \in 0..Len(log)
    <3> DEFINE v == Newest(VoidAt)
               q == Newest(PlacedAt)
               l == Len(log)
    <3>1. (v \in VoidAt \/ v = 0) /\ (q \in PlacedAt \/ q = 0)
      BY <1>6
    <3>2. (v \in 1..l \/ v = 0) /\ (q \in 1..l \/ q = 0) /\ l \in Nat
      BY <3>1, <1>4, <1>5
    <3> HIDE DEF v, q, l
    <3>3. v \in 0..l /\ q \in 0..l
      BY <3>2
    <3> QED
      BY <3>3 DEF v, q, l
  <2>2. ~(Void(e) /\ Placed(e))
    BY DEF Void, Placed
  <2> HIDE DEF n
  <2>3. n \in Nat /\ n > Newest(VoidAt) /\ n > Newest(PlacedAt)
    BY <2>1, <1>5 DEF n
  <2> QED
    BY <2>1, <2>2, <2>3, <1>6, <1>8, <1>9
<1>15. ASSUME NEW k \in Kinds
       PROVE  nav'.part[k] = IF Newest(OwnAt(k))' = 0 THEN NoPart
                             ELSE [at |-> log'[Newest(OwnAt(k))'].at,
                                   filled |-> log'[Newest(OwnAt(k))'].said.filled]
  <2>1. CASE Placed(e) /\ e.said.kind = k
    BY <2>1, <1>2, <1>3, <1>5, <1>8, <1>9
  <2>2. CASE ~(Placed(e) /\ e.said.kind = k)
    <3> DEFINE own == Newest(OwnAt(k))
    <3>1. own = 0 \/ own \in DOMAIN log
      BY <1>7 DEF OwnAt
    <3>2. nav'.part[k] = nav.part[k] /\ Newest(OwnAt(k))' = own
      BY <2>2, <1>8, <1>9
    <3>3. nav.part[k] = IF own = 0 THEN NoPart
                        ELSE [at |-> log[own].at, filled |-> log[own].said.filled]
      BY <1>7
    <3>4. own # 0 => log'[own] = log[own]
      BY <3>1, <1>10
    <3> HIDE DEF own
    <3>5. nav'.part[k] = IF own = 0 THEN NoPart
                         ELSE [at |-> log'[own].at, filled |-> log'[own].said.filled]
      BY <3>2, <3>3, <3>4
    <3> QED
      BY <3>2, <3>5
  <2> QED
    BY <2>1, <2>2
<1> QED
  BY <1>3, <1>11, <1>12, <1>13, <1>14, <1>15 DEF Summary

(* The next step, one case for each action. *)
LEMMA HNextInv == HInv /\ [HNext]_<<vars, log>> => HInv'
<1> SUFFICES ASSUME HInv, [HNext]_<<vars, log>> PROVE HInv'
  OBVIOUS
<1>1. [Next]_vars
  BY DEF HNext, HAdvance, HHear, Next, vars
<1>2. IInv'
  BY <1>1, NextInv DEF HInv
<1>3. CASE HAdvance \/ UNCHANGED <<vars, log>>
  <2>1. UNCHANGED <<nav, log>>
    BY <1>3 DEF HAdvance, Advance, vars
  <2> QED
    <3>1. PlacedAt' = PlacedAt /\ VoidAt' = VoidAt /\ \A k : OwnAt(k)' = OwnAt(k)
      BY <2>1 DEF PlacedAt, VoidAt, OwnAt
    <3>2. \A n : AtWhere(n)' = AtWhere(n)
      BY <2>1 DEF AtWhere
    <3>3. Summary'
      BY <2>1, <3>1, <3>2 DEF HInv, Summary
    <3> QED
      BY <1>2, <3>3 DEF HInv
<1>4. ASSUME NEW p \in Positions, HHear(p) PROVE HInv'
  BY <1>2, <1>4, HearSummedUp DEF HInv
<1> QED
  BY <1>3, <1>4 DEF HNext

(* The part that a fix shows is the one read off the history. *)
LEMMA PartAsRead ==
    ASSUME HInv, NEW k \in Kinds
    PROVE  ReadPart(k) = IF nav.at = Never THEN Never ELSE PartShown(nav, k)
<1> DEFINE last == Newest(PlacedAt)
           own == Newest(OwnAt(k))
<1>1. ReadPart(k) = IF own # 0 /\ log[own].said.filled /\ log[last].at - log[own].at < StaleAfter
                    THEN log[own].at ELSE Never
  BY ReadAtPlaces DEF ReadPart
<1>2. /\ log \in Seq(Heard)
      /\ last \in PlacedAt \cup {0} /\ own \in OwnAt(k) \cup {0}
      /\ nav.at = AtWhere(last)
      /\ nav.part[k] = IF own = 0 THEN NoPart
                       ELSE [at |-> log[own].at, filled |-> log[own].said.filled]
  BY DEF HInv, Summary
<1>3. nav.part[k].at <= nav.at
  BY DEF HInv, IInv, InOrder
<1>4. last = 0 \/ last \in DOMAIN log
  BY <1>2 DEF PlacedAt
<1>5. own = 0 \/ own \in DOMAIN log
  BY <1>2 DEF OwnAt
<1>6. ASSUME NEW i \in DOMAIN log
      PROVE  i # 0 /\ log[i].at \in Nat /\ log[i].said.filled \in BOOLEAN
  <2>1. i \in 1..Len(log) /\ log[i] \in Heard
    BY <1>2
  <2> QED
    BY <2>1 DEF Heard, AnyPosition
<1> HIDE DEF last, own
<1>7. CASE own = 0
  BY <1>1, <1>2, <1>7 DEF PartShown, NoPart, Recent
<1>8. CASE own \in DOMAIN log
  <2>1. nav.part[k].at = log[own].at /\ nav.part[k].filled = log[own].said.filled
    BY <1>2, <1>6, <1>8
  <2>2. last # 0 /\ nav.at = log[last].at
    BY <1>2, <1>3, <1>4, <1>6, <1>8, <2>1 DEF AtWhere, Never
  <2>3. nav.at \in Nat /\ log[own].at \in Nat /\ own # 0
    BY <2>2, <1>4, <1>6, <1>8
  <2> QED
    BY <1>1, <2>1, <2>2, <2>3 DEF PartShown, Recent, Never
<1> QED
  BY <1>5, <1>7, <1>8

(* The status of the fix is the one read off the history. *)
LEMMA StatusAsRead == HInv => Fix.status = ReadFix.status
<1> SUFFICES ASSUME HInv PROVE Fix.status = ReadFix.status
  OBVIOUS
<1> DEFINE place == Newest(PlacedAt)
           void == Newest(VoidAt)
           silent == log = <<>> \/ now - log[Len(log)].at >= StaleAfter
           denied == void > place
<1>1. ReadFix.status = IF place = 0 THEN IF silent THEN "none" ELSE "nofix"
                       ELSE IF denied /\ ~silent THEN "nofix"
                       ELSE IF now - log[place].at >= StaleAfter THEN "stale" ELSE "ok"
  BY ReadAtPlaces DEF ReadFix
<1>2. /\ log \in Seq(Heard) /\ now \in Nat
      /\ nav.heard = AtWhere(Len(log))
      /\ place \in PlacedAt \cup {0}
      /\ nav.at = AtWhere(place)
      /\ nav.lost <=> denied
  BY DEF HInv, Summary, IInv, TypeOK
<1>3. place = 0 \/ place \in DOMAIN log
  BY <1>2 DEF PlacedAt
<1>4. ASSUME NEW i \in DOMAIN log PROVE i # 0 /\ log[i].at \in Nat
  <2>1. i \in 1..Len(log) /\ log[i] \in Heard
    BY <1>2
  <2> QED
    BY <2>1 DEF Heard
<1>5. Talking(nav, now) <=> ~silent
  <2>1. CASE log = <<>>
    BY <1>2, <2>1 DEF AtWhere, Talking, Recent
  <2>2. CASE log # <<>>
    <3>1. Len(log) \in DOMAIN log /\ Len(log) # 0
      BY <1>2, <2>2
    <3>2. nav.heard = log[Len(log)].at /\ nav.heard \in Nat
      BY <1>2, <1>4, <3>1 DEF AtWhere
    <3> QED
      BY <1>2, <2>2, <3>2, StaleAfterAssumption DEF Talking, Recent, Never
  <2> QED
    BY <2>1, <2>2
<1>6. nav.at = IF place = 0 THEN Never ELSE log[place].at
  BY <1>2 DEF AtWhere
<1>7. nav.at = Never <=> place = 0
  BY <1>3, <1>4, <1>6 DEF Never
<1>8. Fix.status = Status(nav, now)
  BY DEF Fix, State
<1> HIDE DEF silent, denied, place
<1> QED
  BY <1>1, <1>2, <1>5, <1>6, <1>7, <1>8 DEF Status

(* So the fix is the one the history gives. *)
LEMMA FixFromSummary == HInv => FixTellsHistory
<1> SUFFICES ASSUME HInv PROVE Fix = ReadFix
  BY DEF FixTellsHistory
<1>1. "rmc" \in Kinds /\ "gga" \in Kinds
  BY DEF Kinds
<1>2. /\ Fix.status = ReadFix.status
      /\ nav.at = AtWhere(LastWhere(Placed))
      /\ ReadPart("rmc") = IF nav.at = Never THEN Never ELSE PartShown(nav, "rmc")
      /\ ReadPart("gga") = IF nav.at = Never THEN Never ELSE PartShown(nav, "gga")
  BY <1>1, StatusAsRead, PartAsRead, ReadAtPlaces DEF HInv, Summary
<1> QED
  BY <1>2 DEF Fix, State, ReadFix

(* At every instant the fix sent is the one a reader of everything heard would give,
   however long the history and in whatever order its sentences came. *)
THEOREM HistoryIsTold == HSpec => []FixTellsHistory
  BY HInitInv, HNextInv, FixFromSummary, PTL DEF HSpec
=============================================================================
