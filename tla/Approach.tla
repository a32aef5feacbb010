-------------------------------- MODULE Approach --------------------------------
(***************************************************************************)
(* What apps are told of a vessel beside its particulars: Vessel::target,  *)
(* and the order of Traffic::targets, of src/targets.rs.                   *)
(*                                                                         *)
(* The plane is counted in whole steps and the world is Round steps about. *)
(* A heading is one of a table of directions, and the width of a step of   *)
(* longitude, the cosine of the latitude midway, is a table too, in steps  *)
(* of latitude.  Squares of distances are kept and not their roots, and a  *)
(* quotient is a pair.  Only rounding loses anything: a range is rounded   *)
(* to a number of Grains.                                                  *)
(***************************************************************************)
EXTENDS Integers, FiniteSets, Sequences

CONSTANTS
    Round,        \* steps of longitude about the world
    Width,        \* by the sum of two latitudes, the width of a step of longitude there
    Direction,    \* by heading, steps east and north at a speed of one
    Stopped,      \* a vessel slower than this may send no course: half a knot
    DANGER_CPA,   \* DANGER_CPA_NM
    DANGER_TCPA,  \* DANGER_TCPA_MIN
    LostAfter,    \* LOST_AFTER
    Grain         \* what a square of a distance is rounded to

ASSUME ApproachAssumption ==
    /\ Round \in Nat \ {0} /\ Round % 2 = 0
    /\ Grain \in Nat \ {0} /\ Stopped \in Nat /\ LostAfter \in Nat \ {0}
    /\ DANGER_CPA \in Nat /\ DANGER_TCPA \in Nat

Nowhere == <<>>      \* None
Just(x) == <<x>>

-----------------------------------------------------------------------------
(* offset: steps east, the short way about the world, and north. *)
Offset(from, to) ==
    LET dlon == ((to.lon - from.lon + 3 * (Round \div 2)) % Round) - Round \div 2
    IN [east |-> dlon * Width[from.lat + to.lat], north |-> to.lat - from.lat]

(* velocity: none without a speed, or without a course but when barely moving. *)
Velocity(v) ==
    IF v.sog = Nowhere THEN Nowhere
    ELSE IF v.cog # Nowhere
         THEN Just([east |-> v.sog[1] * Direction[v.cog[1]].east,
                    north |-> v.sog[1] * Direction[v.cog[1]].north])
    ELSE IF v.sog[1] < Stopped THEN Just([east |-> 0, north |-> 0])
    ELSE Nowhere

(* Where a vessel is by now, as it was going. *)
Ahead(at, moving, time) ==
    [east |-> at.east + moving.east * time, north |-> at.north + moving.north * time]

Minus(v, w) == [east |-> v.east - w.east, north |-> v.north - w.north]
Dot(v, w) == v.east * w.east + v.north * w.north
Square(v) == Dot(v, v)

(* Mutation: a vessel that moves away was closest in the past. *)
ClosestEver(at, relative) ==
    LET speed2 == Square(relative)
        time == IF speed2 = 0 THEN 0 ELSE -Dot(at, relative)
        per == IF speed2 = 0 THEN 1 ELSE speed2
        there == [east |-> at.east * per + relative.east * time,
                  north |-> at.north * per + relative.north * time]
    IN [time |-> time, per |-> per, square |-> Square(there)]

(* closest: the time, time / per, and the distance, whose square is square / per^2; a
   vessel that is past its closest, or keeps its distance, is closest now. *)
Closest(at, relative) ==
    LET speed2 == Square(relative)
        time == IF speed2 = 0 \/ Dot(at, relative) > 0 THEN 0 ELSE -Dot(at, relative)
        per == IF speed2 = 0 THEN 1 ELSE speed2
        there == [east |-> at.east * per + relative.east * time,
                  north |-> at.north * per + relative.north * time]
    IN [time |-> time, per |-> per, square |-> Square(there)]

Danger(c) ==
    /\ c.square <= DANGER_CPA * DANGER_CPA * c.per * c.per
    /\ c.time <= DANGER_TCPA * c.per

Rounded(square) == (square + Grain \div 2) \div Grain

(* Vessel::target, from the vessel's position on: its range, its closest approach and
   whether it is a danger, as far as they can be told. *)
Target(mmsi, position, now, own) ==
    LET none == [mmsi |-> mmsi, at |-> Nowhere, range |-> Nowhere, closest |-> Nowhere,
                 danger |-> FALSE]
        p == position[1]
        age == now - p.at
        seen == Offset(own[1], p)
        moving == Velocity(p)
        at == IF moving = Nowhere THEN seen ELSE Ahead(seen, moving[1], age)
        ours == Velocity(own[1])
        c == Closest(at, Minus(moving[1], ours[1]))
    IN IF position = Nowhere THEN none
       ELSE IF age >= LostAfter THEN none
       ELSE IF own = Nowhere THEN [none EXCEPT !.at = Just([lat |-> p.lat, lon |-> p.lon])]
       ELSE LET ranged == [none EXCEPT !.at = Just([lat |-> p.lat, lon |-> p.lon]),
                                       !.range = Just(Rounded(Square(at)))]
            IN IF moving = Nowhere \/ ours = Nowhere THEN ranged
               ELSE [ranged EXCEPT !.closest = Just(c), !.danger = Danger(c)]

(* Mutation: vessels at one range stay as the table had them. *)
BeforeByRange(a, b) ==
    a.range # Nowhere /\ (b.range = Nowhere \/ a.range[1] < b.range[1])

(* The order of a targets message. *)
Before(a, b) ==
    \/ a.range # Nowhere /\ b.range = Nowhere
    \/ a.range # Nowhere /\ b.range # Nowhere /\ a.range[1] < b.range[1]
    \/ a.range = b.range /\ a.mmsi < b.mmsi

(* sort_by, which is stable: a target goes after those before it, and after those in
   front of it in the table that it is not before. *)
Sorted(targets) ==
    LET place(i) == Cardinality({j \in DOMAIN targets :
                        \/ Before(targets[j], targets[i])
                        \/ j <= i /\ ~Before(targets[i], targets[j])})
    IN [n \in DOMAIN targets |-> targets[CHOOSE i \in DOMAIN targets : place(i) = n]]
================================================================================
