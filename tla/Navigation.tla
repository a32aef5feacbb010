------------------------------ MODULE Navigation ------------------------------
(***************************************************************************)
(* The boat's fix as omakeel knows it, and how fresh it is: src/fix.rs.    *)
(*                                                                         *)
(* Time is a count of units; `now` is Instant::now().  A position, a       *)
(* speed or a satellite count is named by the instant its sentence         *)
(* arrived, which is what the freshness rules and the properties tell      *)
(* apart; the numbers themselves are left out.                             *)
(***************************************************************************)
EXTENDS Integers

CONSTANTS
    StaleAfter,  \* STALE_AFTER: a fix this old is stale
    Positions,   \* the position sentences that may arrive
    Horizon      \* bound: behaviours are followed up to this instant

VARIABLES
    now,         \* the clock
    nav          \* the Navigation struct

vars == <<now, nav>>

-----------------------------------------------------------------------------
Never == -1                       \* None, of an Option<Instant>
Instants == Nat \cup {Never}

Kinds == {"rmc", "gga"}

(* What nmea::position reads off an RMC or GGA sentence: whether the receiver
   claims a fix, whether both coordinates could be read, and whether the
   sentence's own fields (speed, course, time; or satellites, HDOP) are filled
   in. *)
AnyPosition == [kind: Kinds, valid: BOOLEAN, placed: BOOLEAN, filled: BOOLEAN]

ASSUME StaleAfterAssumption == StaleAfter \in Nat \ {0}
ASSUME PositionsAssumption == Positions \subseteq AnyPosition
ASSUME HorizonAssumption == Horizon \in Nat

(* The Rmc and Gga structs; one that is None has at = Never. *)
Part == [at: Instants, filled: BOOLEAN]
NoPart == [at |-> Never, filled |-> FALSE]

(* `at` is stored.at: Never while nothing is stored. *)
Navigations == [heard: Instants, lost: BOOLEAN, at: Instants, part: [Kinds -> Part]]
NoNavigation ==
    [heard |-> Never, lost |-> FALSE, at |-> Never, part |-> [k \in Kinds |-> NoPart]]

-----------------------------------------------------------------------------
(* Mutation: an empty field leaves the part heard before it. *)
UpdateKeepsPart(n, p, t) ==
    CASE ~p.valid -> [n EXCEPT !.heard = t, !.lost = TRUE]
      [] p.valid /\ ~p.placed -> [n EXCEPT !.heard = t]
      [] p.valid /\ p.placed ->
            [n EXCEPT !.heard = t, !.lost = FALSE, !.at = t,
                      !.part[p.kind] = IF p.filled THEN [at |-> t, filled |-> TRUE] ELSE @]

(* Navigation::update. *)
Update(n, p, t) ==
    CASE ~p.valid -> [n EXCEPT !.heard = t, !.lost = TRUE]
      [] p.valid /\ ~p.placed -> [n EXCEPT !.heard = t]
      [] p.valid /\ p.placed ->
            [n EXCEPT !.heard = t, !.lost = FALSE, !.at = t,
                      !.part[p.kind] = [at |-> t, filled |-> p.filled]]

(* An instant less than StaleAfter before t. *)
Recent(i, t) == i # Never /\ t - i < StaleAfter

(* Mutation: a part is carried along however old it is. *)
PartAnyAge(n, k) == IF n.part[k].filled THEN n.part[k].at ELSE Never

(* When the fields a Place takes from sentence k arrived: Never when the
   sentence left them empty or is too old beside the newest position. *)
PartShown(n, k) ==
    IF Recent(n.part[k].at, n.at) /\ n.part[k].filled THEN n.part[k].at ELSE Never

Talking(n, t) == Recent(n.heard, t)

(* Mutation: the age is judged before `lost`. *)
StatusLostLast(n, t) ==
    CASE n.at = Never -> IF Talking(n, t) THEN "nofix" ELSE "none"
      [] n.at # Never /\ Recent(n.at, t) -> "ok"
      [] n.at # Never /\ ~Recent(n.at, t) -> IF n.lost /\ Talking(n, t) THEN "nofix" ELSE "stale"

(* The status Navigation::state gives the fix at instant t. *)
Status(n, t) ==
    CASE n.at = Never /\ Talking(n, t) -> "nofix"
      [] n.at = Never /\ ~Talking(n, t) -> "none"
      [] n.at # Never /\ n.lost /\ Talking(n, t) -> "nofix"
      [] n.at # Never /\ ~(n.lost /\ Talking(n, t)) ->
            IF t - n.at >= StaleAfter THEN "stale" ELSE "ok"

(* Navigation::state: the fix, with the Place it carries (at = Never: none). *)
State(n, t) ==
    [status |-> Status(n, t),
     at |-> n.at,
     sog |-> IF n.at = Never THEN Never ELSE PartShown(n, "rmc"),
     satellites |-> IF n.at = Never THEN Never ELSE PartShown(n, "gga")]

-----------------------------------------------------------------------------
Init ==
    /\ now = 0
    /\ nav = NoNavigation

(* Time passes. *)
Advance ==
    /\ now < Horizon
    /\ now' = now + 1
    /\ UNCHANGED nav

(* The hub reads a position sentence off a line. *)
Hear(p) ==
    /\ nav' = Update(nav, p, now)
    /\ UNCHANGED now

Next ==
    \/ Advance
    \/ \E p \in Positions : Hear(p)

Spec == Init /\ [][Next]_vars

-----------------------------------------------------------------------------
TypeOK ==
    /\ now \in Nat
    /\ nav \in Navigations

(* The fix as it is now. *)
Fix == State(nav, now)

(* A receiver that has said it has no fix is never shown as having one,
   however the void sentence falls between the good ones and however long ago
   it spoke: Navigation::state tests `lost` only while the receiver is
   talking, and relies on the position being no younger than the last
   sentence otherwise. *)
LostIsNeverOk == nav.lost => Fix.status # "ok"

(* A fix says `nofix` only on the strength of a sentence heard in the last
   StaleAfter: a receiver that fell silent is stale or none, never nofix, so a
   dead cable is not blamed on the sky. *)
NofixIsFresh == Fix.status = "nofix" => now - nav.heard < StaleAfter

(* The speed in an ok fix, and its satellites, come from sentences less than
   twice StaleAfter old: StaleAfter for the position, and StaleAfter for the
   part beside the position. *)
PartsBounded ==
    Fix.status = "ok" =>
        \A i \in {Fix.sog, Fix.satellites} \ {Never} : now - i < 2 * StaleAfter

(* The speed and the satellites of one fix were never heard StaleAfter or
   more apart: one of the two came with the newest position. *)
PartsTogether ==
    Fix.sog # Never /\ Fix.satellites # Never =>
        /\ Fix.sog - Fix.satellites < StaleAfter
        /\ Fix.satellites - Fix.sog < StaleAfter

(* A fix becomes ok again only in the step that takes in a valid position
   with both coordinates: neither time passing nor any other sentence brings an
   old position back. *)
OnlyAPositionMakesOk ==
    [][Fix.status # "ok" /\ Fix'.status = "ok" => nav'.at = now' /\ ~nav'.lost]_vars

(* Speed and course are not passed off as current once the GPS has stopped
   sending them: the words of README.md, and of the test
   a_gps_sending_only_gga_drops_the_old_speed of fix.rs. *)
SpeedIsCurrent ==
    Fix.status = "ok" /\ Fix.sog # Never => now - Fix.sog < StaleAfter
=============================================================================
