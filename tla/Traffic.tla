--------------------------------- MODULE Traffic ---------------------------------
(***************************************************************************)
(* Every vessel heard on AIS: Traffic of src/targets.rs, with the hub's    *)
(* tick that drops the lost ones and sends the rest (src/hub.rs).          *)
(*                                                                         *)
(* A position is told by when it was reported, and particulars by the      *)
(* fields a message carries.  Ranges, and the order they put vessels in,   *)
(* are left out: they change nothing that is kept.                         *)
(***************************************************************************)
EXTENDS Integers, FiniteSets, Functions

CONSTANTS
    Mmsis,        \* the vessels that may be heard
    MAX_VESSELS,  \* vessels kept
    LOST_AFTER,   \* a vessel not heard from in this long is gone
    Fields,       \* particulars: name, callsign, ship type, ...
    Values,       \* what a field may say
    Lateness,     \* bound: how late the loop may come to a tick
    Horizon       \* bound: behaviours are followed up to this instant

VARIABLES
    now,      \* the clock
    tickDue,  \* when the interval fires next
    vessels,  \* Traffic.vessels
    shown,    \* the vessels of the last targets message, and whether each has a position
    heard,    \* history: when each vessel was last heard
    placed,   \* history: when each last reported a position
    told,     \* history: what each last said of each field since it came into the table
    crowded   \* history: more vessels than are kept were once heard within LOST_AFTER

vars == <<now, tickDue, vessels, shown, heard, placed, told, crowded>>

ASSUME TrafficAssumption ==
    /\ IsFiniteSet(Mmsis)
    /\ MAX_VESSELS \in Nat \ {0}
    /\ LOST_AFTER \in Nat \ {0}
    /\ Lateness \in Nat

-----------------------------------------------------------------------------
Never == -1
Instants == Nat \cup {Never}
Unsaid == "unsaid"                 \* None, of a particular
TickEvery == 1                     \* the interval of the tick: the unit of the clock

Vessels == [heard: Nat, position: Instants, particulars: [Fields -> Values \cup {Unsaid}]]

(* What a message reports: a position, or some of a vessel's particulars. *)
APosition == [position |-> TRUE, says |-> [f \in {} |-> Unsaid]]
Particulars(says) == [position |-> FALSE, says |-> says]
Reports == {APosition} \cup {Particulars(says) : says \in UNION {[fs -> Values] : fs \in SUBSET Fields}}

Lost(t) == t # Never /\ now - t >= LOST_AFTER

(* Mutation: a position lasts as long as its vessel. *)
ExpireKeepsPositions(vs) == Restrict(vs, {m \in DOMAIN vs : ~Lost(vs[m].heard)})

(* Mutation: a vessel goes with its position. *)
ExpireByPosition(vs) ==
    Restrict(vs, {m \in DOMAIN vs : ~Lost(vs[m].heard) /\ ~Lost(vs[m].position)})

(* Traffic::expire. *)
Expire(vs) ==
    [m \in {n \in DOMAIN vs : ~Lost(vs[n].heard)} |->
        [vs[m] EXCEPT !.position = IF Lost(@) THEN Never ELSE @]]

(* The key of min_by_key: first one with no position, then the one heard longest
   ago.  Of those alike any may be first: the order of a HashMap. *)
LessWorth(v, w) ==
    \/ v.position = Never /\ w.position # Never
    \/ (v.position = Never <=> w.position = Never) /\ v.heard < w.heard

LeastWorth(vs) == {m \in DOMAIN vs : \A n \in DOMAIN vs : ~LessWorth(vs[n], vs[m])}

(* Mutation: a message tells all there is to know. *)
FilledInAfresh(v, says) ==
    [v EXCEPT !.particulars = [f \in Fields |-> IF f \in DOMAIN says THEN says[f] ELSE Unsaid]]

(* A message's particulars, and the rest as they were. *)
FilledIn(v, says) ==
    [v EXCEPT !.particulars = [f \in Fields |-> IF f \in DOMAIN says THEN says[f] ELSE @[f]]]

NothingSaid == [f \in Fields |-> Unsaid]
NewVessel == [heard |-> now, position |-> Never, particulars |-> NothingSaid]

(* A vessel takes a report. *)
Takes(vs, m, r) ==
    LET v == [(IF m \in DOMAIN vs THEN vs[m] ELSE NewVessel) EXCEPT !.heard = now]
        w == IF r.position THEN [v EXCEPT !.position = now] ELSE FilledIn(v, r.says)
    IN [n \in DOMAIN vs \cup {m} |-> IF n = m THEN w ELSE vs[n]]

Without(vs, m) == Restrict(vs, DOMAIN vs \ {m})

(* Mutation: particulars displace a vessel like a position does. *)
MakeRoomForAny(vs, r) == {Without(vs, m) : m \in LeastWorth(vs)}

(* What may be left of a full table for a newcomer: its victim gone, or nothing
   but the table itself, when only a position may displace the victim. *)
MakeRoom(vs, r) ==
    {Without(vs, m) : m \in {n \in LeastWorth(vs) : vs[n].position = Never \/ r.position}}

(* Traffic::update. *)
Update(m, r) ==
    IF m \in DOMAIN vessels THEN vessels' = Takes(vessels, m, r)
    ELSE LET kept == Expire(vessels)
         IN IF Cardinality(DOMAIN kept) < MAX_VESSELS THEN vessels' = Takes(kept, m, r)
            ELSE \/ \E room \in MakeRoom(kept, r) : vessels' = Takes(room, m, r)
                 \/ MakeRoom(kept, r) = {} /\ vessels' = kept

-----------------------------------------------------------------------------
(* The vessels heard within LOST_AFTER. *)
About == {m \in Mmsis : heard[m] # Never /\ ~Lost(heard[m])}

(* What each vessel has said, of those that are in the table after this step. *)
Remembered(said) == [m \in Mmsis |-> IF m \in DOMAIN vessels' THEN said[m] ELSE NothingSaid]

(* A report is joined and decoded from a source's line. *)
Hear(m, r) ==
    /\ Update(m, r)
    /\ heard' = [heard EXCEPT ![m] = now]
    /\ placed' = IF r.position THEN [placed EXCEPT ![m] = now] ELSE placed
    /\ told' = Remembered([told EXCEPT ![m] = [f \in Fields |-> IF f \in DOMAIN r.says THEN r.says[f] ELSE @[f]]])
    /\ crowded' = (crowded \/ Cardinality(About \cup {m}) > MAX_VESSELS)
    /\ UNCHANGED <<now, tickDue, shown>>

(* What apps are sent: every vessel, with its position if it has one. *)
Targets(vs) == [m \in DOMAIN vs |-> vs[m].position # Never]

(* The tick: the lost are dropped, and the rest sent. *)
Tick ==
    /\ now >= tickDue
    /\ tickDue' = now + TickEvery
    /\ vessels' = Expire(vessels)
    /\ shown' = Targets(vessels')
    /\ told' = Remembered(told)
    /\ UNCHANGED <<now, heard, placed, crowded>>

(* Time passes; the loop comes to its tick within Lateness. *)
Advance ==
    /\ now < tickDue + Lateness /\ now < Horizon
    /\ now' = now + 1
    /\ UNCHANGED <<tickDue, vessels, shown, heard, placed, told, crowded>>

Init ==
    /\ now = 0 /\ tickDue = 0
    /\ vessels = [m \in {} |-> NewVessel]
    /\ shown = Targets(vessels)
    /\ heard = [m \in Mmsis |-> Never]
    /\ placed = [m \in Mmsis |-> Never]
    /\ told = [m \in Mmsis |-> NothingSaid]
    /\ crowded = FALSE

Next ==
    \/ \E m \in Mmsis, r \in Reports : Hear(m, r)
    \/ Tick
    \/ Advance

Spec == Init /\ [][Next]_vars

-----------------------------------------------------------------------------
IsTable(vs) == DOMAIN vs \subseteq Mmsis /\ vs \in [DOMAIN vs -> Vessels]

TypeOK ==
    /\ now \in Nat /\ tickDue \in Nat
    /\ IsTable(vessels) /\ Cardinality(DOMAIN vessels) <= MAX_VESSELS
    /\ DOMAIN shown \subseteq Mmsis /\ shown \in [DOMAIN shown -> BOOLEAN]
    /\ heard \in [Mmsis -> Instants] /\ placed \in [Mmsis -> Instants]
    /\ told \in [Mmsis -> [Fields -> Values \cup {Unsaid}]]
    /\ crowded \in BOOLEAN

(* Until more vessels than are kept have been about at once, every vessel heard
   within LOST_AFTER is in the table, with its position if it reported one within
   that time: none is forgotten by the coming and going of the others. *)
AllAboutAreKept ==
    ~crowded => \A m \in About :
        /\ m \in DOMAIN vessels /\ vessels[m].heard = heard[m]
        /\ placed[m] # Never /\ ~Lost(placed[m]) => vessels[m].position = placed[m]

(* However many are about, a vessel that has reported a position stays, with it,
   while fewer others with a position than there is room for have been heard since:
   a ship on a collision course cannot be crowded out by ships heard before it, nor
   by more and more messages of the same few, nor by any number of names. *)
PlacedIsKept ==
    \A m \in About :
        /\ placed[m] # Never /\ ~Lost(placed[m])
        /\ Cardinality({n \in Mmsis \ {m} : heard[n] >= placed[m] /\ placed[n] # Never})
              < MAX_VESSELS
        => /\ m \in DOMAIN vessels
           /\ vessels[m].position = placed[m]

(* docs/protocol.md: vessels heard in the last 10 minutes, and no position older
   than that: apps stop being shown either within a tick and the loop's lateness,
   even when nothing more arrives. *)
LostLeavesOnTime ==
    \A m \in DOMAIN shown :
        /\ now - heard[m] <= LOST_AFTER + Lateness
        /\ shown[m] => now - placed[m] <= LOST_AFTER + Lateness

(* docs/protocol.md: particulars build up across messages.  What is known of a vessel is
   the last it said of each thing since it came into the table, though it says them a
   piece at a time: nothing is forgotten while it stays, nor kept from before it was
   lost or made room, nor taken of what it said while there was no room for it. *)
SaysItsLast == \A m \in DOMAIN vessels : vessels[m].particulars = told[m]
=============================================================================
