--------------------------- MODULE NavigationHistory ---------------------------
(***************************************************************************)
(* What a fix promises, said of everything heard so far rather than of the *)
(* struct src/fix.rs keeps: Navigation with a history variable, and the    *)
(* fix a reader of the whole history would give.                           *)
(***************************************************************************)
EXTENDS Navigation, Sequences, FiniteSetsExt

CONSTANT MaxHeard  \* bound: sentences followed in one behaviour

VARIABLE log       \* every position sentence heard, with its instant

ASSUME MaxHeardAssumption == MaxHeard \in Nat

HInit == Init /\ log = <<>>

HHear(p) ==
    /\ Len(log) < MaxHeard
    /\ Hear(p)
    /\ log' = Append(log, [said |-> p, at |-> now])

HAdvance == Advance /\ UNCHANGED log

HNext == HAdvance \/ \E p \in Positions : HHear(p)

HSpec == HInit /\ [][HNext]_<<vars, log>>

-----------------------------------------------------------------------------
Placed(e) == e.said.valid /\ e.said.placed
Void(e) == ~e.said.valid

(* The places in the history where P holds, and the last of them (0: none). *)
Where(P(_)) == {i \in DOMAIN log : P(log[i])}
LastWhere(P(_)) == IF Where(P) = {} THEN 0 ELSE Max(Where(P))
AtWhere(i) == IF i = 0 THEN Never ELSE log[i].at

(* The last usable sentence of kind k, if it spoke its fields and is less than
   StaleAfter older than the last usable sentence of either kind. *)
ReadPart(k) ==
    LET last == LastWhere(Placed)
        own == LastWhere(LAMBDA e : Placed(e) /\ e.said.kind = k)
    IN IF own # 0 /\ log[own].said.filled /\ log[last].at - log[own].at < StaleAfter
       THEN log[own].at ELSE Never

ReadFix ==
    LET place == LastWhere(Placed)
        silent == log = <<>> \/ now - log[Len(log)].at >= StaleAfter
        denied == LastWhere(Void) > place
    IN [status |-> IF place = 0 THEN IF silent THEN "none" ELSE "nofix"
                   ELSE IF denied /\ ~silent THEN "nofix"
                   ELSE IF now - log[place].at >= StaleAfter THEN "stale" ELSE "ok",
        at |-> AtWhere(place),
        sog |-> ReadPart("rmc"),
        satellites |-> ReadPart("gga")]

(* The fix the hub sends at any instant is the one a reader of the whole history
   would give: the few instants and the flag that Navigation keeps forget
   nothing that matters, in whatever order RMC, GGA, void and coordinate-less
   sentences were interleaved. *)
FixTellsHistory == Fix = ReadFix
=============================================================================
