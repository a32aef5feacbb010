----------------------------- MODULE MCNavigation -----------------------------
(* Navigation with its history, on six sentences: the fields of a void or a
   coordinate-less one are never read, so one of each is enough. *)
EXTENDS NavigationHistory

MCPositions ==
    [kind: Kinds, valid: {TRUE}, placed: {TRUE}, filled: BOOLEAN]
    \cup {[kind |-> "rmc", valid |-> FALSE, placed |-> FALSE, filled |-> FALSE],
          [kind |-> "gga", valid |-> TRUE, placed |-> FALSE, filled |-> FALSE]}
=============================================================================
