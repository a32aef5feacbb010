--------------------------------- MODULE MCHub ---------------------------------
(* The hub with its sentences: an RMC or a GGA in full, and a void one. *)
EXTENDS Hub

Alike == Permutations(Messages)

Good == [kind |-> "rmc", valid |-> TRUE, placed |-> TRUE, filled |-> TRUE]
Void == [kind |-> "rmc", valid |-> FALSE, placed |-> FALSE, filled |-> FALSE]

GoodAndVoid == {Good, Void}
GoodOnly == {Good}
=============================================================================
