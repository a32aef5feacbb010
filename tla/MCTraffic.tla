-------------------------------- MODULE MCTraffic --------------------------------
(* One vessel more than there is room for, a name and a callsign that may
   change, and time for a vessel to be lost and come back. *)
EXTENDS Traffic, TLC

Alike == Permutations(Mmsis) \cup Permutations(Values) \cup Permutations(Fields)
=============================================================================
