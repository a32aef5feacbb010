------------------------------- MODULE MCSources -------------------------------
(* Recordings for TLC: stamps that start late, go on and go back before the first, with a
   record that is none among them. *)
EXTENDS Sources

MCRecordings == {<<1, Skip, 2, 0>>}
================================================================================
