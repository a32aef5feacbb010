------------------------------ MODULE MCSocketLock ------------------------------
(* Three processes, so that one may hold the lock while another has the lock file
   open and a third starts afresh; the hubs are alike. *)
EXTENDS SocketLock, TLC

Alike == Permutations(Hubs)
=============================================================================
