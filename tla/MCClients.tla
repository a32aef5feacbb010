------------------------------- MODULE MCClients -------------------------------
(* Two connections, opened again and again, with queues so short that an app may
   or may not keep up with the versions to come: the hello and the first two
   messages fill one. *)
EXTENDS Clients
=============================================================================
