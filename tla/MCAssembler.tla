------------------------------ MODULE MCAssembler ------------------------------
(* Messages of up to three sentences on keys that are alike, with room for one
   message fewer than there are keys. *)
EXTENDS AssemblerHistory

Alike == Permutations(Keys)
=============================================================================
