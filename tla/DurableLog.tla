------------------------------- MODULE DurableLog -------------------------------
(***************************************************************************)
(* What a recording promises, without a disk, a thread or a queue: lines   *)
(* are accepted one by one; a growing prefix of them is safe from a power  *)
(* cut; and a recording that is closed properly is safe as a whole.        *)
(***************************************************************************)
EXTENDS Naturals, Sequences

VARIABLES
    accepted,  \* the lines taken for the recording, in order
    safe,      \* how many of them a power cut can no longer take
    closed     \* the recording was closed with nothing lost

Init == accepted = <<>> /\ safe = 0 /\ closed = FALSE

Accept ==
    /\ ~closed
    /\ Len(accepted') = Len(accepted) + 1
    /\ SubSeq(accepted', 1, Len(accepted)) = accepted
    /\ UNCHANGED <<safe, closed>>

Secure ==
    /\ safe' \in safe..Len(accepted)
    /\ UNCHANGED <<accepted, closed>>

Close ==
    /\ ~closed /\ safe = Len(accepted)
    /\ closed' = TRUE
    /\ UNCHANGED <<accepted, safe>>

Next == Accept \/ Secure \/ Close

Spec == Init /\ [][Next]_<<accepted, safe, closed>>
=============================================================================
