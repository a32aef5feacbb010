---------------------------- MODULE AssemblerHistory ----------------------------
(***************************************************************************)
(* What may become of messages whose sentences were lost: Assembler with a *)
(* history variable, the sentences that came of each message.              *)
(***************************************************************************)
EXTENDS Assembler

VARIABLE came  \* the sentences that came, of messages on the air, in hand or just joined

HInit == Init /\ came = {}

(* The messages that a sentence may still be heard of, or that were just joined. *)
Followed ==
    {air[k].of : k \in Keys}
    \cup UNION {{piece.of : piece \in ToSet(p.payload)} : p \in ToSet(pending)}
    \cup {piece.of : piece \in ToSet(joined)}

Remember(pieces) == came' = {piece \in pieces : piece.of \in Followed'}

HNext ==
    \E k \in Keys :
        \/ Start(k) /\ Remember(came)
        \/ Arrive(k) /\ Remember(came \cup {PieceOf(OnAir(k, 0))})
        \/ Lose(k) /\ Remember(came)
        \/ Noise(k) /\ Remember(came)

HSpec == HInit /\ [][HNext]_<<vars, came>>

-----------------------------------------------------------------------------
(* docs/protocol.md: if one of a message's sentences is lost, so is the message.  Not
   quite: the end of another one may take the place of what was lost.  But nothing
   that came is passed over for it: of every message that is in what is decoded, each
   sentence that came is there.  Two messages are joined only where the first lost all
   that the second gives, and the second all that the first gives; a sentence of no
   message apart, which may stand for any. *)
JoinedOverLossOnly ==
    (\A piece \in ToSet(joined) : piece.of # 0) =>
        \A piece \in came :
            piece.of \in {j.of : j \in ToSet(joined)} => piece \in ToSet(joined)
================================================================================
