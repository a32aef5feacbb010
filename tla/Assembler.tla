-------------------------------- MODULE Assembler --------------------------------
(***************************************************************************)
(* Joining the sentences of AIS messages: Assembler::feed of src/ais.rs,   *)
(* one for each source.                                                    *)
(*                                                                         *)
(* A key is a sequential message id with a radio channel.  Many ships      *)
(* share a key, one message after another; on its way here any sentence    *)
(* may be lost (noise, a bad checksum), and a receiver may send one whose  *)
(* numbers make no sense.  A payload is told by the sentence it came in    *)
(* and the message that was part of: what decode makes of one is not       *)
(* followed.                                                               *)
(***************************************************************************)
EXTENDS Integers, SequencesExt

CONSTANTS
    Keys,         \* the ids and channels in use
    PENDING,      \* messages with sentences still to come
    MaxCount,     \* sentences of a message, at most
    MaxMessages,  \* bound: messages sent in one behaviour
    MaxNoise      \* bound: sentences of no message in one behaviour

VARIABLES
    pending,   \* Assembler.pending
    air,       \* each key: the message being sent on it, and its next sentence
    sent,      \* how many messages have been started
    noise,     \* how many sentences of no message have come
    joined,    \* the payload that the last sentence made whole, if any
    intact,    \* history: each key, whether every sentence so far of its message came
    since      \* history: each key, how many messages were started here since its own

vars == <<pending, air, sent, noise, joined, intact, since>>

ASSUME AssemblerAssumption ==
    /\ PENDING \in Nat \ {0}
    /\ MaxCount \in Nat \ {0, 1}
    /\ MaxMessages \in Nat /\ MaxNoise \in Nat

-----------------------------------------------------------------------------
(* Fill bits: a number from 0 to 5, 0 but on a message's last sentence. *)
Fills == {0, 5, 6}
Piece(key, count, number, of) == [key |-> key, count |-> count, number |-> number, of |-> of]
Sentence(key, count, number, fill, of) ==
    [key |-> key, count |-> count, number |-> number, fill |-> fill, of |-> of]

PieceOf(s) == Piece(s.key, s.count, s.number, s.of)
Partial(s) == [key |-> s.key, count |-> s.count, next |-> 2, payload |-> <<PieceOf(s)>>]

(* Mutation: messages of one id and channel are told apart by nothing else. *)
SameKey(p, s) == p.key = s.key

(* `same`: a message's sentences share a sequence id, a channel and a count. *)
Same(p, s) == p.key = s.key /\ p.count = s.count

(* retain: the others, in the order they were. *)
Without(ps, s) ==
    LET others == {i \in DOMAIN ps : ~Same(ps[i], s)}
    IN [n \in 1..Cardinality(others) |->
           ps[CHOOSE i \in others : Cardinality({j \in others : j < i}) = n - 1]]

Senseless(s) == s.count = 0 \/ s.number = 0 \/ s.number > s.count \/ s.count > MaxCount
Misfilled(s) == s.fill > 5 \/ (s.number < s.count /\ s.fill # 0)

(* The messages in hand that s is the next sentence of. *)
Awaits(p, s) == Same(p, s) /\ p.next = s.number
Awaiting(s) == {i \in DOMAIN pending : Awaits(pending[i], s)}

-----------------------------------------------------------------------------
(* Assembler::feed, a branch of it at a time.  Neither of these keeps anything. *)
FeedSenseless(s) ==
    /\ Senseless(s)
    /\ joined' = <<>>
    /\ UNCHANGED pending

FeedWhole(s) ==
    /\ ~Senseless(s) /\ s.count = 1
    /\ joined' = <<PieceOf(s)>>
    /\ UNCHANGED pending

(* Bad fill bits: its message is lost. *)
FeedMisfilled(s) ==
    /\ ~Senseless(s) /\ s.count > 1 /\ Misfilled(s)
    /\ pending' = Without(pending, s)
    /\ joined' = <<>>

(* Mutation: room is made one message too late. *)
FeedFirstLate(s) ==
    /\ ~Senseless(s) /\ s.count > 1 /\ ~Misfilled(s) /\ s.number = 1
    /\ LET others == Without(pending, s)
       IN pending' = Append(IF Len(others) > PENDING THEN Tail(others) ELSE others, Partial(s))
    /\ joined' = <<>>

(* Mutation: the newest makes room. *)
FeedFirstEvictsNewest(s) ==
    /\ ~Senseless(s) /\ s.count > 1 /\ ~Misfilled(s) /\ s.number = 1
    /\ LET others == Without(pending, s)
       IN pending' = Append(IF Len(others) = PENDING THEN Front(others) ELSE others, Partial(s))
    /\ joined' = <<>>

(* The first sentence starts its message over, and the oldest makes room. *)
FeedFirst(s) ==
    /\ ~Senseless(s) /\ s.count > 1 /\ ~Misfilled(s) /\ s.number = 1
    /\ LET others == Without(pending, s)
       IN pending' = Append(IF Len(others) = PENDING THEN Tail(others) ELSE others, Partial(s))
    /\ joined' = <<>>

(* Mutation: a sentence out of order is passed over, and the one awaited may still come. *)
FeedOutOfOrderKeeps(s) ==
    /\ ~Senseless(s) /\ s.count > 1 /\ ~Misfilled(s) /\ s.number > 1
    /\ Awaiting(s) = {}
    /\ joined' = <<>>
    /\ UNCHANGED pending

(* Out of order: the message it belonged to is lost. *)
FeedOutOfOrder(s) ==
    /\ ~Senseless(s) /\ s.count > 1 /\ ~Misfilled(s) /\ s.number > 1
    /\ Awaiting(s) = {}
    /\ pending' = Without(pending, s)
    /\ joined' = <<>>

(* The sentence awaited: it is joined on, and its message may be whole.  No two
   in hand are the same, so position() finds the only one. *)
FeedNext(s) ==
    /\ ~Senseless(s) /\ s.count > 1 /\ ~Misfilled(s) /\ s.number > 1
    /\ \E i \in Awaiting(s) :
        LET payload == Append(pending[i].payload, PieceOf(s))
        IN IF s.number = s.count
           THEN pending' = RemoveAt(pending, i) /\ joined' = payload
           ELSE /\ pending' = [pending EXCEPT ![i].payload = payload, ![i].next = pending[i].next + 1]
                /\ joined' = <<>>

Feed(s) ==
    \/ FeedSenseless(s) \/ FeedWhole(s) \/ FeedMisfilled(s)
    \/ FeedFirst(s) \/ FeedOutOfOrder(s) \/ FeedNext(s)

-----------------------------------------------------------------------------
(* The air: no message on a key, or the message that is being sent. *)
Silence == [of |-> 0, count |-> 0, next |-> 1]

(* A ship starts a message on a key that is free; its sentences follow. *)
Start(k) ==
    /\ air[k] = Silence /\ sent < MaxMessages
    /\ sent' = sent + 1
    /\ \E count \in 1..MaxCount :
        air' = [air EXCEPT ![k] = [of |-> sent', count |-> count, next |-> 1]]
    /\ joined' = <<>>
    /\ intact' = [intact EXCEPT ![k] = TRUE]
    /\ since' = [since EXCEPT ![k] = 0]
    /\ UNCHANGED <<pending, noise>>

OnAir(k, fill) == Sentence(k, air[k].count, air[k].next, fill, air[k].of)

Goes(k) ==
    /\ air[k] # Silence
    /\ LET m == air[k]
       IN air' = [air EXCEPT ![k] = IF m.next = m.count THEN Silence
                                    ELSE [m EXCEPT !.next = m.next + 1]]
    /\ UNCHANGED <<sent, noise>>

(* A first sentence that is kept may push another out; counted up to PENDING. *)
Kept(s) == s.number = 1 /\ s.count > 1 /\ ~Senseless(s) /\ ~Misfilled(s)
Counted(s) ==
    since' = [k \in Keys |->
                IF k # s.key /\ Kept(s) /\ since[k] < PENDING THEN since[k] + 1 ELSE since[k]]

Arrive(k) ==
    /\ Goes(k)
    /\ \E fill \in IF air[k].next = air[k].count THEN {0, 5} ELSE {0} :
        Feed(OnAir(k, fill)) /\ Counted(OnAir(k, fill))
    /\ UNCHANGED intact

Lose(k) ==
    /\ Goes(k)
    /\ joined' = <<>>
    /\ intact' = [intact EXCEPT ![k] = FALSE]
    /\ UNCHANGED <<pending, since>>

(* A sentence that no ship sent: of no message, with any numbers.  It disturbs the
   message on its key, and no other. *)
Noise(k) ==
    /\ noise < MaxNoise /\ noise' = noise + 1
    /\ \E count \in 0..MaxCount + 1, number \in 0..MaxCount + 1, fill \in Fills :
        LET s == Sentence(k, count, number, fill, 0)
        IN Feed(s) /\ Counted(s)
    /\ intact' = [intact EXCEPT ![k] = FALSE]
    /\ UNCHANGED <<air, sent>>

Init ==
    /\ pending = <<>>
    /\ air = [k \in Keys |-> Silence]
    /\ sent = 0 /\ noise = 0
    /\ joined = <<>>
    /\ intact = [k \in Keys |-> TRUE]
    /\ since = [k \in Keys |-> 0]

Next == \E k \in Keys : Start(k) \/ Arrive(k) \/ Lose(k) \/ Noise(k)

Spec == Init /\ [][Next]_vars

-----------------------------------------------------------------------------
Pieces == [key: Keys, count: 1..MaxCount, number: 1..MaxCount, of: 0..MaxMessages]
Partials == [key: Keys, count: 2..MaxCount, next: 2..MaxCount, payload: Seq(Pieces)]

TypeOK ==
    /\ pending \in Seq(Partials) /\ Len(pending) <= PENDING
    /\ air \in [Keys -> [of: 0..MaxMessages, count: 0..MaxCount, next: 1..MaxCount]]
    /\ sent \in 0..MaxMessages /\ noise \in 0..MaxNoise
    /\ joined \in Seq(Pieces)
    /\ intact \in [Keys -> BOOLEAN]
    /\ since \in [Keys -> 0..PENDING]

(* The first sentences of a message of count on key, each in its place. *)
InOrder(payload, key, count) ==
    \A i \in DOMAIN payload :
        payload[i].key = key /\ payload[i].count = count /\ payload[i].number = i

(* Whatever is lost, misnumbered or interleaved, what is decoded has the first, the
   second, ... and the last sentence of as many as each of them says there are, all on
   one id and channel: never a message with a hole, a sentence twice or out of order,
   nor one cut short.  And a sentence never has two messages in hand to go to. *)
NeverWithAHole ==
    /\ joined # <<>> => InOrder(joined, joined[1].key, Len(joined))
    /\ \A i, j \in DOMAIN pending : Same(pending[i], pending[j]) => i = j
    /\ \A i \in DOMAIN pending :
        LET p == pending[i]
        IN InOrder(p.payload, p.key, p.count) /\ Len(p.payload) = p.next - 1

(* A message all of whose sentences arrive is decoded as it was sent, whatever the
   other keys carry meanwhile, unless as many other messages as there is room for
   were started since; and it is never decoded as anything else. *)
ArrivedIsJoined ==
    [][\A k \in Keys :
          LET m == air[k]
              whole == [i \in 1..m.count |-> Piece(k, m.count, i, m.of)]
          IN m # Silence /\ m.next = m.count /\ air'[k] = Silence /\ intact'[k] =>
                /\ joined' \in {<<>>, whole}
                /\ since[k] < PENDING => joined' = whole]_vars
=============================================================================
