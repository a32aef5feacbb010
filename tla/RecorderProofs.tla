----------------------------- MODULE RecorderProofs -----------------------------
(***************************************************************************)
(* What a recording promises, for every length of the queue, SYNC_EVERY    *)
(* and SHUTDOWN_WAIT: what is on the disk is what the queue took, in its   *)
(* order, synced on time; and the hub, its thread and the disk together    *)
(* are the log of DurableLog.                                              *)
(***************************************************************************)
EXTENDS Recorder, SequenceTheorems, TLAPS

Recorders == [held : BOOLEAN, writing : BOOLEAN, lines : Seq(Nat),
              behind : BOOLEAN, lostComment : BOOLEAN, caughtUp : BOOLEAN]

Types == TypeOK /\ rec \in Recorders /\ writtenAt \in Seq(Nat)

(* A thread that failed reads no queue, one that writes has a line in hand, and one
   that is closing, or done, has none left to write. *)
AtWork ==
    /\ thread = "failed" => ~rec.writing
    /\ thread = "writing" /\ Up => Len(hand) = 1
    /\ thread # "writing" => hand = <<>>
    /\ Up /\ thread \in {"closing", "done"} => ~Open /\ rec.lines = <<>>
    /\ Up /\ thread = "done" => synced = Len(disk)
    /\ hub = "exited" => Finished

(* Lines not synced have been waiting since `since`, and for as long as is allowed. *)
SinceTheFirst ==
    /\ since <= now
    /\ Up => \A i \in synced + 1 .. Len(disk) : since # Never /\ writtenAt[i] >= since
    /\ Up /\ thread = "waiting" /\ since # Never => now - since <= SyncEvery

IInv == Types /\ AtWork /\ SinceTheFirst /\ NothingReordered

-----------------------------------------------------------------------------
(* A sequence begins another when it is no longer and agrees with it. *)
LEMMA PrefixByElement ==
    ASSUME NEW s \in Seq(Nat), NEW t \in Seq(Nat)
    PROVE  IsPrefix(s, t) <=> Len(s) <= Len(t) /\ \A i \in 1..Len(s) : s[i] = t[i]
<1>1. /\ Len(s) \in Nat /\ Len(t) \in Nat
      /\ \A i \in 1..Len(s) : s[i] \in Nat
      /\ \A i \in 1..Len(t) : t[i] \in Nat
  BY LenProperties, ElementOfSeq
<1>2. ASSUME Len(s) <= Len(t)
      PROVE  /\ SubSeq(t, 1, Len(s)) \in Seq(Nat) /\ Len(SubSeq(t, 1, Len(s))) = Len(s)
             /\ \A i \in 1..Len(s) : SubSeq(t, 1, Len(s))[i] = t[i]
  <2>1. \A i \in 1..Len(s) : t[i] \in Nat
    BY <1>1, <1>2
  <2>2. /\ SubSeq(t, 1, Len(s)) \in Seq(Nat)
        /\ Len(SubSeq(t, 1, Len(s))) = IF 1 <= Len(s) THEN Len(s) - 1 + 1 ELSE 0
        /\ \A i \in 1 .. Len(s) - 1 + 1 : SubSeq(t, 1, Len(s))[i] = t[1 + i - 1]
    BY <1>1, <2>1, SubSeqProperties
  <2> QED
    BY <1>1, <2>2
<1>3. SubSeq(s, 1, Len(s)) = s
  BY SubSeqFull
<1>4. ASSUME Len(s) <= Len(t), \A i \in 1..Len(s) : s[i] = t[i]
      PROVE  s = SubSeq(t, 1, Len(s))
  <2> DEFINE u == SubSeq(t, 1, Len(s))
  <2>1. u \in Seq(Nat) /\ Len(u) = Len(s) /\ \A i \in 1..Len(s) : s[i] = u[i]
    BY <1>2, <1>4
  <2> HIDE DEF u
  <2>2. s = u
    BY <2>1, SeqEqual
  <2> QED
    BY <2>2 DEF u
<1> QED
  BY <1>2, <1>3, <1>4 DEF IsPrefix

Begins(s, t) == Len(s) <= Len(t) /\ \A i \in 1..Len(s) : s[i] = t[i]

(* The same, to be cited without its meaning. *)
LEMMA PrefixIfBegins ==
    ASSUME NEW s \in Seq(Nat), NEW t \in Seq(Nat), Begins(s, t)
    PROVE  IsPrefix(s, t)
  BY PrefixByElement DEF Begins

(* The order of two joins does not matter. *)
LEMMA ConcatThrice ==
    ASSUME NEW s \in Seq(Nat), NEW t \in Seq(Nat), NEW u \in Seq(Nat)
    PROVE  (s \o t) \o u = s \o (t \o u)
  BY ConcatAssociative, Z3T(40)

(* To append is to join with one line. *)
LEMMA AppendIsJoin ==
    ASSUME NEW s \in Seq(Nat), NEW e \in Nat
    PROVE  Append(s, e) = s \o <<e>>
  OBVIOUS

(* What was there stays where it was. *)
LEMMA AppendKeeps ==
    ASSUME NEW s \in Seq(Nat), NEW e \in Nat
    PROVE  Len(Append(s, e)) = Len(s) + 1 /\ SubSeq(Append(s, e), 1, Len(s)) = s
  OBVIOUS

(* The first line taken, and the rest. *)
LEMMA HeadThenTail ==
    ASSUME NEW s \in Seq(Nat), s # <<>>
    PROVE  /\ <<Head(s)>> \in Seq(Nat) /\ Tail(s) \in Seq(Nat)
           /\ s = <<Head(s)>> \o Tail(s)
  BY HeadTailProperties

(* A sequence begins whatever it is joined with. *)
LEMMA PrefixOfConcat ==
    ASSUME NEW s \in Seq(Nat), NEW t \in Seq(Nat)
    PROVE  IsPrefix(s, s \o t)
<1>1. /\ s \o t \in Seq(Nat) /\ Len(s \o t) = Len(s) + Len(t)
      /\ \A i \in 1 .. Len(s) + Len(t) : (s \o t)[i] = IF i <= Len(s) THEN s[i]
                                                        ELSE t[i - Len(s)]
  BY ConcatProperties
<1>2. Len(s) \in Nat /\ Len(t) \in Nat
  BY LenProperties
<1>3. Len(s) <= Len(s \o t) /\ \A i \in 1..Len(s) : s[i] = (s \o t)[i]
  BY <1>1, <1>2
<1> QED
  BY <1>1, <1>3, PrefixByElement

(* What is cut off at the end of a beginning leaves a beginning. *)
LEMMA PrefixOfPrefix ==
    ASSUME NEW s \in Seq(Nat), NEW t \in Seq(Nat), IsPrefix(s, t), NEW n \in 0..Len(s)
    PROVE  SubSeq(s, 1, n) \in Seq(Nat) /\ Len(SubSeq(s, 1, n)) = n
           /\ IsPrefix(SubSeq(s, 1, n), t)
<1>1. /\ Len(s) \in Nat /\ Len(t) \in Nat
      /\ Len(s) <= Len(t) /\ \A i \in 1..Len(s) : s[i] = t[i]
  BY LenProperties, PrefixByElement
<1>2. \A i \in 1..n : s[i] \in Nat
  BY <1>1, ElementOfSeq
<1>3. /\ SubSeq(s, 1, n) \in Seq(Nat)
      /\ Len(SubSeq(s, 1, n)) = IF 1 <= n THEN n - 1 + 1 ELSE 0
      /\ \A i \in 1 .. n - 1 + 1 : SubSeq(s, 1, n)[i] = s[1 + i - 1]
  BY <1>2, SubSeqProperties
<1> DEFINE u == SubSeq(s, 1, n)
<1>4. u \in Seq(Nat) /\ Len(u) = n /\ \A i \in 1..n : u[i] = s[i]
  BY <1>1, <1>3
<1> HIDE DEF u
<1>5. IsPrefix(u, t)
  <2>1. Len(u) <= Len(t) /\ \A i \in 1..Len(u) : u[i] = t[i]
    <3>1. Len(u) = n /\ n \in Nat /\ n <= Len(s) /\ \A i \in 1..n : i \in 1..Len(s)
      BY <1>1, <1>4
    <3>2. \A i \in 1..n : u[i] = t[i]
      BY <1>1, <1>4, <3>1
    <3>3. Len(u) <= Len(t)
      BY <1>1, <3>1
    <3> QED
      BY <3>1, <3>2, <3>3
  <2>2. Begins(u, t)
    BY <2>1 DEF Begins
  <2> QED
    BY <1>4, <2>2, PrefixIfBegins
<1> QED
  BY <1>4, <1>5 DEF u

(* What is on the disk begins what was accepted, whatever has happened. *)
LEMMA DiskIsAPrefix ==
    ASSUME Types, NothingReordered
    PROVE  IsPrefix(disk, accepted) /\ Len(disk) <= Len(accepted) /\ synced <= Len(accepted)
<1>1. /\ disk \in Seq(Nat) /\ hand \in Seq(Nat) /\ rec.lines \in Seq(Nat)
      /\ accepted \in Seq(Nat) /\ synced \in 0..Len(disk)
  BY DEF Types, TypeOK
<1>2. IsPrefix(disk, accepted)
  <2>1. CASE Up /\ thread # "failed"
    <3>0. accepted = (disk \o hand) \o rec.lines
      BY <2>1 DEF NothingReordered
    <3>1. accepted = disk \o (hand \o rec.lines)
      BY <1>1, <3>0, ConcatThrice, ZenonT(40)
    <3>2. hand \o rec.lines \in Seq(Nat)
      BY <1>1, ConcatProperties
    <3> QED
      BY <1>1, <3>1, <3>2, PrefixOfConcat
  <2>2. CASE ~(Up /\ thread # "failed")
    BY <2>2 DEF NothingReordered
  <2> QED
    BY <2>1, <2>2
<1>3. Len(disk) \in Nat /\ Len(accepted) \in Nat
  BY <1>1, LenProperties
<1>4. Len(disk) <= Len(accepted)
  BY <1>2 DEF IsPrefix
<1> QED
  BY <1>1, <1>2, <1>3, <1>4

-----------------------------------------------------------------------------
(* Init: nothing was sent. *)
LEMMA InitInv == Init => IInv
<1> SUFFICES ASSUME Init PROVE IInv
  OBVIOUS
<1>1. <<>> \in Seq(Nat) /\ Len(<<>>) = 0
  OBVIOUS
<1>2. Types
  BY <1>1, RecordLimitAssumption
     DEF Init, Types, TypeOK, Recorders, NewRecorder, ThreadStates, Instants, Never
<1>3. AtWork /\ SinceTheFirst
  BY <1>1 DEF Init, AtWork, SinceTheFirst, Never, Up, Open, Finished
<1>4. NothingReordered
  BY <1>1, ConcatEmptySeq DEF Init, NothingReordered, Up, NewRecorder
<1> QED
  BY <1>2, <1>3, <1>4 DEF IInv

(* The queue takes a line at its end, or is left as it was. *)
LEMMA SendQueues ==
    ASSUME rec \in Recorders, Len(rec.lines) <= RecordLimit, NEW line \in Nat,
           NEW comment \in BOOLEAN
    PROVE  /\ Send(rec, line, comment) \in Recorders
           /\ Len(Send(rec, line, comment).lines) <= RecordLimit
           /\ Send(rec, line, comment).lines =
                 IF Takes(rec) THEN Append(rec.lines, line) ELSE rec.lines
           /\ ~rec.writing => ~Send(rec, line, comment).writing /\ ~Takes(rec)
<1>1. rec.lines \in Seq(Nat) /\ Len(rec.lines) \in Nat /\ RecordLimit \in Nat
  BY RecordLimitAssumption, LenProperties DEF Recorders
<1>2. /\ Append(rec.lines, line) \in Seq(Nat)
      /\ Len(Append(rec.lines, line)) = Len(rec.lines) + 1
  BY <1>1
<1>3. CASE ~rec.held
  BY <1>3 DEF Send, Takes
<1>4. CASE rec.held /\ ~rec.writing
  BY <1>1, <1>4 DEF Send, Takes, Recorders
<1>5. CASE rec.held /\ rec.writing /\ Len(rec.lines) < RecordLimit
  <2>1. Send(rec, line, comment) =
           [rec EXCEPT !.lines = Append(@, line), !.behind = FALSE,
                       !.caughtUp = @ \/ rec.lostComment, !.lostComment = FALSE]
    BY <1>1, <1>5 DEF Send
  <2>2. /\ Send(rec, line, comment) \in Recorders
        /\ Send(rec, line, comment).lines = Append(rec.lines, line)
    BY <1>2, <2>1 DEF Recorders
  <2>3. Len(Append(rec.lines, line)) <= RecordLimit
    BY <1>1, <1>2, <1>5
  <2> QED
    BY <1>5, <2>2, <2>3 DEF Takes
<1>6. CASE rec.held /\ rec.writing /\ Len(rec.lines) >= RecordLimit
  <2>1. Send(rec, line, comment) =
           [rec EXCEPT !.behind = TRUE, !.lostComment = @ \/ comment]
    BY <1>1, <1>6 DEF Send
  <2>2. /\ Send(rec, line, comment) \in Recorders
        /\ Send(rec, line, comment).lines = rec.lines
    BY <2>1 DEF Recorders
  <2>3. ~Takes(rec)
    BY <1>1, <1>6 DEF Takes
  <2> QED
    BY <1>6, <2>2, <2>3
<1> QED
  BY <1>1, <1>3, <1>4, <1>5, <1>6

-----------------------------------------------------------------------------
(* What a power cut leaves of the disk, and of the history beside it. *)
LEMMA PowerCutKeeps ==
    ASSUME Types, NothingReordered, PowerCut
    PROVE  /\ hub' = "cut" /\ hand' = <<>> /\ rec' = [rec EXCEPT !.lines = <<>>]
           /\ UNCHANGED <<now, sent, thread, synced, since, closedAt, accepted>>
           /\ disk' \in Seq(Nat) /\ writtenAt' \in Seq(Nat)
           /\ Len(disk') \in Nat /\ Len(writtenAt') = Len(disk') /\ synced \in 0..Len(disk')
           /\ IsPrefix(disk', accepted)
<1>1. /\ disk \in Seq(Nat) /\ writtenAt \in Seq(Nat) /\ accepted \in Seq(Nat)
      /\ Len(writtenAt) = Len(disk) /\ Len(disk) \in Nat /\ synced \in 0..Len(disk)
  BY LenProperties DEF Types, TypeOK
<1>2. PICK n \in synced..Len(disk) : /\ disk' = SubSeq(disk, 1, n)
                                    /\ writtenAt' = SubSeq(writtenAt, 1, n)
  BY DEF PowerCut
<1>3. n \in 0..Len(disk) /\ n \in 0..Len(writtenAt) /\ n \in Nat /\ synced \in 0..n
  BY <1>1
<1>4. IsPrefix(disk, accepted) /\ IsPrefix(writtenAt, writtenAt)
  BY <1>1, DiskIsAPrefix DEF IsPrefix
<1>5. /\ SubSeq(disk, 1, n) \in Seq(Nat) /\ Len(SubSeq(disk, 1, n)) = n
      /\ IsPrefix(SubSeq(disk, 1, n), accepted)
  BY <1>1, <1>3, <1>4, PrefixOfPrefix
<1>6. SubSeq(writtenAt, 1, n) \in Seq(Nat) /\ Len(SubSeq(writtenAt, 1, n)) = n
  BY <1>1, <1>3, <1>4, PrefixOfPrefix
<1> QED
  BY <1>2, <1>3, <1>5, <1>6 DEF PowerCut

(* The line in hand goes at the end of the disk. *)
LEMMA WriteAppends ==
    ASSUME Types, AtWork, Write
    PROVE  /\ Len(hand) = 1 /\ disk' = disk \o hand /\ disk' \in Seq(Nat)
           /\ Len(disk') = Len(disk) + 1
           /\ writtenAt' = Append(writtenAt, now) /\ writtenAt' \in Seq(Nat)
           /\ Len(writtenAt') = Len(disk')
           /\ \A i \in 1..Len(disk) : writtenAt'[i] = writtenAt[i]
           /\ writtenAt'[Len(disk) + 1] = now
           /\ hand' = <<>> /\ since' = SinceFirstWrite
           /\ thread' = (IF Due(since)' THEN "syncing" ELSE "waiting")
           /\ UNCHANGED <<now, rec, sent, synced, closedAt, hub, accepted>>
<1>1. /\ disk \in Seq(Nat) /\ hand \in Seq(Nat) /\ writtenAt \in Seq(Nat) /\ now \in Nat
      /\ Len(hand) = 1 /\ Len(writtenAt) = Len(disk) /\ Len(disk) \in Nat
  BY LenProperties DEF Write, AtWork, Types, TypeOK
<1>2. disk \o hand \in Seq(Nat) /\ Len(disk \o hand) = Len(disk) + Len(hand)
  BY <1>1, ConcatProperties
<1>3. /\ Append(writtenAt, now) \in Seq(Nat)
      /\ Len(Append(writtenAt, now)) = Len(writtenAt) + 1
      /\ \A i \in 1..Len(writtenAt) : Append(writtenAt, now)[i] = writtenAt[i]
      /\ Append(writtenAt, now)[Len(writtenAt) + 1] = now
  BY <1>1
<1>4. /\ disk' = disk \o hand /\ writtenAt' = Append(writtenAt, now)
      /\ hand' = <<>> /\ since' = SinceFirstWrite
      /\ UNCHANGED <<now, rec, sent, synced, closedAt, hub, accepted>>
  BY DEF Write
<1>5. thread' = (IF Due(since)' THEN "syncing" ELSE "waiting")
  BY <1>4 DEF Write, Due
<1> QED
  BY <1>1, <1>2, <1>3, <1>4, <1>5

(* Every step keeps the types. *)
LEMMA TypesNext ==
    ASSUME IInv, [Next]_vars
    PROVE  Types'
<1>1. /\ Types /\ TypeOK /\ rec \in Recorders /\ AtWork /\ NothingReordered
      /\ writtenAt \in Seq(Nat)
  BY DEF IInv, Types
<1>2. /\ <<>> \in Seq(Nat) /\ Len(<<>>) = 0 /\ RecordLimit \in Nat
      /\ Len(disk) \in Nat /\ Len(disk) \in 0..Len(disk)
  BY <1>1, RecordLimitAssumption, LenProperties DEF TypeOK
<1>3. ASSUME NEW comment \in BOOLEAN, HubSends(comment) PROVE Types'
  <2>1. sent + 1 \in Nat /\ rec' = Send(rec, sent + 1, comment)
    BY <1>1, <1>3 DEF HubSends, TypeOK
  <2>2. rec' \in Recorders /\ Len(rec'.lines) <= RecordLimit
    BY <1>1, <2>1, SendQueues DEF TypeOK
  <2>3. accepted' \in Seq(Nat)
    BY <1>1, <1>3, <2>1 DEF HubSends, TypeOK
  <2> QED
    BY <1>1, <1>3, <2>1, <2>2, <2>3 DEF HubSends, Types, TypeOK, Recorders, Instants
<1>4. CASE HubLooks
  BY <1>1, <1>4 DEF HubLooks, Types, TypeOK, Recorders, Instants
<1>5. CASE Take
  <2>1. /\ Head(rec.lines) \in Nat /\ Tail(rec.lines) \in Seq(Nat)
        /\ Len(Tail(rec.lines)) = Len(rec.lines) - 1 /\ Len(rec.lines) \in Nat
    BY <1>1, <1>5, HeadTailProperties, LenProperties DEF Take, TypeOK
  <2>2. rec' = [rec EXCEPT !.lines = Tail(rec.lines)] /\ hand' = <<Head(rec.lines)>>
    BY <1>5 DEF Take
  <2>3. /\ rec' \in Recorders /\ rec'.lines = Tail(rec.lines) /\ hand' \in Seq(Nat)
    <3>1. rec' \in Recorders /\ rec'.lines = Tail(rec.lines)
      BY <1>1, <2>1, <2>2 DEF Recorders
    <3>2. hand' \in Seq(Nat)
      BY <2>1, <2>2
    <3> QED
      BY <3>1, <3>2
  <2>4. Len(rec'.lines) <= RecordLimit
    BY <1>1, <1>2, <2>1, <2>3 DEF TypeOK
  <2> QED
    BY <1>1, <1>5, <2>3, <2>4 DEF Take, Types, TypeOK, Recorders, Instants, ThreadStates
<1>6. CASE Write
  <2>1. /\ disk' \in Seq(Nat) /\ Len(disk') = Len(disk) + 1 /\ writtenAt' \in Seq(Nat)
        /\ Len(writtenAt') = Len(disk') /\ hand' = <<>> /\ since' = SinceFirstWrite
        /\ thread' = (IF Due(since)' THEN "syncing" ELSE "waiting")
        /\ UNCHANGED <<now, rec, sent, synced, closedAt, hub, accepted>>
    BY <1>1, <1>6, WriteAppends
  <2>2. synced' \in 0..Len(disk') /\ since' \in Instants
    BY <1>1, <1>2, <2>1 DEF TypeOK, SinceFirstWrite, Instants
  <2> QED
    BY <1>1, <1>2, <2>1, <2>2 DEF Types, TypeOK, Recorders, Instants, ThreadStates
<1>7. CASE TimeOut \/ FindClosed \/ Close \/ Exit \/ GiveUp \/ Advance
  <2>1. /\ UNCHANGED <<rec, sent, hand, disk, synced, since, accepted, writtenAt>>
        /\ now' \in Nat /\ closedAt' \in Instants
        /\ thread' \in ThreadStates /\ hub' \in {"running", "exited", "gaveup", "cut"}
    <3>1. CASE TimeOut \/ FindClosed
      BY <1>1, <3>1 DEF TimeOut, FindClosed, TypeOK, ThreadStates
    <3>2. CASE Close \/ Exit \/ GiveUp
      BY <1>1, <3>2 DEF Close, Exit, GiveUp, TypeOK, Instants
    <3>3. CASE Advance
      BY <1>1, <3>3 DEF Advance, TypeOK
    <3> QED
      BY <1>7, <3>1, <3>2, <3>3
  <2> QED
    BY <1>1, <2>1 DEF Types, TypeOK, Recorders
<1>8. CASE Sync \/ LastSync
  <2>1. /\ synced' = Len(disk) /\ since' \in Instants /\ thread' \in ThreadStates
        /\ UNCHANGED <<now, rec, sent, hand, disk, closedAt, hub, accepted, writtenAt>>
    BY <1>1, <1>8 DEF Sync, LastSync, TypeOK, Instants, ThreadStates
  <2> QED
    BY <1>1, <1>2, <2>1 DEF Types, TypeOK, Recorders
<1>9. CASE DiskFails
  <2>1. /\ rec' = [rec EXCEPT !.writing = FALSE, !.lines = <<>>] /\ hand' = <<>>
        /\ thread' = "failed"
        /\ UNCHANGED <<now, sent, disk, synced, since, closedAt, hub, accepted, writtenAt>>
    BY <1>9 DEF DiskFails
  <2>2. rec' \in Recorders /\ rec'.lines = <<>>
    BY <1>1, <1>2, <2>1 DEF Recorders
  <2> QED
    BY <1>1, <1>2, <2>1, <2>2 DEF Types, TypeOK, Recorders, ThreadStates
<1>10. CASE PowerCut
  <2>1. /\ hub' = "cut" /\ hand' = <<>> /\ rec' = [rec EXCEPT !.lines = <<>>]
        /\ UNCHANGED <<now, sent, thread, synced, since, closedAt, accepted>>
        /\ disk' \in Seq(Nat) /\ writtenAt' \in Seq(Nat)
        /\ Len(writtenAt') = Len(disk') /\ synced \in 0..Len(disk')
    BY <1>1, <1>10, PowerCutKeeps
  <2>2. rec' \in Recorders /\ rec'.lines = <<>>
    BY <1>1, <1>2, <2>1 DEF Recorders
  <2> QED
    BY <1>1, <1>2, <2>1, <2>2 DEF Types, TypeOK, Recorders
<1>11. CASE UNCHANGED vars
  BY <1>1, <1>11 DEF vars, Types, TypeOK, Recorders
<1> QED
  BY <1>3, <1>4, <1>5, <1>6, <1>7, <1>8, <1>9, <1>10, <1>11 DEF Next

(* Every step keeps what the thread is at. *)
LEMMA AtWorkNext ==
    ASSUME IInv, [Next]_vars
    PROVE  AtWork'
<1>1. /\ Types /\ TypeOK /\ rec \in Recorders /\ AtWork /\ NothingReordered
  BY DEF IInv, Types
<1>2. ASSUME NEW comment \in BOOLEAN, HubSends(comment) PROVE AtWork'
  <2>1. sent + 1 \in Nat /\ rec' = Send(rec, sent + 1, comment)
    BY <1>1, <1>2 DEF HubSends, TypeOK
  <2>2. ~rec.writing => ~rec'.writing
    BY <1>1, <2>1, SendQueues DEF TypeOK
  <2> QED
    BY <1>1, <1>2, <2>2 DEF HubSends, AtWork, Up, Open, Finished
<1>3. CASE HubLooks
  BY <1>1, <1>3 DEF HubLooks, AtWork, Up, Open, Finished, Recorders
<1>4. CASE Take
  BY <1>1, <1>4 DEF Take, AtWork, Up, Open, Finished, Recorders
<1>5. CASE Write
  <2>1. /\ hand' = <<>> /\ thread' \in {"syncing", "waiting"}
        /\ UNCHANGED <<now, rec, sent, synced, closedAt, hub, accepted>>
    BY <1>1, <1>5, WriteAppends
  <2> QED
    BY <1>1, <1>5, <2>1 DEF Write, AtWork, Up, Open, Finished
<1>6. CASE TimeOut \/ Sync \/ FindClosed \/ LastSync
  BY <1>1, <1>6 DEF TimeOut, Sync, FindClosed, LastSync, AtWork, Up, Open, Finished
<1>7. CASE DiskFails
  BY <1>1, <1>7 DEF DiskFails, AtWork, Up, Open, Finished, Recorders
<1>8. CASE Close \/ Exit \/ GiveUp \/ Advance
  BY <1>1, <1>8 DEF Close, Exit, GiveUp, Advance, AtWork, Up, Open, Finished, Never,
                    TypeOK, Instants
<1>9. CASE PowerCut
  <2>1. /\ hub' = "cut" /\ hand' = <<>> /\ rec' = [rec EXCEPT !.lines = <<>>]
        /\ thread' = thread
    BY <1>1, <1>9, PowerCutKeeps
  <2> QED
    BY <1>1, <2>1 DEF AtWork, Up, Recorders
<1>10. CASE UNCHANGED vars
  BY <1>1, <1>10 DEF vars, AtWork, Up, Open, Finished
<1> QED
  BY <1>2, <1>3, <1>4, <1>5, <1>6, <1>7, <1>8, <1>9, <1>10 DEF Next

(* What is not due now is due at the next instant at the earliest. *)
LEMMA NotYet ==
    ASSUME NEW t \in Nat, NEW from \in Nat, NEW age \in Nat \ {0}, ~(t - from >= age)
    PROVE  t - from <= age /\ (t + 1) - from <= age
  OBVIOUS

(* Every step keeps the lines that wait for a sync within their time. *)
LEMMA SinceNext ==
    ASSUME IInv, [Next]_vars
    PROVE  SinceTheFirst'
<1>1. /\ Types /\ TypeOK /\ AtWork /\ NothingReordered /\ SinceTheFirst
      /\ now \in Nat /\ since \in Instants /\ Len(disk) \in Nat
      /\ synced \in 0..Len(disk) /\ SyncEvery \in Nat \ {0}
  BY LenProperties, RecorderAssumption DEF IInv, Types, TypeOK
<1>2. CASE Up' /\ UNCHANGED <<now, since, disk, synced, writtenAt, hub>>
           /\ (thread' = "waiting" => thread = "waiting")
  BY <1>1, <1>2 DEF SinceTheFirst, Up
<1>3. ASSUME NEW comment \in BOOLEAN, HubSends(comment) PROVE SinceTheFirst'
  BY <1>2, <1>3 DEF HubSends, Up
<1>4. CASE HubLooks \/ Take \/ TimeOut \/ FindClosed \/ DiskFails \/ Close
  BY <1>2, <1>4 DEF HubLooks, Take, TimeOut, FindClosed, DiskFails, Close, Up
<1>5. CASE Write
  <2>1. /\ Len(disk') = Len(disk) + 1 /\ since' = SinceFirstWrite
        /\ \A i \in 1..Len(disk) : writtenAt'[i] = writtenAt[i]
        /\ writtenAt'[Len(disk) + 1] = now
        /\ thread' = (IF Due(since)' THEN "syncing" ELSE "waiting")
        /\ now' = now /\ synced' = synced /\ Up
    BY <1>1, <1>5, WriteAppends DEF Write
  <2>2. since' \in Nat /\ since' <= now /\ since' # Never
    BY <1>1, <2>1 DEF SinceFirstWrite, SinceTheFirst, Instants, Never
  <2>3. ASSUME NEW i \in synced + 1 .. Len(disk) + 1 PROVE writtenAt'[i] >= since'
    <3>1. CASE i = Len(disk) + 1
      BY <2>1, <2>2, <3>1, <1>1
    <3>2. CASE i \in synced + 1 .. Len(disk)
      <4>1. since # Never /\ writtenAt[i] >= since /\ i \in 1..Len(disk)
        BY <1>1, <2>1, <3>2 DEF SinceTheFirst
      <4>2. since' = since
        BY <2>1, <4>1 DEF SinceFirstWrite
      <4> QED
        BY <2>1, <4>1, <4>2
    <3> QED
      BY <1>1, <3>1, <3>2
  <2>4. thread' = "waiting" => now - since' <= SyncEvery
    <3>1. ASSUME thread' = "waiting" PROVE ~(now - since' >= SyncEvery)
      BY <2>1, <2>2, <3>1 DEF Due
    <3> QED
      BY <1>1, <2>2, <3>1, NotYet
  <2> QED
    BY <2>1, <2>2, <2>3, <2>4 DEF SinceTheFirst
<1>6. CASE Sync
  BY <1>1, <1>6 DEF Sync, SinceTheFirst, Up, Instants, Never
<1>7. CASE LastSync
  BY <1>1, <1>7 DEF LastSync, SinceTheFirst, Up
<1>8. CASE Exit \/ GiveUp
  BY <1>1, <1>8 DEF Exit, GiveUp, SinceTheFirst, Up
<1>9. CASE PowerCut
  <2>1. hub' = "cut" /\ now' = now /\ since' = since
    BY <1>1, <1>9, PowerCutKeeps
  <2> QED
    BY <1>1, <2>1 DEF SinceTheFirst, Up
<1>10. CASE Advance
  <2>1. now' = now + 1 /\ UNCHANGED <<rec, thread, disk, synced, since, writtenAt, hub>>
        /\ (thread = "waiting" => ~Due(since))
    BY <1>10 DEF Advance, Stalled, Finished
  <2>2. thread = "waiting" /\ since # Never => (now + 1) - since <= SyncEvery
    BY <1>1, <2>1 DEF Due, Instants
  <2>3. since <= now + 1
    BY <1>1 DEF SinceTheFirst, Instants, Never
  <2>4. Up' => \A i \in synced' + 1 .. Len(disk') : since' # Never /\ writtenAt'[i] >= since'
    BY <1>1, <2>1 DEF SinceTheFirst, Up
  <2>5. since' <= now'
    BY <2>1, <2>3
  <2>6. ASSUME thread' = "waiting", since' # Never PROVE now' - since' <= SyncEvery
    <3>1. (now + 1) - since <= SyncEvery
      BY <2>1, <2>2, <2>6
    <3>2. now' = now + 1 /\ since' = since
      BY <2>1
    <3> QED
      BY <3>1, <3>2, Zenon
  <2> QED
    BY <2>4, <2>5, <2>6 DEF SinceTheFirst
<1>11. CASE UNCHANGED vars
  BY <1>1, <1>11 DEF vars, SinceTheFirst, Up
<1> QED
  BY <1>3, <1>4, <1>5, <1>6, <1>7, <1>8, <1>9, <1>10, <1>11 DEF Next

(* Every step keeps the lines in their order, on their way to the disk. *)
LEMMA OrderNext ==
    ASSUME IInv, [Next]_vars
    PROVE  NothingReordered'
<1>1. /\ Types /\ TypeOK /\ AtWork /\ NothingReordered /\ rec \in Recorders
      /\ disk \in Seq(Nat) /\ hand \in Seq(Nat) /\ rec.lines \in Seq(Nat)
      /\ accepted \in Seq(Nat) /\ disk \o hand \in Seq(Nat)
  BY ConcatProperties DEF IInv, Types, TypeOK
<1>2. IsPrefix(disk, accepted)
  BY <1>1, DiskIsAPrefix
<1>3. ASSUME NEW comment \in BOOLEAN, HubSends(comment) PROVE NothingReordered'
  <2>1. /\ sent + 1 \in Nat /\ UNCHANGED <<disk, hand, thread, hub>>
        /\ rec' = Send(rec, sent + 1, comment)
        /\ accepted' = IF Takes(rec) THEN Append(accepted, sent + 1) ELSE accepted
    BY <1>1, <1>3 DEF HubSends, TypeOK
  <2>2. /\ rec'.lines = IF Takes(rec) THEN Append(rec.lines, sent + 1) ELSE rec.lines
        /\ ~rec.writing => ~Takes(rec)
    BY <1>1, <2>1, SendQueues DEF TypeOK
  <2>3. CASE ~Takes(rec)
    BY <1>1, <2>1, <2>2, <2>3 DEF NothingReordered, Up
  <2>4. CASE Takes(rec)
    <3>1. Up /\ thread # "failed"
      BY <1>1, <1>3, <2>2, <2>4 DEF AtWork, HubSends
    <3>2. accepted = (disk \o hand) \o rec.lines
      BY <1>1, <3>1 DEF NothingReordered
    <3>3. Append(rec.lines, sent + 1) = rec.lines \o <<sent + 1>>
          /\ Append(accepted, sent + 1) = accepted \o <<sent + 1>>
      BY <1>1, <2>1, AppendIsJoin
    <3>4. <<sent + 1>> \in Seq(Nat)
      BY <2>1
    <3>5. ((disk \o hand) \o rec.lines) \o <<sent + 1>>
             = (disk \o hand) \o (rec.lines \o <<sent + 1>>)
      BY <1>1, <3>4, ConcatThrice, ZenonT(60)
    <3>6. accepted' = (disk \o hand) \o rec'.lines
      BY <2>1, <2>2, <2>4, <3>2, <3>3, <3>5, Zenon
    <3> QED
      BY <2>1, <3>1, <3>6 DEF NothingReordered, Up
  <2> QED
    BY <2>3, <2>4
<1>4. CASE HubLooks
  BY <1>1, <1>4 DEF HubLooks, NothingReordered, Up, Recorders
<1>5. CASE Take
  <2>1. /\ Up /\ thread = "waiting" /\ hand = <<>> /\ rec.lines # <<>>
        /\ thread' = "writing" /\ hand' = <<Head(rec.lines)>>
        /\ rec'.lines = Tail(rec.lines) /\ UNCHANGED <<disk, accepted, hub>>
    BY <1>1, <1>5 DEF Take, AtWork, Recorders
  <2>2. accepted = (disk \o hand) \o rec.lines
    BY <1>1, <2>1 DEF NothingReordered
  <2>3. /\ <<Head(rec.lines)>> \in Seq(Nat) /\ Tail(rec.lines) \in Seq(Nat)
        /\ rec.lines = <<Head(rec.lines)>> \o Tail(rec.lines)
    BY <1>1, <2>1, HeadThenTail
  <2>4. disk \o hand = disk
    BY <1>1, <2>1, ConcatEmptySeq
  <2>5. (disk \o <<Head(rec.lines)>>) \o Tail(rec.lines)
           = disk \o (<<Head(rec.lines)>> \o Tail(rec.lines))
    <3>1. disk \in Seq(Nat)
      BY <1>1
    <3>2. \A s, t, u \in Seq(Nat) : (s \o t) \o u = s \o (t \o u)
      BY ConcatThrice
    <3>3. <<Head(rec.lines)>> \in Seq(Nat) /\ Tail(rec.lines) \in Seq(Nat)
      BY <2>3
    <3> QED
      BY <3>1, <3>2, <3>3, Zenon
  <2>6. accepted' = (disk' \o hand') \o rec'.lines
    BY <2>1, <2>2, <2>3, <2>4, <2>5, Zenon
  <2> QED
    BY <2>1, <2>6 DEF NothingReordered, Up
<1>6. CASE Write
  <2>1. /\ disk' = disk \o hand /\ hand' = <<>> /\ disk' \in Seq(Nat)
        /\ UNCHANGED <<rec, hub, accepted>> /\ thread' # "failed"
        /\ Up /\ thread # "failed"
    BY <1>1, <1>6, WriteAppends DEF Write
  <2>2. disk' \o hand' = disk \o hand
    BY <2>1, ConcatEmptySeq
  <2>3. accepted = (disk \o hand) \o rec.lines
    BY <1>1, <2>1 DEF NothingReordered
  <2>4. accepted' = (disk' \o hand') \o rec'.lines
    BY <2>1, <2>2, <2>3, Zenon
  <2> QED
    BY <2>1, <2>4 DEF NothingReordered, Up
<1>7. CASE TimeOut \/ Sync \/ FindClosed \/ LastSync \/ Close \/ Advance
  <2>1. /\ UNCHANGED <<disk, hand, rec, accepted, hub>>
        /\ thread' = "failed" <=> thread = "failed"
    BY <1>7 DEF TimeOut, Sync, FindClosed, LastSync, Close, Advance
  <2> QED
    BY <1>1, <2>1 DEF NothingReordered, Up
<1>8. CASE DiskFails \/ Exit \/ GiveUp
  <2>1. disk' = disk /\ accepted' = accepted /\ ~(Up' /\ thread' # "failed")
    BY <1>8 DEF DiskFails, Exit, GiveUp, Up
  <2> QED
    BY <1>2, <2>1 DEF NothingReordered
<1>9. CASE PowerCut
  <2>1. IsPrefix(disk', accepted) /\ accepted' = accepted /\ hub' = "cut"
    BY <1>1, <1>9, PowerCutKeeps
  <2> QED
    BY <2>1 DEF NothingReordered, Up
<1>10. CASE UNCHANGED vars
  BY <1>1, <1>10 DEF vars, NothingReordered, Up
<1> QED
  BY <1>3, <1>4, <1>5, <1>6, <1>7, <1>8, <1>9, <1>10 DEF Next

(* The next step keeps every part of the invariant. *)
LEMMA NextInv == IInv /\ [Next]_vars => IInv'
  BY TypesNext, AtWorkNext, SinceNext, OrderNext DEF IInv

-----------------------------------------------------------------------------
(* The invariant holds of every reachable state, for every room, wait and bound. *)
THEOREM InvariantHolds == Spec => []IInv
  BY InitInv, NextInv, PTL DEF Spec

(* The queue never holds more than RECORD_QUEUE lines, and no line beyond the disk is
   taken for synced. *)
THEOREM TypeCorrect == Spec => []TypeOK
<1>1. IInv => TypeOK
  BY DEF IInv, Types
<1> QED
  BY <1>1, InvariantHolds, PTL

(* Lines reach the disk in the order they were sent, each once, none between lost. *)
THEOREM InOrder == Spec => []NothingReordered
<1>1. IInv => NothingReordered
  BY DEF IInv
<1> QED
  BY <1>1, InvariantHolds, PTL

(* A line is synced SYNC_EVERY after it was written, unless the disk stalls. *)
THEOREM Synced == Spec => []SyncedOnTime
<1>1. ASSUME IInv, Up, thread = "waiting", NEW i \in synced + 1 .. Len(disk)
      PROVE  now - writtenAt[i] <= SyncEvery
  <2>1. /\ since # Never /\ writtenAt[i] >= since /\ now - since <= SyncEvery
        /\ now \in Nat /\ since \in Instants /\ Len(disk) \in Nat /\ synced \in Nat
        /\ Len(writtenAt) = Len(disk) /\ writtenAt \in Seq(Nat) /\ SyncEvery \in Nat
    BY <1>1, LenProperties, RecorderAssumption DEF IInv, Types, TypeOK, SinceTheFirst
  <2>2. writtenAt[i] \in Nat
    BY <2>1, ElementOfSeq
  <2> QED
    BY <2>1, <2>2 DEF Instants
<1>2. IInv => SyncedOnTime
  BY <1>1 DEF SyncedOnTime
<1> QED
  BY <1>2, InvariantHolds, PTL

-----------------------------------------------------------------------------
(* A step of the hub, its thread or the disk is one of the log, or none. *)
LEMMA StepRefines ==
    ASSUME IInv, IInv', [Next]_vars
    PROVE  [Promise!Next]_<<accepted, synced, hub = "exited" /\ thread = "done">>
<1> DEFINE closed == hub = "exited" /\ thread = "done"
<1>1. /\ Types /\ TypeOK /\ AtWork /\ NothingReordered /\ rec \in Recorders
      /\ accepted \in Seq(Nat) /\ Len(accepted) \in Nat /\ Len(disk) \in Nat
      /\ synced \in 0..Len(disk) /\ Len(disk) <= Len(accepted)
  BY LenProperties, DiskIsAPrefix DEF IInv, Types, TypeOK
<1>2. CASE UNCHANGED <<accepted, synced>> /\ closed' = closed
  BY <1>2
<1>3. ASSUME NEW comment \in BOOLEAN, HubSends(comment)
      PROVE  [Promise!Next]_<<accepted, synced, hub = "exited" /\ thread = "done">>
  <2>1. /\ sent + 1 \in Nat /\ UNCHANGED <<synced, thread, hub>> /\ hub = "running"
        /\ accepted' = IF Takes(rec) THEN Append(accepted, sent + 1) ELSE accepted
    BY <1>1, <1>3 DEF HubSends, TypeOK, Up
  <2>2. CASE ~Takes(rec)
    BY <1>2, <2>1, <2>2
  <2>3. CASE Takes(rec)
    <3>1. /\ Len(accepted') = Len(accepted) + 1
          /\ SubSeq(accepted', 1, Len(accepted)) = accepted
      BY <1>1, <2>1, <2>3, AppendKeeps
    <3>2. Promise!Accept
      BY <2>1, <3>1 DEF Promise!Accept
    <3> QED
      BY <3>2 DEF Promise!Next
  <2> QED
    BY <2>2, <2>3
<1>4. CASE Sync \/ LastSync
  <2>1. synced' = Len(disk) /\ accepted' = accepted /\ closed' = closed
    BY <1>4 DEF Sync, LastSync, Up
  <2>2. synced' \in synced..Len(accepted)
    BY <1>1, <2>1
  <2>3. Promise!Secure
    BY <2>1, <2>2 DEF Promise!Secure
  <2> QED
    BY <2>3 DEF Promise!Next
<1>5. CASE Exit
  <2>1. UNCHANGED <<accepted, synced, thread>> /\ Up /\ hub' = "exited"
    BY <1>5 DEF Exit
  <2>2. CASE thread # "done"
    BY <1>2, <2>1, <2>2
  <2>3. CASE thread = "done"
    <3>1. synced = Len(disk) /\ hand = <<>> /\ rec.lines = <<>>
      BY <1>1, <2>1, <2>3 DEF AtWork
    <3>2. accepted = disk
      <4>1. accepted = (disk \o <<>>) \o <<>>
        BY <1>1, <2>1, <2>3, <3>1 DEF NothingReordered
      <4>2. disk \o <<>> = disk
        BY <1>1, ConcatEmptySeq DEF TypeOK
      <4> QED
        BY <4>1, <4>2
    <3>3. Promise!Close
      BY <2>1, <2>3, <3>1, <3>2 DEF Promise!Close, Up
    <3> QED
      BY <3>3 DEF Promise!Next
  <2> QED
    BY <2>2, <2>3
<1>6. CASE PowerCut
  <2>1. UNCHANGED <<accepted, synced>> /\ hub' = "cut" /\ hub = "running"
    BY <1>1, <1>6, PowerCutKeeps DEF PowerCut, Up
  <2> QED
    BY <1>2, <2>1
<1>7. CASE \/ HubLooks \/ Take \/ Write \/ TimeOut \/ FindClosed \/ DiskFails
           \/ Close \/ GiveUp \/ Advance
  <2>1. UNCHANGED <<accepted, synced>> /\ hub = "running" /\ hub' # "exited"
    BY <1>7 DEF HubLooks, Take, Write, TimeOut, FindClosed, DiskFails, Close, GiveUp,
                Advance, Up
  <2> QED
    BY <1>2, <2>1
<1>8. CASE UNCHANGED vars
  BY <1>2, <1>8 DEF vars
<1> QED
  BY <1>3, <1>4, <1>5, <1>6, <1>7, <1>8 DEF Next

(* The hub's queue, its thread and the disk keep the promise of DurableLog: what is
   safe from a power cut grows, in order, and a clean exit leaves all of it safe. *)
THEOREM Durable == Spec => IsDurableLog
<1>1. Init => Promise!Init
  BY DEF Init, Promise!Init
<1> QED
  BY <1>1, StepRefines, InvariantHolds, PTL DEF Spec, IsDurableLog, Promise!Spec
================================================================================
