-------------------------------- MODULE Recorder --------------------------------
(***************************************************************************)
(* A recording on its way to the disk: the Recorder of src/hub.rs, the     *)
(* thread that writes and syncs (`record`), what a power cut leaves, and   *)
(* the wait at exit.                                                       *)
(*                                                                         *)
(* A line is a number, in the order the hub sends them.  A write or a sync *)
(* may take any time; between them the thread wakes on time.               *)
(***************************************************************************)
EXTENDS RecordQueue, SequencesExt

CONSTANTS
    SyncEvery,     \* SYNC_EVERY: a line is synced this long after it is written
    ShutdownWait,  \* SHUTDOWN_WAIT: how long the hub waits for the disk at exit
    MaxLines,      \* bound: lines sent in one behaviour
    Horizon        \* bound: behaviours are followed up to this instant

VARIABLES
    now,        \* the clock
    rec,        \* the hub's Recorder and the queue (RecordQueue)
    sent,       \* lines the hub has sent so far
    thread,     \* what the thread is doing
    hand,       \* the line the thread is writing, if any
    disk,       \* lines written and flushed, in order
    synced,     \* how many of them have been synced
    since,      \* unsynced_since
    closedAt,   \* when the hub closed the queue to exit
    hub,        \* "running"; "exited" after the thread finished; "gaveup" on it; "cut" by a power cut
    accepted,   \* history: the lines the queue has taken
    writtenAt   \* history: when each line of disk was written

vars == <<now, rec, sent, thread, hand, disk, synced, since, closedAt, hub, accepted, writtenAt>>

ASSUME RecorderAssumption ==
    /\ SyncEvery \in Nat \ {0}
    /\ ShutdownWait \in Nat
    /\ MaxLines \in Nat /\ Horizon \in Nat

-----------------------------------------------------------------------------
Never == -1
Instants == Nat \cup {Never}

(* waiting: in recv_timeout.  writing, syncing: in the disk.  closing: the last
   flush and sync, once the queue is closed and empty.  done, failed: over. *)
ThreadStates == {"waiting", "writing", "syncing", "closing", "done", "failed"}
Stalled == thread \in {"writing", "syncing", "closing"}
Finished == thread \in {"done", "failed"}
Up == hub = "running"
Open == closedAt = Never

Init ==
    /\ now = 0
    /\ rec = NewRecorder
    /\ sent = 0
    /\ thread = "waiting"
    /\ hand = <<>>
    /\ disk = <<>> /\ synced = 0
    /\ since = Never
    /\ closedAt = Never
    /\ hub = "running"
    /\ accepted = <<>> /\ writtenAt = <<>>

-----------------------------------------------------------------------------
(* The hub sends a line, received or a comment: Recorder::record or send. *)
HubSends(comment) ==
    /\ Up /\ Open /\ rec.held /\ sent < MaxLines
    /\ sent' = sent + 1
    /\ rec' = Send(rec, sent + 1, comment)
    /\ accepted' = IF Takes(rec) THEN Append(accepted, sent + 1) ELSE accepted
    /\ UNCHANGED <<now, thread, hand, disk, synced, since, closedAt, hub, writtenAt>>

(* The hub's turn asks whether the queue has caught up: Recorder::caught_up. *)
HubLooks ==
    /\ Up /\ Open /\ rec.held /\ rec.caughtUp
    /\ rec' = [rec EXCEPT !.caughtUp = FALSE]
    /\ UNCHANGED <<now, sent, thread, hand, disk, synced, since, closedAt, hub, accepted, writtenAt>>

(* recv_timeout returns a line. *)
Take ==
    /\ Up /\ thread = "waiting" /\ rec.lines # <<>>
    /\ thread' = "writing"
    /\ hand' = <<Head(rec.lines)>>
    /\ rec' = [rec EXCEPT !.lines = Tail(@)]
    /\ UNCHANGED <<now, sent, disk, synced, since, closedAt, hub, accepted, writtenAt>>

(* Mutation: every write starts the wait for the sync anew. *)
SinceLastWrite == now

(* unsynced_since.get_or_insert_with(now), after a write. *)
SinceFirstWrite == IF since = Never THEN now ELSE since

Due(t) == t # Never /\ now - t >= SyncEvery

(* The line is written and flushed; the sync follows when it is due. *)
Write ==
    /\ Up /\ thread = "writing"
    /\ disk' = disk \o hand
    /\ writtenAt' = Append(writtenAt, now)
    /\ hand' = <<>>
    /\ since' = SinceFirstWrite
    /\ thread' = IF Due(since') THEN "syncing" ELSE "waiting"
    /\ UNCHANGED <<now, rec, sent, synced, closedAt, hub, accepted>>

(* recv_timeout times out with a sync due. *)
TimeOut ==
    /\ Up /\ thread = "waiting" /\ rec.lines = <<>> /\ Open /\ Due(since)
    /\ thread' = "syncing"
    /\ UNCHANGED <<now, rec, sent, hand, disk, synced, since, closedAt, hub, accepted, writtenAt>>

(* sync_data returns. *)
Sync ==
    /\ Up /\ thread = "syncing"
    /\ synced' = Len(disk) /\ since' = Never
    /\ thread' = "waiting"
    /\ UNCHANGED <<now, rec, sent, hand, disk, closedAt, hub, accepted, writtenAt>>

(* Mutation: the last lines are flushed, not synced. *)
LastFlushOnly ==
    /\ Up /\ thread = "closing"
    /\ thread' = "done"
    /\ UNCHANGED <<now, rec, sent, hand, disk, synced, since, closedAt, hub, accepted, writtenAt>>

(* The queue is closed and empty. *)
FindClosed ==
    /\ Up /\ thread = "waiting" /\ rec.lines = <<>> /\ ~Open
    /\ thread' = "closing"
    /\ UNCHANGED <<now, rec, sent, hand, disk, synced, since, closedAt, hub, accepted, writtenAt>>

(* The last flush and sync, and the thread ends. *)
LastSync ==
    /\ Up /\ thread = "closing"
    /\ synced' = Len(disk)
    /\ thread' = "done"
    /\ UNCHANGED <<now, rec, sent, hand, disk, since, closedAt, hub, accepted, writtenAt>>

(* Mutation: a failed write is passed over. *)
DiskFailsOn ==
    /\ Up /\ Stalled
    /\ thread' = "waiting"
    /\ hand' = <<>>
    /\ UNCHANGED <<now, rec, sent, disk, synced, since, closedAt, hub, accepted, writtenAt>>

(* A write or a sync fails: the thread stops, and the queue with it. *)
DiskFails ==
    /\ Up /\ Stalled
    /\ thread' = "failed"
    /\ hand' = <<>>
    /\ rec' = [rec EXCEPT !.writing = FALSE, !.lines = <<>>]
    /\ UNCHANGED <<now, sent, disk, synced, since, closedAt, hub, accepted, writtenAt>>

(* Drop for Recorder: the hub is going, and closes the queue. *)
Close ==
    /\ Up /\ Open /\ rec.held
    /\ closedAt' = now
    /\ UNCHANGED <<now, rec, sent, thread, hand, disk, synced, since, hub, accepted, writtenAt>>

(* `finished` disconnects: the thread is over, and the hub exits. *)
Exit ==
    /\ Up /\ ~Open /\ Finished
    /\ hub' = "exited"
    /\ UNCHANGED <<now, rec, sent, thread, hand, disk, synced, since, closedAt, accepted, writtenAt>>

(* `finished` times out: the hub exits, and the thread with it. *)
GiveUp ==
    /\ Up /\ ~Open /\ ~Finished /\ now - closedAt >= ShutdownWait
    /\ hub' = "gaveup"
    /\ UNCHANGED <<now, rec, sent, thread, hand, disk, synced, since, closedAt, accepted, writtenAt>>

(* The power goes: of the lines written, at least the synced ones stay, and any
   of the others that the disk had reached. *)
PowerCut ==
    /\ Up
    /\ hub' = "cut"
    /\ \E n \in synced..Len(disk) :
        /\ disk' = SubSeq(disk, 1, n)
        /\ writtenAt' = SubSeq(writtenAt, 1, n)
    /\ hand' = <<>>
    /\ rec' = [rec EXCEPT !.lines = <<>>]
    /\ UNCHANGED <<now, sent, thread, synced, since, closedAt, accepted>>

(* Time passes while the thread is in the disk, or has nothing to do yet. *)
Advance ==
    /\ Up /\ now < Horizon
    /\ Stalled \/ Finished \/ (rec.lines = <<>> /\ Open /\ ~Due(since))
    /\ ~Open => now - closedAt < ShutdownWait
    /\ now' = now + 1
    /\ UNCHANGED <<rec, sent, thread, hand, disk, synced, since, closedAt, hub, accepted, writtenAt>>

Next ==
    \/ \E comment \in BOOLEAN : HubSends(comment)
    \/ HubLooks
    \/ Take \/ Write \/ TimeOut \/ Sync \/ FindClosed \/ LastSync \/ DiskFails
    \/ Close \/ Exit \/ GiveUp \/ PowerCut
    \/ Advance

Spec == Init /\ [][Next]_vars

-----------------------------------------------------------------------------
TypeOK ==
    /\ now \in Nat /\ sent \in Nat /\ synced \in 0..Len(disk)
    /\ thread \in ThreadStates
    /\ hub \in {"running", "exited", "gaveup", "cut"}
    /\ since \in Instants /\ closedAt \in Instants
    /\ rec.lines \in Seq(Nat) /\ Len(rec.lines) <= RecordLimit
    /\ rec.writing \in BOOLEAN /\ rec.held \in BOOLEAN
    /\ hand \in Seq(Nat) /\ disk \in Seq(Nat) /\ accepted \in Seq(Nat)
    /\ Len(writtenAt) = Len(disk)

(* Every line the queue took is on the disk, in the thread's hand or still
   queued, in the order the hub sent them, none twice: until the disk fails or
   the power goes, after which what is on the disk is the beginning of it.  Lines
   are only ever lost where the queue was full. *)
NothingReordered ==
    IF Up /\ thread # "failed" THEN accepted = disk \o hand \o rec.lines
                               ELSE IsPrefix(disk, accepted)

(* A line on the disk is synced SyncEvery after it was written, whether more
   lines keep coming or none do, unless the disk itself has stalled. *)
SyncedOnTime ==
    Up /\ thread = "waiting" =>
        \A i \in synced + 1 .. Len(disk) : now - writtenAt[i] <= SyncEvery

(* What is safe from a power cut only grows, in the order the lines were sent,
   and nothing is accepted after a clean exit. *)
Promise == INSTANCE DurableLog
    WITH safe <- synced, closed <- hub = "exited" /\ thread = "done"
IsDurableLog == Promise!Spec
=============================================================================
