-------------------------------- MODULE Sources --------------------------------
(***************************************************************************)
(* The readers of src/source.rs: a thread for each serial port, a task for *)
(* each TCP link and each recording, and the bounded channel by which they *)
(* hand the hub their events.  A reader waits in five places: to open, to  *)
(* read, for a record's time, for room in the channel, and to try again.   *)
(* The hub may go at any moment.                                           *)
(*                                                                         *)
(* A wire's line is told by its number among those read from it; blank     *)
(* lines are read past, which changes nothing here, and a line longer than *)
(* MAX_LINE counts as several.  A recording is a sequence of stamps, with  *)
(* Skip for a record that is a comment, blank or without a stamp.          *)
(***************************************************************************)
EXTENDS Naturals, Sequences, FiniteSets, FiniteSetsExt

CONSTANTS
    Sources,     \* the sources of the command line
    Recordings,  \* what a recording may hold
    Skip,        \* a record that is not one
    Room,        \* room in the channel of `run`
    Retry,       \* RETRY: how long a wire is left before it is tried again
    MaxLines,    \* bound: lines read from a wire
    MaxFails     \* bound: times a wire fails

VARIABLES
    kind,       \* Spec: what each source is
    hub,        \* "up", or "gone" with its end of the channel
    queue,      \* the channel
    at,         \* where each reader is
    hand,       \* the event each has to send
    read,       \* records read of a recording, lines read of a wire
    wait,       \* how much of RETRY is left
    recording,  \* what is in each recording
    elapsed,    \* time since a recording was opened, while it is played, up to its last offset
    fails,      \* bound: how often each wire has failed
    told        \* history: the last event and the last line the hub has taken of each

vars == <<kind, hub, queue, at, hand, read, wait, recording, elapsed, fails, told>>

Serials == {s \in Sources : kind[s] = "serial"}
Replays == {s \in Sources : kind[s] = "replay"}
Wires == Sources \ Replays
Tasks == Sources \ Serials

ASSUME SourcesAssumption ==
    /\ Room \in Nat \ {0} /\ Retry \in Nat \ {0}
    /\ Skip \notin Nat
    /\ \A r \in Recordings : r \in Seq(Nat \cup {Skip})

-----------------------------------------------------------------------------
Event(s, what, line) == [source |-> s, kind |-> what, line |-> line]
NoEvent == [source |-> "nobody", kind |-> "nothing", line |-> 0]

(* The records that count among the first n. *)
LinesIn(r, n) == Cardinality({i \in 1..n : r[i] # Skip})
Lines(r) == LinesIn(r, Len(r))

(* The stamp of a recording's line n. *)
Stamp(r, n) == r[CHOOSE i \in DOMAIN r : r[i] # Skip /\ LinesIn(r, i) = n]

(* Mutation: every stamp is taken for the first. *)
OffsetFromItself(r, n) == 0

(* `offset`: when line n is due, the saturating difference from the first stamp. *)
Offset(r, n) == IF Stamp(r, n) < Stamp(r, 1) THEN 0 ELSE Stamp(r, n) - Stamp(r, 1)

-----------------------------------------------------------------------------
Go(s, place) == at' = [at EXCEPT ![s] = place]

(* The reader s now has the event to send. *)
Send(s, what, line) ==
    /\ Go(s, "sending")
    /\ hand' = [hand EXCEPT ![s] = Event(s, what, line)]

(* A port or a link opens: Event::Connected is the first thing sent. *)
Open(s) ==
    /\ s \in Wires /\ at[s] = "opening"
    /\ Send(s, "connected", read[s])
    /\ UNCHANGED <<kind, hub, queue, read, wait, recording, elapsed, fails, told>>

(* A wire cannot be opened; or it breaks, by an error or at its end. *)
Fail(s) ==
    /\ s \in Wires /\ at[s] \in {"opening", "reading"}
    /\ fails[s] < MaxFails
    /\ fails' = [fails EXCEPT ![s] = @ + 1]
    /\ Send(s, "error", read[s])
    /\ UNCHANGED <<kind, hub, queue, read, wait, recording, elapsed, told>>

ReadLine(s) ==
    /\ s \in Wires /\ at[s] = "reading"
    /\ read[s] < MaxLines
    /\ read' = [read EXCEPT ![s] = @ + 1]
    /\ Send(s, "line", read[s] + 1)
    /\ UNCHANGED <<kind, hub, queue, wait, recording, elapsed, fails, told>>

(* A recording is opened, a regular file, and its clock starts. *)
OpenFile(s) ==
    /\ s \in Replays /\ at[s] = "opening"
    /\ Go(s, "reading")
    /\ UNCHANGED <<kind, hub, queue, hand, read, wait, recording, elapsed, fails, told>>

(* It cannot be opened, is no regular file, or a read of it fails. *)
GiveUp(s) ==
    /\ s \in Replays /\ at[s] \in {"opening", "reading"}
    /\ Send(s, "error", LinesIn(recording[s], read[s]))
    /\ UNCHANGED <<kind, hub, queue, read, wait, recording, elapsed, fails, told>>

(* The next record: one that counts is held until its time. *)
ReadRecord(s) ==
    /\ s \in Replays /\ at[s] = "reading"
    /\ read[s] < Len(recording[s])
    /\ read' = [read EXCEPT ![s] = @ + 1]
    /\ IF recording[s][read[s] + 1] = Skip
       THEN UNCHANGED <<at, hand>>
       ELSE /\ Go(s, "pacing")
            /\ hand' = [hand EXCEPT ![s] =
                           Event(s, "line", LinesIn(recording[s], read[s] + 1))]
    /\ UNCHANGED <<kind, hub, queue, wait, recording, elapsed, fails, told>>

(* sleep_until is over. *)
Play(s) ==
    /\ at[s] = "pacing"
    /\ elapsed[s] >= Offset(recording[s], hand[s].line)
    /\ Go(s, "sending")
    /\ UNCHANGED <<kind, hub, queue, hand, read, wait, recording, elapsed, fails, told>>

ReachEnd(s) ==
    /\ s \in Replays /\ at[s] = "reading"
    /\ read[s] = Len(recording[s])
    /\ Send(s, "ended", LinesIn(recording[s], read[s]))
    /\ UNCHANGED <<kind, hub, queue, read, wait, recording, elapsed, fails, told>>

(* Mutation: the reader of a wire returns once it has told of a failure. *)
OnwardNever(s) == IF hand[s].kind \in {"connected", "line"} THEN "reading" ELSE "stopped"

(* Where a reader goes on once its event is sent. *)
Onward(s) ==
    CASE hand[s].kind \in {"connected", "line"} -> "reading"
      [] hand[s].kind = "error" /\ s \in Wires -> "retrying"
      [] hand[s].kind \in {"error", "ended"} /\ s \in Replays -> "stopped"

(* Mutation: a full channel loses the event, as try_send would. *)
PutOrDrop(s) ==
    /\ at[s] = "sending" /\ hub = "up"
    /\ queue' = IF Len(queue) < Room THEN Append(queue, hand[s]) ELSE queue
    /\ hand' = [hand EXCEPT ![s] = NoEvent]
    /\ Go(s, Onward(s))
    /\ wait' = [wait EXCEPT ![s] = IF Onward(s) = "retrying" THEN Retry ELSE 0]
    /\ UNCHANGED <<kind, hub, read, recording, elapsed, fails, told>>

(* send and blocking_send wait for room. *)
Put(s) ==
    /\ at[s] = "sending" /\ hub = "up"
    /\ Len(queue) < Room
    /\ queue' = Append(queue, hand[s])
    /\ hand' = [hand EXCEPT ![s] = NoEvent]
    /\ Go(s, Onward(s))
    /\ wait' = [wait EXCEPT ![s] = IF Onward(s) = "retrying" THEN Retry ELSE 0]
    /\ UNCHANGED <<kind, hub, read, recording, elapsed, fails, told>>

(* They fail when the hub has gone, which ends every reader. *)
PutFails(s) ==
    /\ at[s] = "sending" /\ hub = "gone"
    /\ Go(s, "stopped")
    /\ hand' = [hand EXCEPT ![s] = NoEvent]
    /\ UNCHANGED <<kind, hub, queue, read, wait, recording, elapsed, fails, told>>

TryAgain(s) ==
    /\ at[s] = "retrying" /\ wait[s] = 0
    /\ Go(s, "opening")
    /\ UNCHANGED <<kind, hub, queue, hand, read, wait, recording, elapsed, fails, told>>

(* Mutation: a task that reads does not ask whether the hub is there. *)
FindGoneBetween(s) ==
    /\ s \in Tasks /\ hub = "gone"
    /\ at[s] \in {"opening", "retrying", "pacing"}
    /\ s \in Wires \/ at[s] # "opening"
    /\ Go(s, "stopped")
    /\ hand' = [hand EXCEPT ![s] = NoEvent]
    /\ UNCHANGED <<kind, hub, queue, read, wait, recording, elapsed, fails, told>>

(* events.closed() and is_closed(): a task that waits for anything but its file's
   opening finds the hub gone.  A thread does not. *)
FindGone(s) ==
    /\ s \in Tasks /\ hub = "gone"
    /\ at[s] \in {"opening", "reading", "retrying", "pacing"}
    /\ s \in Wires \/ at[s] # "opening"
    /\ Go(s, "stopped")
    /\ hand' = [hand EXCEPT ![s] = NoEvent]
    /\ UNCHANGED <<kind, hub, queue, read, wait, recording, elapsed, fails, told>>

-----------------------------------------------------------------------------
(* The hub takes the next event. *)
Take ==
    /\ hub = "up" /\ queue # <<>>
    /\ queue' = Tail(queue)
    /\ LET e == Head(queue)
       IN told' = [told EXCEPT ![e.source] = [last |-> e.kind, line |-> e.line]]
    /\ UNCHANGED <<kind, hub, at, hand, read, wait, recording, elapsed, fails>>

(* It ends, and what is in the channel is dropped with it. *)
Leave ==
    /\ hub = "up"
    /\ hub' = "gone"
    /\ queue' = <<>>
    /\ UNCHANGED <<kind, at, hand, read, wait, recording, elapsed, fails, told>>

Less(n) == IF n = 0 THEN 0 ELSE n - 1

(* Its clock is followed while a line of the recording is not due yet. *)
Playing(s) ==
    /\ s \in Replays /\ at[s] \notin {"opening", "stopped"}
    /\ \E n \in 1..Lines(recording[s]) : elapsed[s] < Offset(recording[s], n)

Advance ==
    /\ wait' = [s \in Sources |-> Less(wait[s])]
    /\ elapsed' = [s \in Sources |-> IF Playing(s) THEN elapsed[s] + 1 ELSE elapsed[s]]
    /\ UNCHANGED <<kind, hub, queue, at, hand, read, recording, fails, told>>

Init ==
    /\ kind \in [Sources -> {"serial", "tcp", "replay"}]
    /\ hub = "up" /\ queue = <<>>
    /\ at = [s \in Sources |-> "opening"]
    /\ hand = [s \in Sources |-> NoEvent]
    /\ read = [s \in Sources |-> 0]
    /\ wait = [s \in Sources |-> 0]
    /\ recording \in {r \in [Sources -> Recordings \cup {<<>>}] :
                        \A s \in Sources : r[s] \in IF s \in Replays THEN Recordings ELSE {<<>>}}
    /\ elapsed = [s \in Sources |-> 0]
    /\ fails = [s \in Sources |-> 0]
    /\ told = [s \in Sources |-> [last |-> "nothing", line |-> 0]]

(* What a reader does by itself: all but to read what a wire may send, to fail where
   it may go on, and to wait for room. *)
Moves(s) ==
    \/ at[s] = "opening" /\ (Open(s) \/ Fail(s) \/ OpenFile(s) \/ GiveUp(s))
    \/ ReadRecord(s) \/ ReachEnd(s) \/ Play(s) \/ TryAgain(s)
    \/ PutFails(s) \/ FindGone(s)

Next ==
    \/ Take \/ Leave \/ Advance
    \/ \E s \in Sources :
          \/ Open(s) \/ Fail(s) \/ ReadLine(s)
          \/ OpenFile(s) \/ GiveUp(s) \/ ReadRecord(s) \/ Play(s) \/ ReachEnd(s)
          \/ Put(s) \/ PutFails(s) \/ TryAgain(s) \/ FindGone(s)

(* The hub takes events as long as it runs, and time passes.  A reader that can go on
   does: an open ends, one way or the other, a file is read on, a timer that is over is
   noticed, and so is a hub that has gone.  Room in the channel is given in the order it
   was asked for, so a reader that waits gets its turn however many lines the others
   have.  A wire need never send anything, and a hub need never go. *)
Fairness ==
    /\ WF_vars(Take) /\ WF_vars(Advance)
    /\ \A s \in Sources : WF_vars(Moves(s)) /\ SF_vars(Put(s))

Spec == Init /\ [][Next]_vars /\ Fairness

-----------------------------------------------------------------------------
(* Whatever the readers, the channel and the wires do, the hub is told of each source
   what Links says: a line only of a link that is up, every line once and in order,
   nothing after the end.  A full channel makes a reader wait and loses nothing, and the
   events of two sources mix without those of one changing places. *)
IsLinks == INSTANCE Links
FollowsLinks == IsLinks!Spec

(* How many lines of a recording the channel has been given. *)
Played(s) ==
    LET sent == {told[s].line} \cup
                {queue[i].line : i \in {j \in 1..Len(queue) : queue[j].source = s}}
    IN Max(sent)

(* A recording is never played ahead of itself: when a line is handed over, at least
   as much time has passed since the file was opened as between its stamp and that of
   the first line, and that of any line before it, though stamps may go back, repeat
   or start late. *)
NoneEarly ==
    hub = "up" =>
        \A s \in Replays :
            LET t(n) == Stamp(recording[s], n)
            IN \A n \in 1..Played(s) : t(n) <= t(1) + elapsed[s]

(* A port's thread that has lost its hub never goes back to wait for a line. *)
NeverBack ==
    [][\A s \in Serials : hub = "gone" /\ at'[s] = "reading" => at[s] = "reading"]_vars

(* Once the hub has gone every task comes to an end, wherever it waits; a port's
   thread is left waiting for a line at most, and never goes back to wait for one. *)
StopsWithHub ==
    /\ \A s \in Sources :
          (hub = "gone") ~> (at[s] = "stopped" \/ (s \in Serials /\ at[s] = "reading"))
    /\ NeverBack

(* As long as the hub is there nobody is kept waiting, however full the others keep
   the channel: a recording is told of to its end, and the reader of a wire that has
   something to send gets back to the wire: to its next line, or, after a failure, to
   opening it again. *)
CarriesOn ==
    \A s \in Sources :
        /\ <>(hub = "gone" \/ s \in Wires \/ told[s].last \in {"ended", "error"})
        /\ (s \in Wires /\ at[s] = "sending" /\ hand[s].kind # "error")
               ~> (hub = "gone" \/ at[s] = "reading")
        /\ (s \in Wires /\ at[s] = "sending" /\ hand[s].kind = "error")
               ~> (hub = "gone" \/ at[s] = "opening")
================================================================================
