------------------------------ MODULE RecordQueue ------------------------------
(***************************************************************************)
(* The hub's side of the recording: the Recorder struct of src/hub.rs, the *)
(* queue to the thread that writes the disk, and Recorder::send.           *)
(***************************************************************************)
EXTENDS Integers, Sequences

CONSTANT RecordLimit    \* RECORD_QUEUE: lines queued for the disk

ASSUME RecordLimitAssumption == RecordLimit \in Nat \ {0}

(* held: the hub still has a Recorder.  writing: the thread still reads the
   queue.  lines: the queue. *)
NewRecorder ==
    [held |-> TRUE, writing |-> TRUE, lines |-> <<>>,
     behind |-> FALSE, lostComment |-> FALSE, caughtUp |-> FALSE]

NoRecorder == [NewRecorder EXCEPT !.held = FALSE, !.writing = FALSE]

(* Mutation: catching up is noticed, the lost comment not cleared. *)
SendNeverClears(r, line, comment) ==
    CASE ~r.held -> r
      [] r.held /\ ~r.writing -> [r EXCEPT !.held = FALSE]
      [] r.held /\ r.writing /\ Len(r.lines) < RecordLimit ->
            [r EXCEPT !.lines = Append(@, line), !.behind = FALSE]
      [] r.held /\ r.writing /\ Len(r.lines) >= RecordLimit ->
            [r EXCEPT !.behind = TRUE]

(* Mutation: the queue takes one line more than it holds. *)
SendOverfills(r, line, comment) ==
    CASE ~r.held -> r
      [] r.held /\ ~r.writing -> [r EXCEPT !.held = FALSE]
      [] r.held /\ r.writing /\ Len(r.lines) <= RecordLimit ->
            [r EXCEPT !.lines = Append(@, line), !.behind = FALSE,
                      !.caughtUp = @ \/ r.lostComment, !.lostComment = FALSE]
      [] r.held /\ r.writing /\ Len(r.lines) > RecordLimit ->
            [r EXCEPT !.behind = TRUE, !.lostComment = @ \/ comment]

(* Recorder::send: a stopped thread ends the recording, a full queue drops the
   line and remembers that a comment was lost, and the first line taken after
   that tells the hub it has caught up.  The hub drops its Recorder when send
   returns false. *)
Send(r, line, comment) ==
    CASE ~r.held -> r
      [] r.held /\ ~r.writing -> [r EXCEPT !.held = FALSE]
      [] r.held /\ r.writing /\ Len(r.lines) < RecordLimit ->
            [r EXCEPT !.lines = Append(@, line), !.behind = FALSE,
                      !.caughtUp = @ \/ r.lostComment, !.lostComment = FALSE]
      [] r.held /\ r.writing /\ Len(r.lines) >= RecordLimit ->
            [r EXCEPT !.behind = TRUE, !.lostComment = @ \/ comment]

(* Whether Send puts the line in the queue. *)
Takes(r) == r.held /\ r.writing /\ Len(r.lines) < RecordLimit
=============================================================================
