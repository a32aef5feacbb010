-------------------------------- MODULE Journal --------------------------------
(***************************************************************************)
(* What is written about the links and the fix, as it happens:             *)
(* src/journal.rs.  Operators on one source's Seen record; Hub keeps one   *)
(* for each source, and the status of the fix last written.                *)
(*                                                                         *)
(* An error message stands for its text as one_line leaves it.             *)
(***************************************************************************)
EXTENDS Integers, FiniteSets

CONSTANTS
    StaleAfter,         \* STALE_AFTER
    QuietHold,          \* QUIET_HOLD: how long a quiet must last to be written
    MessagesPerOutage,  \* MESSAGES_PER_OUTAGE
    Messages            \* the error messages a link may fail with

ASSUME JournalAssumption ==
    /\ StaleAfter \in Nat \ {0}
    /\ QuietHold \in Nat
    /\ MessagesPerOutage \in Nat \ {0}

-----------------------------------------------------------------------------
Never == -1
Instants == Nat \cup {Never}

Statuses == {"connecting", "ok", "quiet", "error", "ended"}
Unwritten == "unwritten"            \* None, of an Option<SourceStatus>
NoMessage == "none"                 \* None, of an Option<String>

Seens == [status: Statuses \cup {Unwritten}, errors: SUBSET Messages,
          connected: Instants, told: BOOLEAN]
NewSeen == [status |-> Unwritten, errors |-> {}, connected |-> Never, told |-> FALSE]

(* A line written about a source: what it says, the message of an error, and
   the seconds a quiet line or a `connected` line gives. *)
Line(says, message, for) == [says |-> says, message |-> message, for |-> for]
NoLine == Line("nothing", NoMessage, 0)
Plain(status) == Line(status, NoMessage, 0)

(* What a call to Journal::source leaves behind and returns. *)
News(seen, line) == [seen |-> seen, line |-> line]

-----------------------------------------------------------------------------
(* Journal::connected. *)
Reached(seen, t) == [seen EXCEPT !.connected = t]

(* Mutation: an error is written without becoming the status last written. *)
ErrorNewsKeepsStatus(seen, message) ==
    IF message \in seen.errors \/ Cardinality(seen.errors) >= MessagesPerOutage
    THEN News([seen EXCEPT !.connected = Never], NoLine)
    ELSE News([seen EXCEPT !.connected = Never, !.errors = @ \cup {message}],
              Line("error", message, 0))

ErrorNews(seen, message) ==
    LET waiting == [seen EXCEPT !.connected = Never]
    IN IF message \in seen.errors \/ Cardinality(seen.errors) >= MessagesPerOutage
       THEN News(waiting, NoLine)
       ELSE News([waiting EXCEPT !.errors = @ \cup {message}, !.status = "error"],
                 Line("error", message, 0))

ConnectingNews(seen) ==
    IF seen.connected # Never \/ seen.status \in {"error", "connecting"}
    THEN News(seen, NoLine)
    ELSE News([seen EXCEPT !.status = "connecting"], Plain("connecting"))

(* Mutation: `connected` is written however often it was told. *)
QuietNewsRepeats(seen, silent, t) ==
    IF seen.connected # Never
    THEN News([seen EXCEPT !.connected = Never, !.status = "quiet", !.told = TRUE],
              Line("connected", NoMessage, t - seen.connected))
    ELSE IF silent < StaleAfter + QuietHold \/ seen.status = "quiet"
         THEN News(seen, NoLine)
         ELSE News([seen EXCEPT !.status = "quiet"], Line("quiet", NoMessage, silent))

QuietNews(seen, silent, t) ==
    IF seen.connected # Never
    THEN News([seen EXCEPT !.connected = Never, !.status = "quiet", !.told = TRUE],
              IF seen.told THEN NoLine ELSE Line("connected", NoMessage, t - seen.connected))
    ELSE IF silent < StaleAfter + QuietHold \/ seen.status = "quiet"
         THEN News(seen, NoLine)
         ELSE News([seen EXCEPT !.status = "quiet"], Line("quiet", NoMessage, silent))

(* Mutation: the errors written are remembered past the recovery. *)
WorkingNewsKeepsErrors(seen, status) ==
    News([seen EXCEPT !.connected = Never, !.told = FALSE, !.status = status],
         IF seen.status = status THEN NoLine ELSE Plain(status))

WorkingNews(seen, status) ==
    News([seen EXCEPT !.connected = Never, !.errors = {}, !.told = FALSE, !.status = status],
         IF seen.status = status THEN NoLine ELSE Plain(status))

(* Journal::source, given how long the source has been silent and the instant
   its status is recorded at. *)
SourceNews(seen, status, message, silent, t) ==
    CASE status = "error" -> ErrorNews(seen, message)
      [] status = "connecting" -> ConnectingNews(seen)
      [] status = "quiet" -> QuietNews(seen, silent, t)
      [] status \in {"ok", "ended"} -> WorkingNews(seen, status)

(* Journal::forget, for one source. *)
Forgotten(seen) == [seen EXCEPT !.status = Unwritten, !.errors = {}, !.told = FALSE]
=============================================================================
