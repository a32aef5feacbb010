---------------------------------- MODULE Hub ----------------------------------
(***************************************************************************)
(* The hub's loop over its sources: `run` and `Tracked` of src/hub.rs,     *)
(* with the fix (Navigation), what is written about it (Journal) and the   *)
(* queue to the recording (RecordQueue).                                   *)
(*                                                                         *)
(* One turn of the loop is: take an event, or a tick, or an app's          *)
(* connection; judge every source and the fix as they stand; send what is  *)
(* news to the recording, one line at a time, while the recorder's thread  *)
(* may be reading it.  The turn's two readings of the clock are one        *)
(* instant here.  What the turn does for apps is module Clients, what it   *)
(* does with AIS lines are Assembler and Traffic: none touches this state. *)
(***************************************************************************)
EXTENDS Journal, RecordQueue, SequencesExt

CONSTANTS
    NumSources,    \* sources of the command line, numbered from 1
    Positions,     \* the position sentences that may arrive
    StillTalking,  \* STILL_TALKING: a line this long after a position is no tail
    Recorded,      \* whether the hub was started with --record
    Lateness,      \* bound: how late the loop may come to a tick
    Horizon        \* bound: behaviours are followed up to this instant

VARIABLES
    now,      \* the clock
    tickDue,  \* when the interval fires next
    link,     \* what each source's reader is doing, and so what it may send
    tracked,  \* Vec<Tracked>
    nav,      \* Navigation
    seen,     \* Journal.sources
    fixSeen,  \* Journal.fix
    shown,    \* the status of the fix in the last state message
    outbox,   \* the news of this turn still to be sent, in the order of what it is about
    rec,      \* Option<Recorder>, and its queue
    outage,   \* history: the lines written about a source since it last worked
    booked    \* history: the comment last taken by the queue, of each source and the fix

vars == <<now, tickDue, link, tracked, nav, seen, fixSeen, shown, outbox, rec, outage, booked>>

Nav == INSTANCE Navigation

ASSUME HubAssumption ==
    /\ NumSources \in Nat \ {0}
    /\ Positions \subseteq Nav!AnyPosition
    /\ StillTalking \in 1..StaleAfter
    /\ Recorded \in BOOLEAN
    /\ Lateness \in Nat

-----------------------------------------------------------------------------
Sources == 1..NumSources
TickEvery == 1                      \* the interval of the tick: the unit of the clock

FixStatuses == {"none", "nofix", "stale", "ok"}

(* Tracked, without its counts of sentences and its Assembler. *)
Trackeds == [status: Statuses, message: Messages \cup {NoMessage}, heard: Instants,
             heardGps: Instants, connected: Instants, lastPosition: Instants]
NewTracked == [status |-> "connecting", message |-> NoMessage, heard |-> Never,
               heardGps |-> Never, connected |-> Never, lastPosition |-> Never]

(* Tracked::last_sign. *)
LastSign(t) == Max({t.heard, t.connected})

Silent(t) == LastSign(t) # Never /\ now - LastSign(t) >= StaleAfter

(* Mutation: a link only counts as heard from once it has sent a line. *)
WaitingForLines(t) == t.status = "ok"

(* What can go quiet: a source that works, or a link reached that has sent nothing. *)
Waiting(t) == t.status = "ok" \/ (t.status = "connecting" /\ t.connected # Never)

(* The quiet judgement of the turn. *)
Judged(t) == IF Waiting(t) /\ Silent(t) THEN [t EXCEPT !.status = "quiet"] ELSE t

(* `arriving`: a GPS still talking without a position, its burst's tail apart. *)
Arriving(tr) ==
    \E s \in Sources :
        /\ tr[s].lastPosition # Never /\ tr[s].heardGps # Never
        /\ tr[s].heardGps - tr[s].lastPosition >= StillTalking
        /\ now - tr[s].heardGps < StaleAfter

(* Mutation: a poll that notices late writes how late it was. *)
RecordedWhenNoticed(t) == now

(* recorded_at. *)
RecordedAt(t) ==
    IF t.status = "quiet" /\ t.connected # Never THEN t.connected + StaleAfter ELSE now

SilentFor(t) == IF LastSign(t) = Never THEN 0 ELSE now - LastSign(t)

(* The news of a turn: a comment about each source in their order, then about the fix,
   where there is one.  In the queue to the disk every line is alike here; Recorder
   follows their order. *)
TheFix == NumSources + 1
Record(about, line) == [about |-> about, line |-> line]
AnyLine == "line"

(* Journal::fix: what a comment about the fix says. *)
FixLine(status, arriving) ==
    Line(status,
         IF status # "stale" THEN NoMessage
         ELSE IF arriving THEN "sentences still arriving" ELSE "no sentences",
         0)

-----------------------------------------------------------------------------
(* The lines written since a source last worked or everything was forgotten. *)
Outage(s, status, again, line) ==
    LET before == IF again THEN <<>> ELSE outage[s]
    IN CASE status \in {"ok", "ended"} -> <<>>
         [] status \notin {"ok", "ended"} -> IF line = NoLine THEN before ELSE Append(before, line)

(* The rest of a turn, once its event has left the sources at tr, the fix at n,
   what the journal has seen of the sources at sn and the recorder at r. *)
Turn(tr, n, sn, r) ==
    LET again == r.held /\ r.caughtUp
        told == [s \in Sources |-> IF again THEN Forgotten(sn[s]) ELSE sn[s]]
        judged == [s \in Sources |-> Judged(tr[s])]
        status == Nav!Status(n, now)
        said == [s \in Sources |->
                    SourceNews(told[s], judged[s].status, judged[s].message,
                               SilentFor(judged[s]), RecordedAt(judged[s]))]
        links == {Record(s, said[s].line) : s \in {x \in Sources : said[x].line # NoLine}}
        fix == IF again \/ fixSeen # status
               THEN {Record(TheFix, FixLine(status, Arriving(judged)))} ELSE {}
    IN /\ tracked' = judged
       /\ nav' = n
       /\ seen' = [s \in Sources |-> said[s].seen]
       /\ fixSeen' = status
       /\ shown' = status
       /\ rec' = [r EXCEPT !.caughtUp = FALSE]
       /\ outbox' = links \cup fix
       /\ outage' = [s \in Sources |-> Outage(s, judged[s].status, again, said[s].line)]
       /\ UNCHANGED <<now, booked>>

Idle == outbox = {}

(* Event::Line, a line arriving from a source: one the hub takes for the GPS
   talking, by its first character, or not; and with a position or not, whichever
   character that was: the parser takes both for a sentence's first. *)
HearLine(s, gps, lastPosition, n) ==
    /\ Idle /\ link[s] \in {"up", "playing"}
    /\ Turn([tracked EXCEPT ![s] =
                [@ EXCEPT !.status = "ok", !.message = NoMessage, !.heard = now,
                          !.connected = Never, !.lastPosition = lastPosition,
                          !.heardGps = IF gps THEN now ELSE tracked[s].heardGps]],
            n, seen, Send(rec, AnyLine, FALSE))
    /\ UNCHANGED <<link, tickDue>>

HearPosition(s, p, gps) == HearLine(s, gps, now, Nav!Update(nav, p, now))
HearTalk(s) == HearLine(s, TRUE, tracked[s].lastPosition, nav)
HearAis(s) == HearLine(s, FALSE, tracked[s].lastPosition, nav)

(* Event::Status. *)
HearStatus(s, status, message) ==
    /\ Idle
    /\ Turn([tracked EXCEPT ![s] =
                [@ EXCEPT !.status = status, !.message = message, !.connected = Never]],
            nav, seen, rec)
    /\ UNCHANGED tickDue

(* A serial or TCP link that cannot be reached, or breaks; it is tried again. *)
Fail(s, message) ==
    /\ link[s] \in {"down", "up"}
    /\ link' = [link EXCEPT ![s] = "down"]
    /\ HearStatus(s, "error", message)

(* A recording that cannot be read is given up. *)
GiveUp(s, message) ==
    /\ link[s] = "playing"
    /\ link' = [link EXCEPT ![s] = "done"]
    /\ HearStatus(s, "error", message)

(* A recording has been played to its end. *)
End(s) ==
    /\ link[s] = "playing"
    /\ link' = [link EXCEPT ![s] = "done"]
    /\ HearStatus(s, "ended", NoMessage)

(* Event::Connected: a serial or TCP link is reached. *)
Connect(s) ==
    /\ Idle /\ link[s] = "down"
    /\ link' = [link EXCEPT ![s] = "up"]
    /\ Turn([tracked EXCEPT ![s] =
                [@ EXCEPT !.connected = now, !.status = "connecting", !.message = NoMessage]],
            nav, [seen EXCEPT ![s] = Reached(@, now)], rec)
    /\ UNCHANGED tickDue

(* Mutation: the tick sends the traffic and judges nothing. *)
TickJudgesNothing ==
    /\ Idle /\ now >= tickDue
    /\ tickDue' = now + TickEvery
    /\ UNCHANGED <<now, link, tracked, nav, seen, fixSeen, shown, outbox, rec, outage, booked>>

(* The tick, which only judges everything again. *)
Tick ==
    /\ Idle /\ now >= tickDue
    /\ tickDue' = now + TickEvery
    /\ Turn(tracked, nav, seen, rec)
    /\ UNCHANGED link

(* An app connects: a turn like any other. *)
Accept ==
    /\ Idle
    /\ Turn(tracked, nav, seen, rec)
    /\ UNCHANGED <<link, tickDue>>

NextNews == CHOOSE c \in outbox : \A d \in outbox : c.about <= d.about

(* What the recording says of a source, or of the fix, with one comment more: since
   the source last worked, or ended. *)
Told(lines, c) ==
    IF c.about = TheFix \/ c.line.says \in {"ok", "ended"} THEN {c.line} ELSE lines \cup {c.line}

(* One line of news goes to the recorder. *)
SendNews ==
    /\ ~Idle
    /\ rec' = Send(rec, AnyLine, TRUE)
    /\ booked' = IF ~Takes(rec) THEN booked
                 ELSE [booked EXCEPT ![NextNews.about] = Told(@, NextNews)]
    /\ outbox' = outbox \ {NextNews}
    /\ UNCHANGED <<now, tickDue, link, tracked, nav, seen, fixSeen, shown, outage>>

(* The recorder's thread takes a line to write. *)
TakeLine ==
    /\ rec.writing /\ rec.lines # <<>>
    /\ rec' = [rec EXCEPT !.lines = Tail(@)]
    /\ UNCHANGED <<now, tickDue, link, tracked, nav, seen, fixSeen, shown, outbox, outage, booked>>

(* A write or a sync fails: the thread stops, and what is queued is lost. *)
StopRecording ==
    /\ rec.writing
    /\ rec' = [rec EXCEPT !.writing = FALSE, !.lines = <<>>]
    /\ UNCHANGED <<now, tickDue, link, tracked, nav, seen, fixSeen, shown, outbox, outage, booked>>

(* Time passes.  Other events, or the pause after a failed accept, may hold the
   loop up, but never past Lateness: MissedTickBehavior::Delay then counts the
   next tick from when this one was taken. *)
Advance ==
    /\ Idle /\ now < tickDue + Lateness /\ now < Horizon
    /\ now' = now + 1
    /\ UNCHANGED <<tickDue, link, tracked, nav, seen, fixSeen, shown, outbox, rec, outage, booked>>

-----------------------------------------------------------------------------
(* A source is a serial or TCP link, not reached yet, or a recording being played;
   interval() fires at once, so the first tick is due as the hub starts. *)
Init ==
    /\ now = 0 /\ tickDue = 0
    /\ link \in [Sources -> {"down", "playing"}]
    /\ tracked = [s \in Sources |-> NewTracked]
    /\ nav = Nav!NoNavigation
    /\ seen = [s \in Sources |-> NewSeen]
    /\ fixSeen = Unwritten
    /\ shown = Unwritten
    /\ outbox = {}
    /\ rec = IF Recorded THEN NewRecorder ELSE NoRecorder
    /\ outage = [s \in Sources |-> <<>>]
    /\ booked = [a \in Sources \cup {TheFix} |-> {}]

Next ==
    \/ \E s \in Sources :
        \/ \E p \in Positions, gps \in BOOLEAN : HearPosition(s, p, gps)
        \/ HearTalk(s)
        \/ HearAis(s)
        \/ \E m \in Messages : Fail(s, m) \/ GiveUp(s, m)
        \/ End(s)
        \/ Connect(s)
    \/ Tick
    \/ Accept
    \/ SendNews
    \/ TakeLine
    \/ StopRecording
    \/ Advance

Spec == Init /\ [][Next]_vars

-----------------------------------------------------------------------------
TypeOK ==
    /\ now \in Nat /\ tickDue \in Nat
    /\ link \in [Sources -> {"down", "up", "playing", "done"}]
    /\ tracked \in [Sources -> Trackeds]
    /\ nav \in Nav!Navigations
    /\ seen \in [Sources -> Seens]
    /\ fixSeen \in FixStatuses \cup {Unwritten}
    /\ shown \in FixStatuses \cup {Unwritten}
    /\ \A c \in outbox : c.about \in Sources \cup {TheFix}
    /\ Len(rec.lines) <= RecordLimit

Errors(lines) == {l.message : l \in {k \in lines : k.says = "error"}}
Says(lines) == {l.says : l \in lines}

(* Between two times a source works, no line about it is written twice,
   whatever it goes through: refused, reached and silent, hung up, refused
   again for another reason (README.md: one line, not one every 2 seconds). *)
EachOnceAnOutage ==
    \A s \in Sources : \A i, j \in DOMAIN outage[s] :
        i < j => \/ outage[s][i].says # outage[s][j].says
                 \/ outage[s][i].message # outage[s][j].message

(* Nobody is left waiting: once what there is to write has been written, a
   source in error has had that error written since it last worked (or as many
   others as an outage may have), and one quiet for longer than the hold has had
   that written, or the silence of the link it reached. *)
OutageIsTold ==
    Idle => \A s \in Sources :
        /\ tracked[s].status = "error" =>
              LET errors == Errors(Range(outage[s]))
              IN tracked[s].message \in errors \/ Cardinality(errors) >= MessagesPerOutage
        /\ tracked[s].status = "quiet" /\ SilentFor(tracked[s]) > StaleAfter + QuietHold + Lateness =>
              Says(Range(outage[s])) \cap {"quiet", "connected"} # {}

(* The `ok` that ends an outage is written exactly when something was written of
   the outage: a reader who saw a source go sees it come back, and a short
   silence that was never written ends without a word, unless all was forgotten
   for a recording that had lost a comment. *)
RecoveryIsTold ==
    [][Idle /\ ~rec.lostComment /\ ~rec.caughtUp =>
          \A s \in Sources :
             tracked'[s].status = "ok" =>
                LET told == Record(s, Plain("ok")) \in outbox'
                IN /\ outage[s] # <<>> => told
                   /\ outage[s] = <<>> /\ seen[s].status # Unwritten
                      /\ tracked[s].status \in {"ok", "quiet"} => ~told]_vars

(* A source that stops sending, or is reached and sends nothing, is quiet
   StaleAfter later, even when nothing else arrives and the loop is late. *)
QuietOnTime ==
    \A s \in Sources :
        tracked[s].status \in {"ok", "connecting"} /\ LastSign(tracked[s]) # Never =>
            now - LastSign(tracked[s]) <= StaleAfter + Lateness

(* docs/protocol.md: `connected, nothing heard for 5 s` gives the quiet
   threshold; a poll that notices later still writes 5. *)
ConnectedIsExact ==
    \A c \in outbox : c.line.says = "connected" => c.line.for = StaleAfter

(* The apps' last state message does not say `ok` of a position that has gone
   stale, a tick and the loop's lateness apart, even when nothing arrives. *)
ShownOnTime ==
    shown = "ok" => now - nav.at <= StaleAfter + Lateness

(* However the lines of several sources fall between each other's, the hub drives
   the one fix by the rules of Navigation: only position sentences and time change
   it, and AIS, talk without a position, errors and reconnections of any source do
   not. *)
FixIsNavigation == Nav!Spec

(* No source is passed over for another: what the fix last heard is the newest
   position sentence of all the sources, whichever gave it, and whether that had a
   position or said there is none. *)
EverySourceIsHeard ==
    /\ \A s \in Sources : tracked[s].lastPosition <= nav.heard
    /\ \E s \in Sources : tracked[s].lastPosition = nav.heard

(* Whenever no comment is known to be lost, the comments the recording has taken
   tell how things stand: the status of the fix, a source that works or has
   ended, and the error of one that does not, however the recorder's thread
   stalled and drained between them (docs/protocol.md: every source and the fix
   are written again). *)
RecordingTellsAll ==
    rec.held /\ Idle /\ ~rec.lostComment /\ ~rec.caughtUp /\ fixSeen # Unwritten =>
        /\ {l.says : l \in booked[TheFix]} = {fixSeen}
        /\ \A s \in Sources :
            /\ tracked[s].status \in {"ok", "ended"} => booked[s] = {Plain(tracked[s].status)}
            /\ tracked[s].status = "error" =>
                 \/ tracked[s].message \in Errors(booked[s])
                 \/ Cardinality(Errors(booked[s])) >= MessagesPerOutage

(* docs/protocol.md: if a comment is dropped, every source and the fix are
   written again as they stand once the recording catches up. *)
CatchUpIsTold ==
    [][Idle /\ rec.held /\ rec.writing /\ rec.lostComment /\ rec.lines = <<>> /\ tickDue' # tickDue
          => outbox' # {}]_vars
=============================================================================
